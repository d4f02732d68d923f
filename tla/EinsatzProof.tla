---------------------------- MODULE EinsatzProof ----------------------------
(* Which units are sent, who is invited, takes part and leads, and what the  *)
(* program adds to an incident, closes by itself or reminds of. For any number*)
(* of sites, people, answers and workers.                                    *)
EXTENDS DispositionParallel, Einladung, Termine, Stab, Anreicherung, Autoclose, Erinnerung, Atemschutz,
        SequenceTheorems, FiniteSetTheorems, WellFoundedInduction, TLAPS

-----------------------------------------------------------------------------
(* Dispatches in parallel transactions *)

\* What a worker's open transaction holds.
ParTx == [op : AnStelle \cup {"pool"}, stelle : Stellen \cup {None}, zeile : Nat,
          abzug : SUBSET Nat, einheit : EinheitZeile]

ParForm == arbeit \in [ParWorker -> ParTx \cup {None}]

\* The rows there are and those the open transactions will insert fit the bound.
ZeilenPassen == Len(zeilen) + Cardinality(Einfuegende) <= MaxZeilen

\* The inductive invariant of any number of workers.
ParInv == ParTypeOK /\ ParForm /\ ZeilenPassen

\* The workers that will insert are finitely many.
LEMMA EinfuegendeEndlich == IsFiniteSet(Einfuegende) /\ Cardinality(Einfuegende) \in Nat
<1>1. Einfuegende \subseteq ParWorker BY DEF Einfuegende
<1>2. IsFiniteSet(Einfuegende) BY <1>1, FS_Subset, ParWorkerAssumption
<1> QED BY <1>2, FS_CardinalityType

\* The rows a commit leaves: the known ones with their marks, and one more if the
\* transaction found none.
LEMMA ZeilenNach ==
  ASSUME zeilen \in Seq(Zeile), NEW a \in ParTx,
         a.op \in AnStelle => a.stelle \in Stellen,
         zeilen' = Aktualisiert(a) \o Eingefuegt(a)
  PROVE  /\ zeilen' \in Seq(Zeile)
         /\ Len(zeilen') = IF NeueZeile(a) THEN Len(zeilen) + 1 ELSE Len(zeilen)
         /\ DOMAIN zeilen' = 1..Len(zeilen')
         /\ \A i \in 1..Len(zeilen) :
              /\ zeilen'[i].stelle = zeilen[i].stelle
              /\ zeilen'[i].vorOrt <=> zeilen[i].vorOrt \/ (i = a.zeile /\ MeldetVorOrt(a))
              /\ zeilen'[i].abgezogen <=> \/ zeilen[i].abgezogen
                                          \/ i \in a.abzug
                                          \/ i = a.zeile /\ a.op = "abziehen"
         /\ NeueZeile(a) =>
              zeilen'[Len(zeilen) + 1] = [stelle |-> a.stelle, vorOrt |-> MeldetVorOrt(a),
                                          abgezogen |-> FALSE]
<1> DEFINE A == Aktualisiert(a)
           E == Eingefuegt(a)
           z(i) == [zeilen[i] EXCEPT !.vorOrt = @ \/ (i = a.zeile /\ MeldetVorOrt(a)),
                       !.abgezogen = @ \/ i \in a.abzug
                                       \/ (i = a.zeile /\ a.op = "abziehen")]
<1>1. \A i \in 1..Len(zeilen) :
        /\ z(i) \in Zeile
        /\ z(i).stelle = zeilen[i].stelle
        /\ z(i).vorOrt <=> zeilen[i].vorOrt \/ (i = a.zeile /\ MeldetVorOrt(a))
        /\ z(i).abgezogen <=> \/ zeilen[i].abgezogen
                              \/ i \in a.abzug
                              \/ i = a.zeile /\ a.op = "abziehen"
  <2> TAKE i \in 1..Len(zeilen)
  <2>1. zeilen[i] \in Zeile OBVIOUS
  <2> DEFINE v == zeilen[i].vorOrt \/ (i = a.zeile /\ MeldetVorOrt(a))
             g == zeilen[i].abgezogen \/ i \in a.abzug
                     \/ (i = a.zeile /\ a.op = "abziehen")
  <2>2. z(i) = [zeilen[i] EXCEPT !.vorOrt = v, !.abgezogen = g] OBVIOUS
  <2>3. v \in BOOLEAN /\ g \in BOOLEAN BY <2>1 DEF Zeile
  <2> HIDE DEF v, g, z
  <2>4. /\ z(i) \in Zeile /\ z(i).stelle = zeilen[i].stelle
        /\ z(i).vorOrt = v /\ z(i).abgezogen = g
    BY <2>1, <2>2, <2>3 DEF Zeile
  <2> QED BY <2>4 DEF v, g
<1>2. DOMAIN zeilen = 1..Len(zeilen) /\ Len(zeilen) \in Nat OBVIOUS
<1>3. A = [i \in 1..Len(zeilen) |-> z(i)] BY <1>2 DEF Aktualisiert
<1> HIDE DEF z
<1>4. A \in Seq(Zeile) /\ Len(A) = Len(zeilen) /\ \A i \in 1..Len(zeilen) : A[i] = z(i)
  <2> HIDE DEF A
  <2> QED BY <1>1, <1>2, <1>3
<1>5. E \in Seq(Zeile) /\ Len(E) = IF NeueZeile(a) THEN 1 ELSE 0
  <2>1. CASE NeueZeile(a)
    <3>1. a.stelle \in Stellen BY <2>1 DEF NeueZeile, ParTx
    <3>2. MeldetVorOrt(a) \in BOOLEAN BY DEF MeldetVorOrt
    <3>3. [stelle |-> a.stelle, vorOrt |-> MeldetVorOrt(a), abgezogen |-> FALSE] \in Zeile
      BY <3>1, <3>2 DEF Zeile
    <3> QED BY <2>1, <3>3 DEF Eingefuegt
  <2> QED BY <2>1 DEF Eingefuegt
<1>6. NeueZeile(a) => E[1] = [stelle |-> a.stelle, vorOrt |-> MeldetVorOrt(a),
                              abgezogen |-> FALSE]
  BY DEF Eingefuegt
<1>7. zeilen' = A \o E OBVIOUS
<1> HIDE DEF A, E
<1>8. /\ zeilen' \in Seq(Zeile) /\ Len(zeilen') = Len(A) + Len(E)
      /\ \A i \in 1..Len(A) : zeilen'[i] = A[i]
      /\ \A i \in Len(A) + 1..Len(A) + Len(E) : zeilen'[i] = E[i - Len(A)]
  BY <1>4, <1>5, <1>7, ConcatProperties
<1>9. Len(zeilen') = IF NeueZeile(a) THEN Len(zeilen) + 1 ELSE Len(zeilen)
  BY <1>2, <1>4, <1>5, <1>8
<1>10. NeueZeile(a) => zeilen'[Len(zeilen) + 1] = E[1]
  BY <1>2, <1>4, <1>5, <1>8
<1>11. \A i \in 1..Len(zeilen) : zeilen'[i] = z(i) BY <1>4, <1>8
<1> QED BY <1>1, <1>6, <1>8, <1>9, <1>10, <1>11

LEMMA ParInit0 == ParInit => ParInv
<1> SUFFICES ASSUME ParInit PROVE ParInv OBVIOUS
<1> USE DEF ParInit
<1>1. Einfuegende = {} BY DEF Einfuegende
<1>2. Cardinality(Einfuegende) = 0 BY <1>1, FS_EmptySet
<1>3. zeilen \in Seq(Zeile) /\ Len(zeilen) = 0 OBVIOUS
<1>4. einheit \in EinheitZeile BY DEF EinheitZeile
<1> QED BY <1>2, <1>3, <1>4, MaxZeilenAssumption DEF ParInv, ParTypeOK, ParForm, ZeilenPassen

\* What a handler of a route of AnStelle has open after its reads.
LEMMA GelesenForm ==
  ASSUME ParInv, NEW op \in AnStelle, NEW s \in Stellen, NEW a \in TxGelesen(op, s)
  PROVE  /\ a \in ParTx /\ a.op = op /\ a.stelle = s /\ a.einheit = einheit
         /\ a.zeile \in 0..Len(zeilen) /\ a.abzug = Abzuziehen(op, s)
         /\ a.abzug \subseteq DOMAIN zeilen
         /\ a.zeile \in IF AktiveZeilen(s) = {} THEN {0} ELSE AktiveZeilen(s)
<1>1. PICK z \in IF AktiveZeilen(s) = {} THEN {0} ELSE AktiveZeilen(s) :
        a = [op |-> op, stelle |-> s, zeile |-> z, abzug |-> Abzuziehen(op, s),
             einheit |-> einheit]
  BY DEF TxGelesen
<1>2. DOMAIN zeilen = 1..Len(zeilen) /\ Len(zeilen) \in Nat BY DEF ParInv, ParTypeOK
<1>3. z \in 0..Len(zeilen) BY <1>2 DEF AktiveZeilen
<1>4. Abzuziehen(op, s) \subseteq DOMAIN zeilen BY DEF Abzuziehen, Konflikte, VorOrtZeilen
<1>5. Abzuziehen(op, s) \in SUBSET Nat BY <1>2, <1>4
<1>6. einheit \in EinheitZeile BY DEF ParInv, ParTypeOK
<1> HIDE DEF ParInv
<1> QED BY <1>1, <1>2, <1>3, <1>4, <1>5, <1>6 DEF ParTx

LEMMA TxLesenErhaelt ==
  ASSUME ParInv, NEW w \in ParWorker, NEW op \in AnStelle, NEW s \in Stellen,
         TxLesen(w, op, s)
  PROVE  ParInv'
<1>1. PICK a \in TxGelesen(op, s) : /\ NeueZeile(a) => Platz
                                   /\ arbeit' = [arbeit EXCEPT ![w] = a]
  BY DEF TxLesen
<1>2. /\ a \in ParTx /\ a.op = op /\ a.stelle = s
      /\ a.zeile \in 0..Len(zeilen) /\ a.abzug \subseteq DOMAIN zeilen
  BY GelesenForm
<1>3. zeilen' = zeilen /\ einheit' = einheit BY DEF TxLesen
<1>4. ParTypeOK'
  BY <1>1, <1>2, <1>3 DEF ParInv, ParTypeOK, ParForm, ParTx
<1>5. ParForm' BY <1>1, <1>2 DEF ParInv, ParForm
<1>6. ZeilenPassen'
  <2>1. CASE NeueZeile(a)
    <3>1. Einfuegende' \subseteq Einfuegende \cup {w}
      BY <1>1 DEF ParInv, ParForm, Einfuegende
    <3>2. w \notin Einfuegende BY DEF Einfuegende, TxLesen
    <3>3. /\ IsFiniteSet(Einfuegende \cup {w})
          /\ Cardinality(Einfuegende \cup {w}) = Cardinality(Einfuegende) + 1
      BY <3>2, EinfuegendeEndlich, FS_AddElement
    <3>4. /\ Cardinality(Einfuegende') \in Nat
          /\ Cardinality(Einfuegende') <= Cardinality(Einfuegende) + 1
      BY <3>1, <3>3, FS_Subset, FS_CardinalityType
    <3>5. Len(zeilen) \in Nat BY DEF ParInv, ParTypeOK
    <3>6. Len(zeilen) + Cardinality(Einfuegende) < MaxZeilen BY <1>1, <2>1 DEF Platz
    <3> HIDE DEF ParInv
    <3>7. \A b, c, d \in Nat : b <= c + 1 /\ d + c < MaxZeilen => d + b <= MaxZeilen
      BY MaxZeilenAssumption
    <3> QED BY <1>3, <3>4, <3>5, <3>6, <3>7, EinfuegendeEndlich DEF ZeilenPassen
  <2>2. CASE ~NeueZeile(a)
    <3>1. Einfuegende' \subseteq Einfuegende
      BY <1>1, <2>2 DEF ParInv, ParForm, Einfuegende
    <3>2. Einfuegende \subseteq Einfuegende'
      BY <1>1 DEF ParInv, ParForm, Einfuegende, TxLesen
    <3>3. Einfuegende' = Einfuegende BY <3>1, <3>2
    <3> QED BY <1>3, <3>3 DEF ParInv, ZeilenPassen
  <2> QED BY <2>1, <2>2
<1> QED BY <1>4, <1>5, <1>6 DEF ParInv

LEMMA TxLesenPoolErhaelt ==
  ASSUME ParInv, NEW w \in ParWorker, TxLesenPool(w)
  PROVE  ParInv'
<1> DEFINE a == [op |-> "pool", stelle |-> None, zeile |-> 0, abzug |-> {},
                 einheit |-> einheit]
<1>1. arbeit' = [arbeit EXCEPT ![w] = a] BY DEF TxLesenPool
<1>2. /\ a \in ParTx /\ a.op = "pool" /\ a.zeile = 0 /\ a.abzug = {}
      /\ a.einheit \in EinheitZeile
  BY DEF ParInv, ParTypeOK, ParTx
<1>3. zeilen' = zeilen /\ einheit' = einheit BY DEF TxLesenPool
<1>4. arbeit[w] = None BY DEF TxLesenPool
<1> HIDE DEF a
<1>5. ParTypeOK'
  BY <1>1, <1>2, <1>3 DEF ParInv, ParTypeOK, ParForm, AnStelle
<1>6. ParForm' BY <1>1, <1>2 DEF ParInv, ParForm
<1>7. Einfuegende' = Einfuegende
  BY <1>1, <1>2, <1>4 DEF ParInv, ParForm, Einfuegende, NeueZeile
<1> QED BY <1>3, <1>5, <1>6, <1>7 DEF ParInv, ZeilenPassen

LEMMA TxSchreibenErhaelt ==
  ASSUME ParInv, NEW w \in ParWorker, TxSchreiben(w)
  PROVE  ParInv'
<1> DEFINE a == arbeit[w]
<1>1. /\ a \in ParTx /\ a # None /\ arbeit' = [arbeit EXCEPT ![w] = None]
      /\ a.op \in AnStelle => a.stelle \in Stellen
      /\ zeilen' = Aktualisiert(a) \o Eingefuegt(a) /\ einheit' = TxGeschrieben(a)
      /\ zeilen \in Seq(Zeile)
  BY DEF ParInv, ParTypeOK, ParForm, TxSchreiben
<1>2. /\ zeilen' \in Seq(Zeile)
      /\ Len(zeilen') = IF NeueZeile(a) THEN Len(zeilen) + 1 ELSE Len(zeilen)
      /\ DOMAIN zeilen' = 1..Len(zeilen')
  <2> HIDE DEF a
  <2> QED BY <1>1, ZeilenNach
<1>3. einheit' \in EinheitZeile
  <2>1. a.einheit \in EinheitZeile /\ einheit \in EinheitZeile
    BY <1>1 DEF ParTx, ParInv, ParTypeOK
  <2>2. a.op = "pool" \/ (a.op \in AnStelle /\ a.stelle \in Stellen)
    BY <1>1 DEF ParTx
  <2> HIDE DEF a
  <2> QED BY <1>1, <2>1, <2>2 DEF TxGeschrieben, Gewollt, MeldetVorOrt, EinheitZeile, AnStelle
<1>4. Einfuegende' = Einfuegende \ {w}
  BY <1>1 DEF ParInv, ParForm, Einfuegende
<1>5. Len(zeilen) \in Nat /\ Len(zeilen') \in Nat /\ Len(zeilen) <= Len(zeilen')
  BY <1>1, <1>2
<1>6. ZeilenPassen'
  <2>1. CASE NeueZeile(a)
    <3>1. w \in Einfuegende BY <1>1, <2>1 DEF Einfuegende
    <3>2. Cardinality(Einfuegende \ {w}) = Cardinality(Einfuegende) - 1
      BY <3>1, EinfuegendeEndlich, FS_RemoveElement
    <3>3. Len(zeilen) + Cardinality(Einfuegende) <= MaxZeilen
      BY DEF ParInv, ZeilenPassen
    <3> HIDE DEF a, ParInv
    <3>4. \A b, c, d \in Nat :
            d + c <= MaxZeilen /\ b = d + 1 => b + (c - 1) <= MaxZeilen
      BY MaxZeilenAssumption
    <3> QED BY <1>2, <1>4, <1>5, <2>1, <3>2, <3>3, <3>4, EinfuegendeEndlich DEF ZeilenPassen
  <2>2. CASE ~NeueZeile(a)
    <3>1. Einfuegende' = Einfuegende BY <1>4, <2>2 DEF Einfuegende
    <3> QED BY <1>2, <2>2, <3>1 DEF ParInv, ZeilenPassen
  <2> QED BY <2>1, <2>2
<1>7. ParForm' BY <1>1 DEF ParInv, ParForm
<1>8. Len(zeilen') <= MaxZeilen
  <2>1. Cardinality(Einfuegende') \in Nat
    BY <1>4, EinfuegendeEndlich, FS_Subset, FS_CardinalityType
  <2>2. \A b, c \in Nat : b + c <= MaxZeilen => b <= MaxZeilen BY MaxZeilenAssumption
  <2>3. Len(zeilen') + Cardinality(Einfuegende') <= MaxZeilen BY <1>6 DEF ZeilenPassen
  <2> QED BY <1>5, <2>1, <2>2, <2>3
<1>9. \A v \in ParWorker : arbeit'[v] # None =>
        /\ arbeit'[v].op \in AnStelle \cup {"pool"}
        /\ arbeit'[v].op \in AnStelle => arbeit'[v].stelle \in Stellen
        /\ arbeit'[v].zeile \in 0..Len(zeilen')
        /\ arbeit'[v].abzug \subseteq DOMAIN zeilen'
        /\ arbeit'[v].einheit \in EinheitZeile
  <2>1. SUFFICES ASSUME NEW v \in ParWorker, arbeit'[v] # None
                 PROVE  /\ arbeit'[v].op \in AnStelle \cup {"pool"}
                        /\ arbeit'[v].op \in AnStelle => arbeit'[v].stelle \in Stellen
                        /\ arbeit'[v].zeile \in 0..Len(zeilen')
                        /\ arbeit'[v].abzug \subseteq DOMAIN zeilen'
                        /\ arbeit'[v].einheit \in EinheitZeile
    OBVIOUS
  <2>2. arbeit'[v] = arbeit[v] /\ arbeit[v] # None
    BY <1>1, <2>1 DEF ParInv, ParForm
  <2>3. /\ arbeit[v].op \in AnStelle \cup {"pool"}
        /\ arbeit[v].op \in AnStelle => arbeit[v].stelle \in Stellen
        /\ arbeit[v].zeile \in 0..Len(zeilen)
        /\ arbeit[v].abzug \subseteq DOMAIN zeilen
        /\ arbeit[v].einheit \in EinheitZeile
    BY <2>2 DEF ParInv, ParTypeOK
  <2>4. DOMAIN zeilen = 1..Len(zeilen) BY <1>1
  <2>5. 1..Len(zeilen) \subseteq 1..Len(zeilen') /\ 0..Len(zeilen) \subseteq 0..Len(zeilen')
    BY <1>5
  <2> QED BY <1>2, <2>2, <2>3, <2>4, <2>5
<1> QED BY <1>2, <1>3, <1>6, <1>7, <1>8, <1>9 DEF ParInv, ParTypeOK

LEMMA ParSchritt == ParInv /\ [ParNext]_parVars => ParInv'
<1> SUFFICES ASSUME ParInv, [ParNext]_parVars PROVE ParInv' OBVIOUS
<1>1. ASSUME NEW w \in ParWorker, TxSchreiben(w) PROVE ParInv'
  BY <1>1, TxSchreibenErhaelt
<1>2. ASSUME NEW w \in ParWorker, NEW op \in AnStelle, NEW s \in Stellen, TxLesen(w, op, s)
      PROVE  ParInv'
  BY <1>2, TxLesenErhaelt
<1>3. ASSUME NEW w \in ParWorker, TxLesenPool(w) PROVE ParInv'
  BY <1>3, TxLesenPoolErhaelt
<1>4. ASSUME UNCHANGED parVars PROVE ParInv'
  BY <1>4 DEF parVars, ParInv, ParTypeOK, ParForm, ZeilenPassen, Einfuegende
<1> QED BY <1>1, <1>2, <1>3, <1>4 DEF ParNext

LEMMA ParInvImmer == ParSpec => []ParInv
<1>1. ParInit => ParInv BY ParInit0
<1>2. ParInv /\ [ParNext]_parVars => ParInv' BY ParSchritt
<1> QED BY <1>1, <1>2, PTL DEF ParSpec

\* The rows of a site: one on site, one not withdrawn, any.
Steht(t) == \E i \in VorOrtZeilen : zeilen[i].stelle = t
Kommt(t) == AktiveZeilen(t) # {}
Bekannt(t) == \E i \in DOMAIN zeilen : zeilen[i].stelle = t

\* EineAktiveZeile, element by element.
Einzeln == \A s \in Stellen : \A i, j \in AktiveZeilen(s) : i = j

LEMMA AktiveEndlich == ParInv => \A s \in Stellen : IsFiniteSet(AktiveZeilen(s))
<1> SUFFICES ASSUME ParInv, NEW s \in Stellen PROVE IsFiniteSet(AktiveZeilen(s)) OBVIOUS
<1>1. DOMAIN zeilen = 1..Len(zeilen) /\ Len(zeilen) \in Nat BY DEF ParInv, ParTypeOK
<1>2. IsFiniteSet(1..Len(zeilen)) BY <1>1, FS_Interval
<1>3. AktiveZeilen(s) \subseteq 1..Len(zeilen) BY <1>1 DEF AktiveZeilen
<1> QED BY <1>2, <1>3, FS_Subset

LEMMA EinzelnFolgt == ParInv /\ EineAktiveZeile => Einzeln
<1> SUFFICES ASSUME ParInv, EineAktiveZeile, NEW s \in Stellen,
                    NEW i \in AktiveZeilen(s), NEW j \in AktiveZeilen(s), i # j
             PROVE  FALSE
  BY DEF Einzeln
<1>1. IsFiniteSet(AktiveZeilen(s)) BY AktiveEndlich
<1>2. {i, j} \subseteq AktiveZeilen(s) OBVIOUS
<1>3. Cardinality({i, j}) <= Cardinality(AktiveZeilen(s)) BY <1>1, <1>2, FS_Subset
<1>4. Cardinality({i, j}) = 2
  <2>1. IsFiniteSet({i}) /\ Cardinality({i}) = 1 BY FS_Singleton
  <2>2. Cardinality({i} \cup {j}) = Cardinality({i}) + 1 BY <2>1, FS_AddElement
  <2>3. {i} \cup {j} = {i, j} OBVIOUS
  <2> QED BY <2>1, <2>2, <2>3
<1>5. Cardinality(AktiveZeilen(s)) <= 1 /\ Cardinality(AktiveZeilen(s)) \in Nat
  BY <1>1, FS_CardinalityType DEF EineAktiveZeile
<1> QED BY <1>3, <1>4, <1>5

\* What a transaction that was not overtaken holds.
LEMMA AktuellForm ==
  ASSUME ParInv, NEW w \in ParWorker, TxSchreiben(w), Aktuell(w), NEW a, a = arbeit[w]
  PROVE  /\ a \in ParTx
         /\ a.op = "pool" \/ (a.op \in AnStelle /\ a.stelle \in Stellen
                               /\ Zulaessig(a.op, a.stelle))
         /\ a.einheit = einheit /\ a.abzug = Abzuziehen(a.op, a.stelle)
         /\ a.zeile \in IF AktiveZeilen(a.stelle) = {} THEN {0} ELSE AktiveZeilen(a.stelle)
         /\ zeilen \in Seq(Zeile) /\ einheit \in EinheitZeile
         /\ zeilen' = Aktualisiert(a) \o Eingefuegt(a) /\ einheit' = TxGeschrieben(a)
<1>1. /\ a \in ParTx /\ a # None
      /\ a.op \in AnStelle => a.stelle \in Stellen
      /\ zeilen \in Seq(Zeile) /\ einheit \in EinheitZeile
  BY DEF ParInv, ParTypeOK, ParForm, TxSchreiben
<1>2. zeilen' = Aktualisiert(a) \o Eingefuegt(a) /\ einheit' = TxGeschrieben(a)
  BY DEF TxSchreiben
<1>3. a \in TxGelesen(a.op, a.stelle) /\ (a.op = "pool" \/ Zulaessig(a.op, a.stelle))
  BY DEF Aktuell
<1>4. PICK z \in IF AktiveZeilen(a.stelle) = {} THEN {0} ELSE AktiveZeilen(a.stelle) :
        a = [op |-> a.op, stelle |-> a.stelle, zeile |-> z,
             abzug |-> Abzuziehen(a.op, a.stelle), einheit |-> einheit]
  BY <1>3 DEF TxGelesen
<1>5. /\ a.zeile = z /\ a.abzug = Abzuziehen(a.op, a.stelle) /\ a.einheit = einheit
  BY <1>4
<1>6. a.op \in AnStelle \cup {"pool"} BY <1>1 DEF ParTx
<1> QED BY <1>1, <1>2, <1>3, <1>4, <1>5, <1>6

\* The rows nobody withdrew.
Offene == {i \in DOMAIN zeilen : ~zeilen[i].abgezogen}

\* What a commit does to the rows, as sets; n is the row it may insert.
ZeilenWerden(a, n) ==
  /\ n \notin DOMAIN zeilen /\ 0 \notin DOMAIN zeilen
  /\ DOMAIN zeilen' = IF NeueZeile(a) THEN DOMAIN zeilen \cup {n} ELSE DOMAIN zeilen
  /\ \A i \in DOMAIN zeilen :
       /\ zeilen'[i].stelle = zeilen[i].stelle
       /\ i \in Offene' <=> /\ i \in Offene
                            /\ i \notin a.abzug
                            /\ ~(i = a.zeile /\ a.op = "abziehen")
       /\ i \in VorOrtZeilen' <=> /\ i \in Offene'
                                  /\ \/ i \in VorOrtZeilen
                                     \/ i = a.zeile /\ MeldetVorOrt(a)
  /\ NeueZeile(a) => /\ zeilen'[n].stelle = a.stelle /\ n \in Offene'
                     /\ n \in VorOrtZeilen' <=> MeldetVorOrt(a)

LEMMA MengenNach ==
  ASSUME zeilen \in Seq(Zeile), NEW a \in ParTx,
         a.op \in AnStelle => a.stelle \in Stellen,
         zeilen' = Aktualisiert(a) \o Eingefuegt(a)
  PROVE  ZeilenWerden(a, Len(zeilen) + 1)
<1> DEFINE n == Len(zeilen) + 1
<1>1. DOMAIN zeilen = 1..Len(zeilen) /\ Len(zeilen) \in Nat OBVIOUS
<1>2. n \notin DOMAIN zeilen /\ 0 \notin DOMAIN zeilen BY <1>1
<1>3. /\ DOMAIN zeilen' = 1..Len(zeilen')
      /\ Len(zeilen') = IF NeueZeile(a) THEN n ELSE Len(zeilen)
      /\ \A i \in 1..Len(zeilen) :
           /\ zeilen'[i].stelle = zeilen[i].stelle
           /\ zeilen'[i].vorOrt <=> zeilen[i].vorOrt \/ (i = a.zeile /\ MeldetVorOrt(a))
           /\ zeilen'[i].abgezogen <=> \/ zeilen[i].abgezogen
                                       \/ i \in a.abzug
                                       \/ i = a.zeile /\ a.op = "abziehen"
      /\ NeueZeile(a) =>
           zeilen'[n] = [stelle |-> a.stelle, vorOrt |-> MeldetVorOrt(a),
                         abgezogen |-> FALSE]
  BY ZeilenNach
<1>4. 1..n = 1..Len(zeilen) \cup {n} BY <1>1
<1> HIDE DEF n
<1>5. DOMAIN zeilen' = IF NeueZeile(a) THEN DOMAIN zeilen \cup {n} ELSE DOMAIN zeilen
  BY <1>1, <1>3, <1>4
<1>6. ASSUME NEW i \in DOMAIN zeilen
      PROVE  /\ zeilen'[i].stelle = zeilen[i].stelle
             /\ i \in Offene' <=> /\ i \in Offene
                                  /\ i \notin a.abzug
                                  /\ ~(i = a.zeile /\ a.op = "abziehen")
             /\ i \in VorOrtZeilen' <=> /\ i \in Offene'
                                        /\ \/ i \in VorOrtZeilen
                                           \/ i = a.zeile /\ MeldetVorOrt(a)
  <2>1. /\ zeilen'[i].stelle = zeilen[i].stelle
        /\ zeilen'[i].vorOrt <=> zeilen[i].vorOrt \/ (i = a.zeile /\ MeldetVorOrt(a))
        /\ zeilen'[i].abgezogen <=> \/ zeilen[i].abgezogen
                                    \/ i \in a.abzug
                                    \/ i = a.zeile /\ a.op = "abziehen"
    BY <1>1, <1>3
  <2>2. i \in DOMAIN zeilen' BY <1>5
  <2>3. i \in Offene' <=> /\ i \in Offene
                          /\ i \notin a.abzug
                          /\ ~(i = a.zeile /\ a.op = "abziehen")
    BY <2>1, <2>2, Zenon DEF Offene
  <2>4. i \in VorOrtZeilen' <=> zeilen'[i].vorOrt /\ i \in Offene'
    BY <2>2, Zenon DEF Offene, VorOrtZeilen
  <2>5. i \in VorOrtZeilen <=> zeilen[i].vorOrt /\ i \in Offene
    BY Zenon DEF Offene, VorOrtZeilen
  <2>6. i \in VorOrtZeilen' <=> /\ i \in Offene'
                                /\ \/ i \in VorOrtZeilen
                                   \/ i = a.zeile /\ MeldetVorOrt(a)
    BY <2>1, <2>3, <2>4, <2>5, Zenon
  <2> QED BY <2>1, <2>3, <2>6, Zenon
<1>7. ASSUME NeueZeile(a)
      PROVE  /\ zeilen'[n].stelle = a.stelle /\ n \in Offene'
             /\ n \in VorOrtZeilen' <=> MeldetVorOrt(a)
  <2>1. /\ zeilen'[n].stelle = a.stelle /\ ~zeilen'[n].abgezogen
        /\ zeilen'[n].vorOrt <=> MeldetVorOrt(a)
    <3>1. zeilen'[n] = [stelle |-> a.stelle, vorOrt |-> MeldetVorOrt(a), abgezogen |-> FALSE]
      BY <1>3, <1>7
    <3>2. zeilen'[n].stelle = a.stelle BY <3>1
    <3>3. zeilen'[n].abgezogen = FALSE BY <3>1
    <3>4. zeilen'[n].vorOrt = MeldetVorOrt(a) BY <3>1
    <3> QED BY <3>2, <3>3, <3>4, Zenon
  <2>2. n \in DOMAIN zeilen' BY <1>5, <1>7
  <2> QED BY <2>1, <2>2, Zenon DEF Offene, VorOrtZeilen
<1>8. ZeilenWerden(a, n) BY <1>2, <1>5, <1>6, <1>7, Zenon DEF ZeilenWerden
<1> QED BY <1>8 DEF n

LEMMA AktiveSindOffen ==
  /\ \A t, i : i \in AktiveZeilen(t) <=> i \in Offene /\ zeilen[i].stelle = t
  /\ \A t, i : i \in AktiveZeilen(t)' <=> i \in Offene' /\ zeilen'[i].stelle = t
  /\ VorOrtZeilen \subseteq Offene /\ Offene \subseteq DOMAIN zeilen
  /\ VorOrtZeilen' \subseteq Offene' /\ Offene' \subseteq DOMAIN zeilen'
BY DEF AktiveZeilen, Offene, VorOrtZeilen

LEMMA CommitDisponieren ==
  ASSUME NEW a \in ParTx, a.op = "disponieren", NEW s \in Stellen, a.stelle = s,
         NEW n, ZeilenWerden(a, n),
         AktiveZeilen(s) = {}, a.zeile = 0, a.abzug = {}
  PROVE  /\ ~Steht(s) /\ ~Kommt(s)
         /\ \A t \in Stellen : /\ Steht(t)' <=> Steht(t)
                               /\ Kommt(t)' <=> (Kommt(t) \/ t = s)
                               /\ Bekannt(t)' <=> (Bekannt(t) \/ t = s)
<1>1. NeueZeile(a) /\ ~MeldetVorOrt(a) BY DEF NeueZeile, MeldetVorOrt
<1>3. /\ n \notin DOMAIN zeilen
      /\ DOMAIN zeilen' = DOMAIN zeilen \cup {n}
      /\ \A i \in DOMAIN zeilen : /\ zeilen'[i].stelle = zeilen[i].stelle
                                  /\ i \in Offene' <=> i \in Offene
                                  /\ i \in VorOrtZeilen' <=> i \in VorOrtZeilen
      /\ zeilen'[n].stelle = s /\ n \in Offene' /\ n \notin VorOrtZeilen'
  BY <1>1, AktiveSindOffen DEF ZeilenWerden
<1>4. ~Steht(s) /\ ~Kommt(s) BY AktiveSindOffen DEF Steht, Kommt
<1>5. \A t \in Stellen : Steht(t)' <=> Steht(t)
  BY <1>3, AktiveSindOffen DEF Steht
<1>6. \A t \in Stellen : Kommt(t)' <=> (Kommt(t) \/ t = s)
  BY <1>3, AktiveSindOffen DEF Kommt
<1>7. \A t \in Stellen : Bekannt(t)' <=> (Bekannt(t) \/ t = s)
  BY <1>3 DEF Bekannt
<1> QED BY <1>4, <1>5, <1>6, <1>7

\* The commit of vor_ort finds no conflicts, that of verlegen withdraws them.
LEMMA CommitVorOrt ==
  ASSUME NEW a \in ParTx, MeldetVorOrt(a), NEW s \in Stellen, a.stelle = s, Einzeln,
         NEW n, ZeilenWerden(a, n),
         a.zeile \in IF AktiveZeilen(s) = {} THEN {0} ELSE AktiveZeilen(s),
         a.abzug = Konflikte(s)
  PROVE  /\ Steht(s)'
         /\ \A t \in Stellen \ {s} :
              /\ ~Steht(t)'
              /\ Steht(t) => ~Kommt(t)' /\ Bekannt(t)'
              /\ ~Steht(t) => (Kommt(t)' <=> Kommt(t)) /\ (Bekannt(t)' <=> Bekannt(t))
<1>1. a.op \in {"vor_ort", "verlegen"} BY DEF MeldetVorOrt
<1>3. /\ n \notin DOMAIN zeilen /\ 0 \notin DOMAIN zeilen
      /\ DOMAIN zeilen' = IF NeueZeile(a) THEN DOMAIN zeilen \cup {n} ELSE DOMAIN zeilen
      /\ \A i \in DOMAIN zeilen :
           /\ zeilen'[i].stelle = zeilen[i].stelle
           /\ i \in Offene' <=> i \in Offene /\ i \notin Konflikte(s)
           /\ i \in VorOrtZeilen' <=> i \in Offene' /\ (i \in VorOrtZeilen \/ i = a.zeile)
      /\ NeueZeile(a) => zeilen'[n].stelle = s /\ n \in Offene' /\ n \in VorOrtZeilen'
  BY <1>1 DEF ZeilenWerden
<1>4. NeueZeile(a) <=> AktiveZeilen(s) = {}
  BY <1>1, <1>3, AktiveSindOffen DEF NeueZeile
<1>5. a.zeile \in DOMAIN zeilen => a.zeile \in AktiveZeilen(s) BY <1>3
<1>6. AktiveZeilen(s) # {} => a.zeile \in AktiveZeilen(s) OBVIOUS
<1>7. \A t \in Stellen : \A i, j \in AktiveZeilen(t) : i = j BY DEF Einzeln
<1>8. \A i : i \in Konflikte(s) <=> i \in VorOrtZeilen /\ zeilen[i].stelle # s
  BY DEF Konflikte
<1>9. Steht(s)'
  <2>1. CASE NeueZeile(a)
    BY <1>3, <2>1 DEF Steht
  <2>2. CASE ~NeueZeile(a)
    <3>1. a.zeile \in AktiveZeilen(s) BY <1>4, <1>6, <2>2
    <3> QED BY <1>3, <1>8, <3>1, AktiveSindOffen DEF Steht
  <2> QED BY <2>1, <2>2
<1>10. ASSUME NEW t \in Stellen \ {s} PROVE ~Steht(t)'
  BY <1>3, <1>5, <1>8, AktiveSindOffen DEF Steht
<1>11. ASSUME NEW t \in Stellen \ {s}, Steht(t) PROVE ~Kommt(t)' /\ Bekannt(t)'
  <2>1. PICK i \in VorOrtZeilen : zeilen[i].stelle = t BY <1>11 DEF Steht
  <2>2. i \in AktiveZeilen(t) /\ i \in Konflikte(s) BY <1>8, <2>1, AktiveSindOffen
  <2>3. \A j \in AktiveZeilen(t) : j \in Konflikte(s) BY <1>7, <2>2
  <2>4. ~Kommt(t)' BY <1>3, <2>3, AktiveSindOffen DEF Kommt
  <2>5. Bekannt(t)' BY <1>3, <2>1, AktiveSindOffen DEF Bekannt
  <2> QED BY <2>4, <2>5
<1>12. ASSUME NEW t \in Stellen \ {s}, ~Steht(t)
       PROVE  (Kommt(t)' <=> Kommt(t)) /\ (Bekannt(t)' <=> Bekannt(t))
  <2>1. \A i \in DOMAIN zeilen : zeilen[i].stelle = t => i \notin Konflikte(s)
    BY <1>8, <1>12 DEF Steht
  <2>2. Kommt(t)' <=> Kommt(t) BY <1>3, <2>1, AktiveSindOffen DEF Kommt
  <2>3. Bekannt(t)' <=> Bekannt(t) BY <1>3 DEF Bekannt
  <2> QED BY <2>2, <2>3
<1> QED BY <1>9, <1>10, <1>11, <1>12

LEMMA CommitAbziehen ==
  ASSUME NEW a \in ParTx, a.op = "abziehen", NEW s \in Stellen, a.stelle = s, Einzeln,
         NEW n, ZeilenWerden(a, n),
         a.zeile \in AktiveZeilen(s), a.abzug = {}
  PROVE  /\ ~Steht(s)' /\ ~Kommt(s)' /\ Bekannt(s)' /\ Kommt(s)
         /\ \A t \in Stellen \ {s} : /\ Steht(t)' <=> Steht(t)
                                     /\ Kommt(t)' <=> Kommt(t)
                                     /\ Bekannt(t)' <=> Bekannt(t)
<1>2. a.zeile \in DOMAIN zeilen /\ zeilen[a.zeile].stelle = s BY AktiveSindOffen
<1>3. a.zeile # 0 BY <1>2 DEF ZeilenWerden
<1>4. ~NeueZeile(a) /\ ~MeldetVorOrt(a) BY <1>3 DEF NeueZeile, MeldetVorOrt
<1>5. /\ DOMAIN zeilen' = DOMAIN zeilen
      /\ \A i \in DOMAIN zeilen :
           /\ zeilen'[i].stelle = zeilen[i].stelle
           /\ i \in Offene' <=> i \in Offene /\ i # a.zeile
           /\ i \in VorOrtZeilen' <=> i \in Offene' /\ i \in VorOrtZeilen
  BY <1>4 DEF ZeilenWerden
<1>6. \A i \in AktiveZeilen(s) : i = a.zeile BY DEF Einzeln
<1>7. ~Steht(s)' /\ ~Kommt(s)' /\ Bekannt(s)' /\ Kommt(s)
  BY <1>2, <1>5, <1>6, AktiveSindOffen DEF Steht, Kommt, Bekannt
<1>8. ASSUME NEW t \in Stellen \ {s}
      PROVE  /\ Steht(t)' <=> Steht(t)
             /\ Kommt(t)' <=> Kommt(t)
             /\ Bekannt(t)' <=> Bekannt(t)
  BY <1>2, <1>5, AktiveSindOffen DEF Steht, Kommt, Bekannt
<1> QED BY <1>7, <1>8

LEMMA CommitPool ==
  ASSUME NEW a \in ParTx, a.op = "pool", NEW n, ZeilenWerden(a, n), a.abzug = {}
  PROVE  \A t \in Stellen : /\ Steht(t)' <=> Steht(t)
                            /\ Kommt(t)' <=> Kommt(t)
                            /\ Bekannt(t)' <=> Bekannt(t)
<1>2. ~NeueZeile(a) /\ ~MeldetVorOrt(a) /\ a.op \notin AnStelle
  BY DEF NeueZeile, MeldetVorOrt, AnStelle
<1>3. /\ DOMAIN zeilen' = DOMAIN zeilen
      /\ \A i \in DOMAIN zeilen :
           /\ zeilen'[i].stelle = zeilen[i].stelle
           /\ i \in Offene' <=> i \in Offene
           /\ i \in VorOrtZeilen' <=> i \in VorOrtZeilen
  BY <1>2, AktiveSindOffen DEF ZeilenWerden
<1> QED BY <1>3, AktiveSindOffen DEF Steht, Kommt, Bekannt

-----------------------------------------------------------------------------
(* The refinement: Disposition with this unit as its only one *)

\* DispatchVon, case by case.
LEMMA DispatchFaelle ==
  \A t : /\ Steht(t) => DispatchVon(t) = "vor_ort"
         /\ ~Steht(t) /\ Kommt(t) => DispatchVon(t) = "disponiert"
         /\ ~Steht(t) /\ ~Kommt(t) /\ Bekannt(t) => DispatchVon(t) = "abgezogen"
         /\ ~Steht(t) /\ ~Kommt(t) /\ ~Bekannt(t) => DispatchVon(t) = "keine"
BY Zenon DEF DispatchVon, Steht, Kommt, Bekannt, VorOrtZeilen, AktiveZeilen

LEMMA DispatchFaelleDanach ==
  \A t : /\ Steht(t)' => DispatchVon(t)' = "vor_ort"
         /\ ~Steht(t)' /\ Kommt(t)' => DispatchVon(t)' = "disponiert"
         /\ ~Steht(t)' /\ ~Kommt(t)' /\ Bekannt(t)' => DispatchVon(t)' = "abgezogen"
         /\ ~Steht(t)' /\ ~Kommt(t)' /\ ~Bekannt(t)' => DispatchVon(t)' = "keine"
BY Zenon DEF DispatchVon, Steht, Kommt, Bekannt, VorOrtZeilen, AktiveZeilen

\* The columns of the unit as Disposition sees them, before and after.
LEMMA EinheitBild ==
  ASSUME einheit \in EinheitZeile, NEW a \in ParTx, einheit' = TxGeschrieben(a),
         a.einheit = einheit
  PROVE  /\ einheit'.status = Gewollt(a).status
         /\ einheit'.stelle = Gewollt(a).stelle
BY DEF TxGeschrieben

LEMMA DisponierenIstSchritt ==
  ASSUME NEW s \in Stellen, ~Steht(s), ~Kommt(s),
         \A t \in Stellen : /\ Steht(t)' <=> Steht(t)
                            /\ Kommt(t)' <=> (Kommt(t) \/ t = s)
                            /\ Bekannt(t)' <=> (Bekannt(t) \/ t = s),
         einheit'.status = "im_einsatz", einheit'.stelle = einheit.stelle,
         einheit \in EinheitZeile
  PROVE  D!DispatchToSite(0, s)
<1>1. DispatchVon(s) \notin {"disponiert", "vor_ort"}
  BY DispatchFaelle
<1>2. DispatchVon(s)' = "disponiert" BY DispatchFaelleDanach
<1>3. \A t \in Stellen \ {s} : DispatchVon(t)' = DispatchVon(t)
  BY DispatchFaelle, DispatchFaelleDanach
<1>4. ~D!Aktiv(0, s) BY <1>1 DEF D!Aktiv
<1>5. [e \in {0} |-> [t \in Stellen |-> DispatchVon(t)']]
        = [[e \in {0} |-> [t \in Stellen |-> DispatchVon(t)]] EXCEPT ![0][s] = "disponiert"]
  BY <1>2, <1>3
<1>6. einheit.status \in {"bereitgestellt", "im_einsatz"} BY DEF EinheitZeile
<1>7. [e \in {0} |-> [status |-> einheit'.status, sektor |-> None, stelle |-> einheit'.stelle]]
        = [[e \in {0} |-> [status |-> einheit.status, sektor |-> None,
                           stelle |-> einheit.stelle]]
            EXCEPT ![0].status = IF einheit.status = "bereitgestellt"
                                 THEN "im_einsatz" ELSE einheit.status]
  BY <1>6
<1> QED BY <1>4, <1>5, <1>7 DEF D!DispatchToSite, D!Gebunden

LEMMA VerlegenIstSchritt ==
  ASSUME NEW s \in Stellen, Steht(s)',
         \A t \in Stellen \ {s} :
              /\ ~Steht(t)'
              /\ Steht(t) => ~Kommt(t)' /\ Bekannt(t)'
              /\ ~Steht(t) => (Kommt(t)' <=> Kommt(t)) /\ (Bekannt(t)' <=> Bekannt(t)),
         einheit'.status = "im_einsatz", einheit'.stelle = s,
         einheit \in EinheitZeile
  PROVE  D!ResolveVorOrtConflict(0, s)
<1>1. DispatchVon(s)' = "vor_ort" BY DispatchFaelleDanach
<1>2. \A t \in Stellen \ {s} : DispatchVon(t) = "vor_ort" => DispatchVon(t)' = "abgezogen"
  BY DispatchFaelle, DispatchFaelleDanach
<1>3. \A t \in Stellen \ {s} : DispatchVon(t) # "vor_ort" => DispatchVon(t)' = DispatchVon(t)
  BY DispatchFaelle, DispatchFaelleDanach
<1> DEFINE nach(t) == CASE t = s -> "vor_ort"
                        [] t # s /\ DispatchVon(t) = "vor_ort" -> "abgezogen"
                        [] OTHER -> DispatchVon(t)
           vor == [e \in {0} |-> [t \in Stellen |-> DispatchVon(t)]]
<1>4. \A t \in Stellen : DispatchVon(t)' = nach(t) BY <1>1, <1>2, <1>3
<1>5. [e \in {0} |-> [t \in Stellen |-> DispatchVon(t)']]
        = [vor EXCEPT ![0] = [t \in Stellen |-> nach(t)]]
  <2> HIDE DEF nach
  <2> QED BY <1>4
<1>6. D!DispatchVorOrt(0, s) = [t \in Stellen |-> nach(t)] BY DEF D!DispatchVorOrt
<1>7. einheit.status \in {"bereitgestellt", "im_einsatz"} BY DEF EinheitZeile
<1>8. D!EinheitVorOrt(0, s) = [status |-> "im_einsatz", sektor |-> None, stelle |-> s]
  BY <1>7 DEF D!EinheitVorOrt, D!Gebunden
<1>9. [e \in {0} |-> [status |-> einheit'.status, sektor |-> None, stelle |-> einheit'.stelle]]
        = [[e \in {0} |-> [status |-> einheit.status, sektor |-> None,
                           stelle |-> einheit.stelle]]
            EXCEPT ![0] = [status |-> "im_einsatz", sektor |-> None, stelle |-> s]]
  OBVIOUS
<1> HIDE DEF nach
<1> QED BY <1>5, <1>6, <1>8, <1>9 DEF D!ResolveVorOrtConflict

LEMMA AbziehenIstSchritt ==
  ASSUME NEW s \in Stellen, Kommt(s), ~Steht(s)', ~Kommt(s)', Bekannt(s)',
         \A t \in Stellen \ {s} : /\ Steht(t)' <=> Steht(t)
                                  /\ Kommt(t)' <=> Kommt(t)
                                  /\ Bekannt(t)' <=> Bekannt(t),
         einheit'.status = einheit.status,
         einheit'.stelle = IF einheit.stelle = s THEN None ELSE einheit.stelle
  PROVE  D!Withdraw(0, s)
<1>1. DispatchVon(s) \in {"disponiert", "vor_ort"} BY DispatchFaelle
<1>2. DispatchVon(s)' = "abgezogen" BY DispatchFaelleDanach
<1>3. \A t \in Stellen \ {s} : DispatchVon(t)' = DispatchVon(t)
  BY DispatchFaelle, DispatchFaelleDanach
<1>4. D!Aktiv(0, s) BY <1>1 DEF D!Aktiv
<1>5. [e \in {0} |-> [t \in Stellen |-> DispatchVon(t)']]
        = [[e \in {0} |-> [t \in Stellen |-> DispatchVon(t)]] EXCEPT ![0][s] = "abgezogen"]
  BY <1>2, <1>3
<1>6. [e \in {0} |-> [status |-> einheit'.status, sektor |-> None, stelle |-> einheit'.stelle]]
        = [[e \in {0} |-> [status |-> einheit.status, sektor |-> None,
                           stelle |-> einheit.stelle]]
            EXCEPT ![0].stelle = IF einheit.stelle = s THEN None ELSE einheit.stelle]
  OBVIOUS
<1> QED BY <1>4, <1>5, <1>6 DEF D!Withdraw

LEMMA PoolIstSchritt ==
  ASSUME \A t \in Stellen : /\ Steht(t)' <=> Steht(t)
                            /\ Kommt(t)' <=> Kommt(t)
                            /\ Bekannt(t)' <=> Bekannt(t),
         einheit'.status = "bereitgestellt", einheit'.stelle = None,
         einheit \in EinheitZeile
  PROVE  D!MoveToPool(0)
<1>1. \A t \in Stellen : DispatchVon(t)' = DispatchVon(t)
  BY DispatchFaelle, DispatchFaelleDanach
<1>2. [e \in {0} |-> [t \in Stellen |-> DispatchVon(t)']]
        = [e \in {0} |-> [t \in Stellen |-> DispatchVon(t)]]
  BY <1>1
<1>3. einheit.status \in {"bereitgestellt", "im_einsatz"} BY DEF EinheitZeile
<1>4. D!EinheitImPool(0) = [status |-> "bereitgestellt", sektor |-> None, stelle |-> None]
  BY <1>3 DEF D!EinheitImPool
<1>5. [e \in {0} |-> [status |-> einheit'.status, sektor |-> None, stelle |-> einheit'.stelle]]
        = [[e \in {0} |-> [status |-> einheit.status, sektor |-> None,
                           stelle |-> einheit.stelle]]
            EXCEPT ![0] = [status |-> "bereitgestellt", sektor |-> None, stelle |-> None]]
  OBVIOUS
<1> QED BY <1>2, <1>4, <1>5 DEF D!MoveToPool

\* A commit that was not overtaken, from rows no race has doubled.
LEMMA UngestoertIstSchritt ==
  ASSUME ParInv, NEW w \in ParWorker, TxSchreiben(w), Aktuell(w), Einzeln
  PROVE  D!Next
<1> DEFINE a == arbeit[w]
           s == arbeit[w].stelle
           n == Len(zeilen) + 1
<1>1. /\ a \in ParTx
      /\ a.op = "pool" \/ (a.op \in AnStelle /\ s \in Stellen /\ Zulaessig(a.op, s))
      /\ a.einheit = einheit /\ a.abzug = Abzuziehen(a.op, s)
      /\ a.zeile \in IF AktiveZeilen(s) = {} THEN {0} ELSE AktiveZeilen(s)
      /\ zeilen \in Seq(Zeile) /\ einheit \in EinheitZeile
      /\ zeilen' = Aktualisiert(a) \o Eingefuegt(a) /\ einheit' = TxGeschrieben(a)
  BY AktuellForm
<1>2. a.stelle = s OBVIOUS
<1> HIDE DEF a, s
<1>3. ZeilenWerden(a, n) BY <1>1, <1>2, MengenNach DEF AnStelle
<1> HIDE DEF n
<1>4. einheit'.status = Gewollt(a).status /\ einheit'.stelle = Gewollt(a).stelle
  BY <1>1, EinheitBild
<1>5. ASSUME a.op = "disponieren" PROVE D!Next
  <2>1. s \in Stellen /\ AktiveZeilen(s) = {} BY <1>1, <1>5 DEF Zulaessig
  <2>2. a.zeile = 0 /\ a.abzug = {} BY <1>1, <1>5, <2>1 DEF Abzuziehen
  <2>3. einheit'.status = "im_einsatz" /\ einheit'.stelle = einheit.stelle
    BY <1>1, <1>4, <1>5 DEF Gewollt, MeldetVorOrt
  <2>4. D!DispatchToSite(0, s)
    BY <1>1, <1>2, <1>3, <1>5, <2>1, <2>2, <2>3, CommitDisponieren, DisponierenIstSchritt
  <2> QED BY <2>1, <2>4 DEF D!Next, D!DispatchSchritt
<1>6. ASSUME a.op \in {"vor_ort", "verlegen"} PROVE D!Next
  <2>1. s \in Stellen /\ MeldetVorOrt(a) BY <1>1, <1>6 DEF MeldetVorOrt
  <2>2. a.abzug = Konflikte(s) BY <1>1, <1>6 DEF Abzuziehen, Zulaessig
  <2>3. einheit'.status = "im_einsatz" /\ einheit'.stelle = s
    BY <1>2, <1>4, <1>6, <2>1 DEF Gewollt
  <2>4. D!ResolveVorOrtConflict(0, s)
    BY <1>1, <1>2, <1>3, <2>1, <2>2, <2>3, CommitVorOrt, VerlegenIstSchritt
  <2> QED BY <2>1, <2>4 DEF D!Next, D!DispatchSchritt
<1>7. ASSUME a.op = "abziehen" PROVE D!Next
  <2>1. s \in Stellen /\ AktiveZeilen(s) # {} BY <1>1, <1>7 DEF Zulaessig
  <2>2. a.zeile \in AktiveZeilen(s) /\ a.abzug = {} BY <1>1, <1>7, <2>1 DEF Abzuziehen
  <2>3. /\ einheit'.status = einheit.status
        /\ einheit'.stelle = IF einheit.stelle = s THEN None ELSE einheit.stelle
    BY <1>1, <1>2, <1>4, <1>7 DEF Gewollt, MeldetVorOrt
  <2>4. D!Withdraw(0, s)
    BY <1>1, <1>2, <1>3, <1>7, <2>1, <2>2, <2>3, CommitAbziehen, AbziehenIstSchritt
  <2> QED BY <2>1, <2>4 DEF D!Next, D!DispatchSchritt
<1>8. ASSUME a.op = "pool" PROVE D!Next
  <2>1. a.abzug = {} BY <1>1, <1>8 DEF Abzuziehen
  <2>2. einheit'.status = "bereitgestellt" /\ einheit'.stelle = None
    BY <1>4, <1>8 DEF Gewollt, MeldetVorOrt
  <2>3. D!MoveToPool(0)
    BY <1>1, <1>3, <1>8, <2>1, <2>2, CommitPool, PoolIstSchritt
  <2> QED BY <2>3 DEF D!Next, D!EinheitSchritt
<1> QED BY <1>1, <1>5, <1>6, <1>7, <1>8 DEF AnStelle

\* A confirmed relocation that was not overtaken, whatever rows there were.
LEMMA VerlegungLemma ==
  ASSUME ParInv, NEW w \in ParWorker, TxSchreiben(w), arbeit[w].op = "verlegen", Aktuell(w)
  PROVE  \A i \in VorOrtZeilen' : zeilen'[i].stelle = arbeit[w].stelle
<1> DEFINE a == arbeit[w]
           s == arbeit[w].stelle
           n == Len(zeilen) + 1
<1>1. /\ a \in ParTx /\ a.op = "verlegen" /\ s \in Stellen
      /\ a.abzug = Abzuziehen(a.op, s)
      /\ a.zeile \in IF AktiveZeilen(s) = {} THEN {0} ELSE AktiveZeilen(s)
      /\ zeilen \in Seq(Zeile) /\ zeilen' = Aktualisiert(a) \o Eingefuegt(a)
  BY AktuellForm
<1>2. a.stelle = s OBVIOUS
<1> HIDE DEF a, s
<1>3. ZeilenWerden(a, n) BY <1>1, <1>2, MengenNach
<1>4. a.abzug = Konflikte(s) BY <1>1 DEF Abzuziehen
<1> HIDE DEF n
<1>5. SUFFICES ASSUME NEW i \in VorOrtZeilen' PROVE zeilen'[i].stelle = s
  BY DEF s
<1>6. \A j : j \in Konflikte(s) <=> j \in VorOrtZeilen /\ zeilen[j].stelle # s
  BY DEF Konflikte
<1>7. a.zeile \in DOMAIN zeilen => zeilen[a.zeile].stelle = s
  BY <1>1, <1>3, AktiveSindOffen DEF ZeilenWerden
<1>8. CASE i \in DOMAIN zeilen
  BY <1>3, <1>4, <1>5, <1>6, <1>7, <1>8 DEF ZeilenWerden
<1>9. CASE i \notin DOMAIN zeilen
  BY <1>2, <1>3, <1>5, <1>9, AktiveSindOffen DEF ZeilenWerden
<1> QED BY <1>8, <1>9

\* Whatever the workers do to the dispatches of a unit: the rows fit the bound, a
\* confirmed relocation nobody overtook leaves the unit on site in one place, and a
\* commit nobody overtook is one step of Disposition, unless a race before it left
\* two active rows for a site. For any number of workers, sites and rows.
THEOREM ParHaelt == ParSpec => ParVersprechen
<1>1. ParSpec => []ParInv BY ParInvImmer
<1>2. ParInv => ParTypeOK BY DEF ParInv
<1> DEFINE Verlegt == \A w \in ParWorker :
             TxSchreiben(w) /\ arbeit[w].op = "verlegen" /\ Aktuell(w) =>
               \A i \in VorOrtZeilen' : zeilen'[i].stelle = arbeit[w].stelle
           Ungestoert == \A w \in ParWorker :
             TxSchreiben(w) /\ Aktuell(w) /\ EineAktiveZeile => D!Next
<1>3. ParInv /\ [ParNext]_parVars => [Verlegt]_parVars
  BY VerlegungLemma
<1>4. ParInv /\ [ParNext]_parVars => [Ungestoert]_parVars
  BY EinzelnFolgt, UngestoertIstSchritt
<1>5. VerlegungBereinigt <=> [][Verlegt]_parVars BY DEF VerlegungBereinigt
<1>6. UngestoerteSchritte <=> [][Ungestoert]_parVars BY DEF UngestoerteSchritte
<1> HIDE DEF Verlegt, Ungestoert
<1>7. ParSpec => [][Verlegt]_parVars BY <1>1, <1>3, PTL DEF ParSpec
<1>8. ParSpec => [][Ungestoert]_parVars BY <1>1, <1>4, PTL DEF ParSpec
<1>9. ParSpec => []ParTypeOK BY <1>1, <1>2, PTL
<1> QED BY <1>5, <1>6, <1>7, <1>8, <1>9 DEF ParVersprechen

-----------------------------------------------------------------------------
(* Nothing overtaken *)

\* A commit that is not overtaken doubles no row.
LEMMA UngestoertBleibtEinzeln ==
  ASSUME ParInv, NEW w \in ParWorker, TxSchreiben(w), Aktuell(w), Einzeln
  PROVE  Einzeln'
<1> DEFINE a == arbeit[w]
           s == arbeit[w].stelle
           n == Len(zeilen) + 1
<1>2. /\ a \in ParTx
      /\ a.op = "pool" \/ (a.op \in AnStelle /\ s \in Stellen)
      /\ a.zeile \in IF AktiveZeilen(s) = {} THEN {0} ELSE AktiveZeilen(s)
      /\ zeilen \in Seq(Zeile) /\ zeilen' = Aktualisiert(a) \o Eingefuegt(a)
  BY AktuellForm
<1>3. a.stelle = s OBVIOUS
<1> HIDE DEF a, s
<1>4. ZeilenWerden(a, n) BY <1>2, <1>3, MengenNach DEF AnStelle
<1> HIDE DEF n
<1>5. NeueZeile(a) => AktiveZeilen(s) = {}
  BY <1>2, <1>4, AktiveSindOffen DEF NeueZeile, ZeilenWerden
<1>6. ASSUME NEW t \in Stellen, NEW i \in AktiveZeilen(t)', NEW j \in AktiveZeilen(t)'
      PROVE  i = j
  <2>1. CASE NeueZeile(a) /\ t = s
    BY <1>3, <1>4, <1>5, <1>6, <2>1, AktiveSindOffen DEF ZeilenWerden
  <2>2. CASE ~(NeueZeile(a) /\ t = s)
    <3>1. i \in AktiveZeilen(t) /\ j \in AktiveZeilen(t)
      BY <1>3, <1>4, <1>6, <2>2, AktiveSindOffen DEF ZeilenWerden
    <3> QED BY <3>1 DEF Einzeln
  <2> QED BY <2>1, <2>2
<1> QED BY <1>6 DEF Einzeln

\* However many requests are open at once: as long as no commit is overtaken, the
\* transactions implement Disposition. Every commit is one of its steps, every read
\* changes nothing of it.
THEOREM UngestoertFuehrtDispositionAus == ParSpec /\ NieUeberholt => D!Spec
<1> DEFINE Einzelinv == ParInv /\ Einzeln
           Ungestoert == \A w \in ParWorker : TxSchreiben(w) => Aktuell(w)
<1>1. ParInit => Einzelinv /\ D!Init
  <2> SUFFICES ASSUME ParInit PROVE Einzelinv /\ D!Init OBVIOUS
  <2>1. DOMAIN zeilen = {} BY DEF ParInit
  <2>2. Einzeln BY <2>1 DEF Einzeln, AktiveZeilen
  <2>3. \A t : ~Steht(t) /\ ~Kommt(t) /\ ~Bekannt(t)
    BY <2>1 DEF Steht, Kommt, Bekannt, AktiveZeilen, VorOrtZeilen
  <2>4. \A t \in Stellen : DispatchVon(t) = "keine" BY <2>3, DispatchFaelle
  <2>5. D!Init BY <2>4 DEF ParInit, D!Init, D!NeueEinheit, D!OhneDispatch
  <2> QED BY <2>2, <2>5, ParInit0
<1>2. Einzelinv /\ [ParNext]_parVars /\ [Ungestoert]_parVars
        => Einzelinv' /\ [D!Next]_(D!dispVars)
  <2> SUFFICES ASSUME Einzelinv, [ParNext]_parVars, [Ungestoert]_parVars
               PROVE  Einzelinv' /\ [D!Next]_(D!dispVars)
    OBVIOUS
  <2>1. ParInv' BY ParSchritt
  <2>2. ASSUME NEW w \in ParWorker, TxSchreiben(w) PROVE Einzeln' /\ D!Next
    <3>1. arbeit[w] # None BY <2>2 DEF TxSchreiben
    <3>2. arbeit' # arbeit
      BY <2>2, <3>1 DEF TxSchreiben, ParInv, ParForm
    <3>3. Aktuell(w) BY <2>2, <3>2 DEF parVars
    <3> QED BY <2>2, <3>3, UngestoertBleibtEinzeln, UngestoertIstSchritt
  <2>3. ASSUME zeilen' = zeilen, einheit' = einheit
        PROVE  Einzeln' /\ UNCHANGED D!dispVars
    <3>1. Einzeln' BY <2>3 DEF Einzeln, AktiveZeilen
    <3>2. UNCHANGED D!dispVars
      BY <2>3 DEF D!dispVars, D!siteVars, DispatchVon, AktiveZeilen, VorOrtZeilen
    <3> QED BY <3>1, <3>2
  <2>4. \/ \E w \in ParWorker : TxSchreiben(w)
        \/ zeilen' = zeilen /\ einheit' = einheit
    BY DEF ParNext, TxLesen, TxLesenPool, parVars
  <2>5. Einzeln' /\ [D!Next]_(D!dispVars)
    <3>1. CASE \E w \in ParWorker : TxSchreiben(w) BY <2>2, <3>1
    <3>2. CASE zeilen' = zeilen /\ einheit' = einheit BY <2>3, <3>2
    <3> QED BY <2>4, <3>1, <3>2
  <2> HIDE DEF Ungestoert
  <2> QED BY <2>1, <2>5
<1>3. NieUeberholt <=> [][Ungestoert]_parVars BY DEF NieUeberholt
<1> HIDE DEF Einzelinv, Ungestoert
<1>4. ParSpec /\ [][Ungestoert]_parVars => D!Spec
  BY <1>1, <1>2, PTL DEF ParSpec, D!Spec
<1> QED BY <1>3, <1>4

-----------------------------------------------------------------------------
(* Invitations of other organisations *)

EinlAnfragen ==
  [org : Orgs, antwort : EinlAntworten, gelesen : EinlAntworten \cup {"pending"},
   dabei : BOOLEAN]

\* What an open request has read: an acceptance read an open invitation of an
\* organisation that did not take part.
AnfragenPassen ==
  /\ einlTx \in [Workers -> EinlAnfragen \cup {None}]
  /\ \A w \in Workers : einlTx[w] # None =>
       /\ einlTx[w] \in EinlAnfragen
       /\ w \in einlWorker /\ erfasst
       /\ einladung[einlTx[w].org] # None
       /\ einlTx[w].antwort = "revoked" => einlTx[w].gelesen # "revoked"
       /\ einlTx[w].antwort # "revoked" => einlTx[w].gelesen = "pending"
       /\ einlTx[w].antwort = "accepted" => ~einlTx[w].dabei

\* Nobody takes part before an answer, and nobody is asked before the incident exists.
OhneAntwortDraussen ==
  /\ \A o \in Orgs : einladung[o] \in {None, "pending"} => o \notin beteiligt
  /\ \A o \in Orgs : einladung[o] # None => erfasst
  /\ ~erfasst => beteiligt = {}

\* With one worker a request is the only one, and what it has read still holds.
EinzigeAnfrageAktuell ==
  EinEinladungWorker =>
    /\ \A w \in Workers : einlTx[w] # None =>
         einladung[einlTx[w].org] = einlTx[w].gelesen
    /\ \A v, w \in Workers : einlTx[v] # None /\ einlTx[w] # None => v = w

EinlIInv ==
  /\ EinlTypeOK /\ AnfragenPassen /\ OhneAntwortDraussen
  /\ AngenommenHatZugang /\ EinzigeAnfrageAktuell /\ ZugangNurMitZusage

LEMMA EinlAmAnfang == EinlInit => EinlIInv
BY EinlAssumption DEF EinlInit, EinlIInv, EinlTypeOK, AnfragenPassen, OhneAntwortDraussen,
   AngenommenHatZugang, EinzigeAnfrageAktuell, ZugangNurMitZusage, Sieht, EinlAntworten

\* An alarm or a user makes invitations out of nothing only; no request is about those.
LEMMA NeueEinladungenHalten ==
  ASSUME EinlIInv, NEW e \in [Orgs -> EinlAntworten \cup {"pending", None}],
         \A o \in Orgs : e[o] = einladung[o] \/ (einladung[o] = None /\ e[o] = "pending"),
         einladung' = e, erfasst' = TRUE,
         UNCHANGED <<einlWorker, partner, beteiligt, einlTx>>
  PROVE  EinlIInv'
<1> USE EinlAssumption DEF EinlIInv
<1>0. \A w \in Workers : einlTx[w] # None =>
        einlTx[w].org \in Orgs /\ e[einlTx[w].org] = einladung[einlTx[w].org]
  BY DEF AnfragenPassen, EinlAnfragen
<1>1. EinlTypeOK'
  BY DEF EinlTypeOK
<1>2. AnfragenPassen'
  BY <1>0 DEF AnfragenPassen
<1>3. OhneAntwortDraussen'
  BY DEF OhneAntwortDraussen
<1>4. AngenommenHatZugang'
  BY DEF AngenommenHatZugang, Sieht
<1>5. EinzigeAnfrageAktuell'
  BY <1>0 DEF EinzigeAnfrageAktuell, EinEinladungWorker
<1>6. ZugangNurMitZusage'
  BY DEF ZugangNurMitZusage, EinEinladungWorker, Sieht, OhneAntwortDraussen
<1> QED
  BY <1>1, <1>2, <1>3, <1>4, <1>5, <1>6

LEMMA ErfassenHaelt ==
  ASSUME EinlIInv, NEW n \in BOOLEAN, EinsatzErfassen(n)
  PROVE  EinlIInv'
<1>1. CASE n
  BY <1>1, NeueEinladungenHalten
     DEF EinsatzErfassen, MitPartnern, EinlIInv, EinlTypeOK
<1>2. CASE ~n
  BY <1>2, NeueEinladungenHalten DEF EinsatzErfassen, EinlIInv, EinlTypeOK
<1> QED
  BY <1>1, <1>2

LEMMA EinladenHaelt ==
  ASSUME EinlIInv, NEW w \in Workers, NEW o \in Orgs, Einladen(w, o)
  PROVE  EinlIInv'
<1>1. /\ einladung' \in [Orgs -> EinlAntworten \cup {"pending", None}]
      /\ \A p \in Orgs :
           einladung'[p] = einladung[p] \/ (einladung[p] = None /\ einladung'[p] = "pending")
      /\ erfasst' = TRUE
      /\ UNCHANGED <<einlWorker, partner, beteiligt, einlTx>>
  BY DEF Einladen, EinlIInv, EinlTypeOK
<1> QED
  BY <1>1, NeueEinladungenHalten

LEMMA LesenHaelt ==
  ASSUME EinlIInv, NEW w \in Workers, NEW o \in Orgs, NEW a \in EinlAntworten,
         AntwortLesen(w, o, a)
  PROVE  EinlIInv'
<1> DEFINE t == [org |-> o, antwort |-> a, gelesen |-> einladung[o], dabei |-> o \in beteiligt]
<1> USE EinlAssumption DEF EinlIInv
<1>1. /\ einlTx' = [einlTx EXCEPT ![w] = t] /\ w \in einlWorker /\ einlTx[w] = None
      /\ UNCHANGED <<einlWorker, erfasst, partner, einladung, beteiligt>>
  BY DEF AntwortLesen, EinlFrei
<1>2. /\ a = "revoked" => einladung[o] \in {"pending", "accepted", "declined"}
      /\ a # "revoked" => einladung[o] = "pending"
  BY DEF AntwortLesen, Beantwortbar
<1>3. /\ einladung[o] # None
      /\ einladung[o] \in EinlAntworten \cup {"pending"}
      /\ t \in EinlAnfragen
  BY <1>2 DEF EinlTypeOK, EinlAnfragen, EinlAntworten
<1>4. EinlTypeOK'
  BY <1>1, <1>3 DEF EinlTypeOK, EinlAnfragen, AnfragenPassen
<1>5. AnfragenPassen'
  BY <1>1, <1>2, <1>3 DEF AnfragenPassen, OhneAntwortDraussen, EinlTypeOK
<1>6. OhneAntwortDraussen' /\ AngenommenHatZugang' /\ ZugangNurMitZusage'
  BY <1>1 DEF OhneAntwortDraussen, AngenommenHatZugang, ZugangNurMitZusage,
              EinEinladungWorker, Sieht
<1>7. EinzigeAnfrageAktuell'
  BY <1>1 DEF EinzigeAnfrageAktuell, EinEinladungWorker, AnfragenPassen
<1> QED
  BY <1>4, <1>5, <1>6, <1>7

\* A request that is gone leaves the others as they were.
LEMMA AbbruchHaelt ==
  ASSUME EinlIInv, NEW w \in Workers, EinlAbbruch(w)
  PROVE  EinlIInv'
BY DEF EinlIInv, EinlAbbruch, EinlTypeOK, AnfragenPassen, OhneAntwortDraussen,
       AngenommenHatZugang, EinzigeAnfrageAktuell, ZugangNurMitZusage,
       EinEinladungWorker, Sieht

\* The commit of an answer. Of the open requests it leaves, none is for an organisation
\* that is asked anew; with one worker none is left.
LEMMA SchreibenHaelt ==
  ASSUME EinlIInv, NEW w \in Workers, AntwortSchreiben(w)
  PROVE  EinlIInv'
<1> DEFINE t == einlTx[w]
<1> USE EinlAssumption DEF EinlIInv
<1>1. /\ t \in EinlAnfragen /\ t.org \in Orgs /\ erfasst
      /\ t.antwort \in {"accepted", "declined", "revoked"}
      /\ einladung[t.org] # None /\ w \in einlWorker
      /\ t.antwort = "revoked" => t.gelesen # "revoked"
      /\ t.antwort # "revoked" => t.gelesen = "pending"
      /\ t.antwort = "accepted" => ~t.dabei
  BY DEF AnfragenPassen, AntwortSchreiben, EinlAnfragen, EinlAntworten
<1>2. /\ einladung \in [Orgs -> EinlAntworten \cup {"pending", None}]
      /\ einladung' = [einladung EXCEPT ![t.org] = t.antwort]
      /\ einlTx' = [einlTx EXCEPT ![w] = None]
      /\ einlTx \in [Workers -> EinlAnfragen \cup {None}]
      /\ UNCHANGED <<einlWorker, erfasst, partner>>
      /\ einlTx[w] # None
  BY DEF AntwortSchreiben, StatusNach, EinlTypeOK, AnfragenPassen
<1>3. /\ beteiligt' \subseteq beteiligt \cup {t.org}
      /\ beteiligt \subseteq beteiligt' \cup {t.org}
      /\ t.antwort = "accepted" => t.org \in beteiligt'
      /\ t.antwort # "accepted" /\ t.org \notin beteiligt => t.org \notin beteiligt'
      /\ t.antwort = "revoked" /\ t.gelesen = "accepted" => t.org \notin beteiligt'
  BY <1>1 DEF AntwortSchreiben, BeteiligtNach
<1>4. EinlTypeOK'
  BY <1>1, <1>2, <1>3 DEF EinlTypeOK, EinlAntworten
<1>5. AnfragenPassen'
  <2>1. ASSUME NEW v \in Workers, einlTx'[v] # None
        PROVE  einlTx'[v] = einlTx[v] /\ einlTx[v].org \in Orgs /\ v # w
    BY <1>2, <2>1 DEF EinlAnfragen
  <2>2. \A o \in Orgs : einladung[o] # None => einladung'[o] # None
    BY <1>1, <1>2
  <2> QED
    BY <1>1, <1>2, <2>1, <2>2 DEF AnfragenPassen
<1>6. OhneAntwortDraussen'
  BY <1>1, <1>2, <1>3 DEF OhneAntwortDraussen
<1>7. AngenommenHatZugang'
  BY <1>1, <1>2, <1>3 DEF AngenommenHatZugang, Sieht
<1>8. EinzigeAnfrageAktuell' /\ ZugangNurMitZusage'
  <2>1. SUFFICES ASSUME EinEinladungWorker'
        PROVE  /\ \A v \in Workers : einlTx'[v] = None
               /\ \A o \in Orgs : Sieht(o)' => einladung'[o] = "accepted"
    BY DEF EinzigeAnfrageAktuell, ZugangNurMitZusage
  <2>2. EinEinladungWorker
    BY <1>2, <2>1 DEF EinEinladungWorker
  <2>3. \A v \in Workers : einlTx[v] # None => v = w
    BY <1>2, <2>2 DEF EinzigeAnfrageAktuell
  <2>4. einladung[t.org] = t.gelesen
    BY <1>2, <2>2 DEF EinzigeAnfrageAktuell
  <2>5. ASSUME NEW o \in Orgs, o \in beteiligt'
        PROVE  einladung'[o] = "accepted"
    <3>1. CASE o # t.org
      BY <1>1, <1>2, <1>3, <2>2, <2>5, <3>1 DEF ZugangNurMitZusage, Sieht
    <3>2. CASE o = t.org /\ t.antwort # "accepted"
      <4>1. t.org \in beteiligt
        BY <1>3, <2>5, <3>2
      <4>2. t.gelesen = "accepted"
        BY <1>1, <2>2, <2>4, <4>1 DEF ZugangNurMitZusage, Sieht
      <4> QED
        BY <1>1, <1>3, <2>5, <3>2, <4>2
    <3>3. CASE o = t.org /\ t.antwort = "accepted"
      BY <1>1, <1>2, <3>3
    <3> QED
      BY <3>1, <3>2, <3>3
  <2> QED
    BY <1>2, <2>3, <2>5 DEF Sieht
<1> QED
  BY <1>4, <1>5, <1>6, <1>7, <1>8

LEMMA EinlSchritt == EinlIInv /\ [EinlNext]_einlVars => EinlIInv'
<1> SUFFICES ASSUME EinlIInv, [EinlNext]_einlVars
             PROVE  EinlIInv'
  OBVIOUS
<1> USE DEF EinlIInv, EinlTypeOK, AnfragenPassen, OhneAntwortDraussen, AngenommenHatZugang,
            EinzigeAnfrageAktuell, ZugangNurMitZusage, EinEinladungWorker, Sieht
<1>1. CASE UNCHANGED einlVars
  BY <1>1 DEF einlVars
<1>2. ASSUME NEW P \in SUBSET Orgs, PartnerAendern(P)
      PROVE  EinlIInv'
  BY <1>2 DEF PartnerAendern
<1> QED
  BY <1>1, <1>2, ErfassenHaelt, EinladenHaelt, LesenHaelt, SchreibenHaelt, AbbruchHaelt
     DEF EinlNext

\* With one worker only a withdrawal changes an answer, and nothing a withdrawal.
LEMMA AntwortSteht ==
  EinlIInv /\ [EinlNext]_einlVars =>
    (EinEinladungWorker => \A o \in Orgs :
       /\ einladung[o] = "revoked" => einladung'[o] = "revoked"
       /\ einladung[o] \in {"accepted", "declined"} =>
            einladung'[o] \in {einladung[o], "revoked"})
<1> SUFFICES ASSUME EinlIInv, [EinlNext]_einlVars, EinEinladungWorker, NEW o \in Orgs,
                    einladung[o] \in EinlAntworten
             PROVE  /\ einladung[o] = "revoked" => einladung'[o] = "revoked"
                    /\ einladung'[o] \in {einladung[o], "revoked"}
  BY DEF EinlAntworten
<1> USE EinlAssumption DEF EinlIInv
<1>1. CASE UNCHANGED einladung
  BY <1>1
<1>2. ASSUME NEW n \in BOOLEAN, EinsatzErfassen(n)
      PROVE  einladung'[o] = einladung[o]
  BY <1>2 DEF EinsatzErfassen, MitPartnern, EinlAntworten
<1>3. ASSUME NEW w \in Workers, NEW p \in Orgs, Einladen(w, p)
      PROVE  einladung'[o] = einladung[o]
  BY <1>3 DEF Einladen, EinlTypeOK, EinlAntworten
<1>4. ASSUME NEW w \in Workers, AntwortSchreiben(w)
      PROVE  /\ einladung[o] = "revoked" => einladung'[o] = "revoked"
             /\ einladung'[o] \in {einladung[o], "revoked"}
  <2>1. /\ einladung' = [einladung EXCEPT ![einlTx[w].org] = einlTx[w].antwort]
        /\ einladung \in [Orgs -> EinlAntworten \cup {"pending", None}]
        /\ einladung[einlTx[w].org] = einlTx[w].gelesen
    BY <1>4 DEF AntwortSchreiben, StatusNach, EinlTypeOK, EinzigeAnfrageAktuell
  <2>2. /\ einlTx[w].antwort = "revoked" => einlTx[w].gelesen # "revoked"
        /\ einlTx[w].antwort # "revoked" => einlTx[w].gelesen = "pending"
    BY <1>4 DEF AnfragenPassen, AntwortSchreiben
  <2> QED
    BY <2>1, <2>2 DEF EinlAntworten
<1> QED
  BY <1>1, <1>2, <1>3, <1>4
     DEF EinlNext, einlVars, PartnerAendern, AntwortLesen, EinlAbbruch

\* accept_invitation, decline_invitation, revoke_invitation: who accepted takes part,
\* whatever several workers do at once; with one worker nobody else does, and an answer
\* is only ever changed by a withdrawal, which is final.
THEOREM EinladungHaelt == EinlSpec => EinladungVersprechen
<1>1. EinlSpec => []EinlIInv
  BY EinlAmAnfang, EinlSchritt, PTL DEF EinlSpec
<1>2. EinlIInv => EinlTypeOK /\ AngenommenHatZugang /\ ZugangNurMitZusage
  BY DEF EinlIInv
<1>3. EinlSpec => WiderrufIstEndgueltig
  <2>1. EinlIInv /\ [EinlNext]_einlVars =>
          [EinEinladungWorker => \A o \in Orgs :
             /\ einladung[o] = "revoked" => einladung'[o] = "revoked"
             /\ einladung[o] \in {"accepted", "declined"} =>
                  einladung'[o] \in {einladung[o], "revoked"}]_einlVars
    BY AntwortSteht
  <2> QED
    BY <1>1, <2>1, PTL DEF EinlSpec, WiderrufIstEndgueltig
<1> QED
  BY <1>1, <1>2, <1>3, PTL DEF EinladungVersprechen

-----------------------------------------------------------------------------
(* Who took part *)

TeilnahmeZeilen ==
  [typ : Typen, mitglied : Mitglieder, ausgerueckt : BOOLEAN, entschuldigt : BOOLEAN,
   funktion : {None, "bestehende"}]

TerminTypen ==
  /\ teUmfang \in TerminUmfaenge
  /\ termin \in Typen \cup {"weg"}
  /\ terminSeite \in Typen \cup {None}
  /\ teilnahmen \subseteq TeilnahmeZeilen
  /\ teTx \in [Workers -> [neu : SUBSET TeilnahmeZeilen] \cup {None}]
  /\ typwechsel \in BOOLEAN

\* What a request is going to write: one kind, each member once.
AnfrageEindeutig ==
  \A w \in Workers : teTx[w] # None =>
    /\ teTx[w] \in [neu : SUBSET TeilnahmeZeilen]
    /\ \A m, n \in teTx[w].neu : m.typ = n.typ /\ (m.mitglied = n.mitglied => m = n)

\* Without a change of the kind, pages and requests are about the list of the appointment.
OhneWechselEineListe ==
  (termin # "weg" /\ ~typwechsel) =>
    /\ terminSeite \in {None, termin}
    /\ \A w \in Workers : teTx[w] # None => \A n \in teTx[w].neu : n.typ = termin

TerminIInv ==
  /\ TerminTypen /\ AnfrageEindeutig /\ OhneWechselEineListe
  /\ EinmalAufDerListe /\ VersteckteNurNachWechsel

LEMMA TerminAmAnfang == TerminInit => TerminIInv
BY DEF TerminInit, TerminIInv, TerminTypen, AnfrageEindeutig, OhneWechselEineListe,
       EinmalAufDerListe, VersteckteNurNachWechsel, Liste, Typen

LEMMA TerminSeiteHaelt ==
  ASSUME TerminIInv, TerminDetail \/ \E typ \in Typen : TerminSpeichern(typ)
  PROVE  TerminIInv'
<1> USE DEF TerminIInv, TerminTypen, AnfrageEindeutig, OhneWechselEineListe,
            EinmalAufDerListe, VersteckteNurNachWechsel, Liste, Typen
<1>1. CASE TerminDetail
  BY <1>1 DEF TerminDetail
<1>2. ASSUME NEW typ \in Typen, TerminSpeichern(typ)
      PROVE  TerminIInv'
  BY <1>2 DEF TerminSpeichern
<1> QED
  BY <1>1, <1>2

LEMMA TerminEntfernenHaelt ==
  ASSUME TerminIInv, TerminEntfernen
  PROVE  TerminIInv'
BY DEF TerminIInv, TerminTypen, AnfrageEindeutig, OhneWechselEineListe, EinmalAufDerListe,
       VersteckteNurNachWechsel, Liste, Typen, TerminEntfernen, RestNachLoeschen

LEMMA HinzufuegenLesenHaelt ==
  ASSUME TerminIInv, NEW w \in Workers, NEW M \in SUBSET Mitglieder,
         NEW s \in {"teilgenommen", "entschuldigt", ""}, HinzufuegenLesen(w, M, s)
  PROVE  TerminIInv'
<1> DEFINE neu == {Eintrag(terminSeite, m, s) : m \in M \ Eingetragene(terminSeite)}
<1> USE DEF TerminIInv
<1>1. /\ teTx' = [teTx EXCEPT ![w] = [neu |-> neu]]
      /\ UNCHANGED <<teilnahmen, teUmfang, termin, terminSeite, angebot, typwechsel>>
      /\ terminSeite \in Typen
  BY DEF HinzufuegenLesen, terminZeilen, TerminTypen
<1>2. /\ neu \subseteq TeilnahmeZeilen
      /\ \A m \in neu : m.typ = terminSeite
      /\ \A m, n \in neu : m.mitglied = n.mitglied => m = n
  <2>1. ASSUME NEW m \in Mitglieder
        PROVE  /\ Eintrag(terminSeite, m, s) \in TeilnahmeZeilen
               /\ Eintrag(terminSeite, m, s).typ = terminSeite
               /\ Eintrag(terminSeite, m, s).mitglied = m
    <3> DEFINE a == (s = "teilgenommen")
               e == (s = "entschuldigt")
    <3>1. a \in BOOLEAN /\ e \in BOOLEAN
      OBVIOUS
    <3> HIDE DEF a, e
    <3>2. [typ |-> terminSeite, mitglied |-> m, ausgerueckt |-> a, entschuldigt |-> e,
           funktion |-> None] \in TeilnahmeZeilen
      BY <1>1, <3>1 DEF TeilnahmeZeilen
    <3> QED
      BY <3>2 DEF Eintrag, a, e
  <2>2. \A n \in neu : \E m \in Mitglieder : n = Eintrag(terminSeite, m, s)
    OBVIOUS
  <2> HIDE DEF neu
  <2>3. \A n \in neu : n \in TeilnahmeZeilen /\ n.typ = terminSeite /\ n = Eintrag(terminSeite, n.mitglied, s)
    BY <2>1, <2>2
  <2> QED
    BY <2>3
<1>3. TerminTypen'
  BY <1>1, <1>2 DEF TerminTypen
<1>4. AnfrageEindeutig'
  <2>1. /\ teTx'[w] = [neu |-> neu]
        /\ \A v \in Workers : v # w => teTx'[v] = teTx[v]
    BY <1>1 DEF TerminTypen
  <2> HIDE DEF neu
  <2>2. [neu |-> neu] \in [neu : SUBSET TeilnahmeZeilen] /\ [neu |-> neu].neu = neu
    BY <1>2
  <2>3. ASSUME NEW v \in Workers, teTx'[v] # None
        PROVE  /\ teTx'[v] \in [neu : SUBSET TeilnahmeZeilen]
               /\ \A m, n \in teTx'[v].neu : m.typ = n.typ /\ (m.mitglied = n.mitglied => m = n)
    <3>1. CASE v = w
      BY <1>2, <2>1, <2>2, <3>1
    <3>2. CASE v # w
      <4>1. teTx'[v] = teTx[v] /\ teTx[v] # None
        BY <2>1, <2>3, <3>2
      <4>2. /\ teTx[v] \in [neu : SUBSET TeilnahmeZeilen]
            /\ \A m, n \in teTx[v].neu : m.typ = n.typ /\ (m.mitglied = n.mitglied => m = n)
        BY <4>1 DEF AnfrageEindeutig
      <4> QED
        BY <4>1, <4>2
    <3> QED
      BY <3>1, <3>2
  <2> QED
    BY <2>3 DEF AnfrageEindeutig
<1>5. OhneWechselEineListe'
  <2>1. SUFFICES ASSUME termin # "weg", ~typwechsel, NEW v \in Workers, teTx'[v] # None,
                        NEW n \in teTx'[v].neu
                 PROVE  n.typ = termin
    BY <1>1 DEF OhneWechselEineListe
  <2>2. terminSeite = termin
    BY <1>1, <2>1 DEF OhneWechselEineListe, HinzufuegenLesen
  <2>3. CASE v = w
    BY <1>1, <1>2, <2>1, <2>2, <2>3 DEF TerminTypen
  <2>4. CASE v # w
    BY <1>1, <2>1, <2>4 DEF OhneWechselEineListe, TerminTypen
  <2> QED
    BY <2>3, <2>4
<1>6. EinmalAufDerListe' /\ VersteckteNurNachWechsel'
  BY <1>1 DEF EinmalAufDerListe, VersteckteNurNachWechsel, Liste
<1> QED
  BY <1>3, <1>4, <1>5, <1>6

\* The unique key refuses a request that meets an entry made meanwhile.
LEMMA HinzufuegenSchreibenHaelt ==
  ASSUME TerminIInv, NEW w \in Workers, HinzufuegenSchreiben(w)
  PROVE  TerminIInv'
<1> DEFINE N == Aufgenommen(teTx[w].neu)
<1> USE DEF TerminIInv
<1>1. /\ teilnahmen' = teilnahmen \cup N
      /\ teTx' = [teTx EXCEPT ![w] = None] /\ teTx[w] # None
      /\ UNCHANGED <<teUmfang, termin, terminSeite, typwechsel>>
  BY DEF HinzufuegenSchreiben, terminZeilen
<1>2. /\ N \subseteq teTx[w].neu /\ teTx[w].neu \subseteq TeilnahmeZeilen
      /\ \A n \in N, t \in teilnahmen : ~(n.typ = t.typ /\ n.mitglied = t.mitglied)
      /\ \A m, n \in N : m.mitglied = n.mitglied => m = n
  BY <1>1 DEF Aufgenommen, Verletzt, AnfrageEindeutig
<1>3. TerminTypen'
  BY <1>1, <1>2 DEF TerminTypen
<1>4. AnfrageEindeutig'
  BY <1>1 DEF AnfrageEindeutig, TerminTypen
<1>5. OhneWechselEineListe'
  BY <1>1 DEF OhneWechselEineListe, TerminTypen
<1>6. EinmalAufDerListe'
  BY <1>1, <1>2 DEF EinmalAufDerListe
<1>7. VersteckteNurNachWechsel'
  BY <1>1, <1>2 DEF VersteckteNurNachWechsel, OhneWechselEineListe, Liste
<1> QED
  BY <1>3, <1>4, <1>5, <1>6, <1>7

\* An entry that is edited keeps its kind and its member.
LEMMA ZeileHaelt ==
  ASSUME TerminIInv, NEW t \in teilnahmen, NEW n \in TeilnahmeZeilen,
         n.typ = t.typ, n.mitglied = t.mitglied,
         teilnahmen' = (teilnahmen \ {t}) \cup {n} \/ teilnahmen' = teilnahmen \ {t},
         UNCHANGED <<teTx, terminZeilen>>
  PROVE  TerminIInv'
<1> USE DEF TerminIInv, terminZeilen
<1>1. TerminTypen'
  BY DEF TerminTypen
<1>2. AnfrageEindeutig' /\ OhneWechselEineListe'
  BY DEF AnfrageEindeutig, OhneWechselEineListe
<1>3. EinmalAufDerListe'
  BY DEF EinmalAufDerListe
<1>4. VersteckteNurNachWechsel'
  BY DEF VersteckteNurNachWechsel, Liste
<1> QED
  BY <1>1, <1>2, <1>3, <1>4

LEMMA TerminSchritt == TerminIInv /\ [TerminNext]_terminVars => TerminIInv'
<1> SUFFICES ASSUME TerminIInv, [TerminNext]_terminVars
             PROVE  TerminIInv'
  OBVIOUS
<1>1. CASE UNCHANGED terminVars
  BY <1>1 DEF terminVars, TerminIInv, TerminTypen, AnfrageEindeutig, OhneWechselEineListe,
              EinmalAufDerListe, VersteckteNurNachWechsel, Liste
<1>2. ASSUME NEW t \in teilnahmen, FunktionWaehlen(t) \/ Entfernen(t)
      PROVE  TerminIInv'
  <2>1. t \in TeilnahmeZeilen /\ [t EXCEPT !.funktion = "bestehende"] \in TeilnahmeZeilen
    BY <1>2 DEF TerminIInv, TerminTypen, TeilnahmeZeilen
  <2>2. /\ [t EXCEPT !.funktion = "bestehende"].typ = t.typ
        /\ [t EXCEPT !.funktion = "bestehende"].mitglied = t.mitglied
    BY <2>1 DEF TeilnahmeZeilen
  <2> QED
    BY <1>2, <2>1, <2>2, ZeileHaelt DEF FunktionWaehlen, Entfernen
<1>3. ASSUME NEW t \in teilnahmen, NEW a \in BOOLEAN, NEW e \in BOOLEAN,
             Bearbeiten(t, [t EXCEPT !.ausgerueckt = a, !.entschuldigt = e])
      PROVE  TerminIInv'
  <2> DEFINE n == [t EXCEPT !.ausgerueckt = a, !.entschuldigt = e]
  <2>1. n \in TeilnahmeZeilen /\ n.typ = t.typ /\ n.mitglied = t.mitglied
    BY DEF TerminIInv, TerminTypen, TeilnahmeZeilen
  <2>2. teilnahmen' = (teilnahmen \ {t}) \cup {n} /\ UNCHANGED <<teTx, terminZeilen>>
    BY <1>3 DEF Bearbeiten
  <2> HIDE DEF n
  <2> QED
    BY <2>1, <2>2, ZeileHaelt
<1> QED
  BY <1>1, <1>2, <1>3, TerminSeiteHaelt, TerminEntfernenHaelt, HinzufuegenLesenHaelt,
     HinzufuegenSchreibenHaelt DEF TerminNext

\* A request writes all of its members or none.
LEMMA AllesOderNichts ==
  TerminIInv /\ [TerminNext]_terminVars =>
    \A w \in Workers :
      (teTx[w] # None /\ teTx'[w] = None /\ teilnahmen' # teilnahmen) =>
        teilnahmen' \ teilnahmen = teTx[w].neu
<1> SUFFICES ASSUME TerminIInv, [TerminNext]_terminVars, NEW w \in Workers,
                    teTx[w] # None, teTx'[w] = None, teilnahmen' # teilnahmen
             PROVE  teilnahmen' \ teilnahmen = teTx[w].neu
  OBVIOUS
<1>1. PICK v \in Workers : HinzufuegenSchreiben(v)
  BY DEF TerminNext, terminVars, TerminDetail, TerminEntfernen, TerminSpeichern, HinzufuegenLesen,
         FunktionWaehlen, Entfernen, Bearbeiten
<1>2. v = w
  BY <1>1 DEF HinzufuegenSchreiben, TerminIInv, TerminTypen
<1> QED
  BY <1>1, <1>2 DEF HinzufuegenSchreiben, Aufgenommen, Verletzt

LEMMA GeloeschteLeer ==
  TerminIInv /\ [TerminNext]_terminVars =>
    ((termin # "weg" /\ termin' = "weg" /\ ~typwechsel) => teilnahmen' = {})
<1> SUFFICES ASSUME TerminIInv, [TerminNext]_terminVars, termin # "weg", termin' = "weg",
                    ~typwechsel
             PROVE  teilnahmen' = {}
  OBVIOUS
<1>1. TerminEntfernen
  BY DEF TerminNext, terminVars, terminZeilen, TerminDetail, TerminSpeichern, Typen,
         HinzufuegenLesen, HinzufuegenSchreiben, FunktionWaehlen, Entfernen, Bearbeiten
<1> QED
  BY <1>1 DEF TerminEntfernen, RestNachLoeschen, TerminIInv, VersteckteNurNachWechsel, Liste

\* ui_termin.py: members are on a list once, a batch is entered as a whole, and as long
\* as the kind of an appointment stays, its list holds all there is and goes with it.
THEOREM TermineHalten == TerminSpec => TerminVersprechen
<1>1. TerminSpec => []TerminIInv
  BY TerminAmAnfang, TerminSchritt, PTL DEF TerminSpec
<1>2. TerminIInv => TerminTypeOK /\ EinmalAufDerListe /\ VersteckteNurNachWechsel
  BY DEF TerminIInv, TerminTypen, TerminTypeOK, TeilnahmeZeilen
<1>3. TerminIInv /\ [TerminNext]_terminVars =>
        [\A w \in Workers :
           (teTx[w] # None /\ teTx'[w] = None /\ teilnahmen' # teilnahmen) =>
             teilnahmen' \ teilnahmen = teTx[w].neu]_terminVars
  BY AllesOderNichts
<1>4. TerminIInv /\ [TerminNext]_terminVars =>
        [(termin # "weg" /\ termin' = "weg" /\ ~typwechsel) => teilnahmen' = {}]_terminVars
  BY GeloeschteLeer
<1>5. TerminSpec => GanzOderGarNicht /\ LoeschenRaeumtAuf
  BY <1>1, <1>3, <1>4, PTL DEF TerminSpec, GanzOderGarNicht, LoeschenRaeumtAuf
<1> QED
  BY <1>1, <1>2, <1>5, PTL DEF TerminVersprechen

-----------------------------------------------------------------------------
(* The staff of an incident *)

\* Rows of gsl_staff_assignment and of lage_einheit_leader.
Besetzungen ==
  [rolle : Rollen, person : Leute, leiter : BOOLEAN, offen : BOOLEAN, vor : Nat, lang : BOOLEAN]
Fuehrungen == [person : Leute, offen : BOOLEAN, vor : Nat]

\* What a worker has read and is going to write.
StabAuftraege ==
       [art : {"besetzen"}, zeile : {0}, neu : Besetzungen]
  \cup [art : {"abloesen"}, zeile : Nat, neu : Besetzungen]
  \cup [art : {"beenden"}, zeile : Nat, neu : {None}]
  \cup [art : {"fuehrer"}, zeile : Nat, neu : Fuehrungen, alt : Leute \cup {None}]

StabTypen ==
  /\ besetzung \in Seq(Besetzungen)
  /\ fuehrer \in Seq(Fuehrungen)
  /\ zeiger \in 0..Len(fuehrer)
  /\ kommandant \in Leute \cup {None}
  /\ stTx \in [Workers -> StabAuftraege \cup {None}]
  /\ \A w \in Workers : stTx[w] # None => stTx[w] \in StabAuftraege

\* A row names an earlier row of its function, or none, as its predecessor.
Ketten ==
  /\ \A i \in DOMAIN besetzung :
       /\ besetzung[i].vor < i
       /\ besetzung[i].vor # 0 => besetzung[besetzung[i].vor].rolle = besetzung[i].rolle
  /\ \A i \in DOMAIN fuehrer : fuehrer[i].vor < i

\* What a worker is going to write fits the rows that are there.
StabAuftragPasst(w) ==
  LET a == stTx[w] IN
  /\ a.art \in {"abloesen", "beenden"} => a.zeile \in 1..Len(besetzung)
  /\ a.art = "besetzen" => a.neu.vor = 0 /\ a.neu.offen
  /\ a.art = "abloesen" =>
       /\ a.neu.vor = a.zeile /\ a.neu.offen
       /\ a.neu.rolle = besetzung[a.zeile].rolle
       /\ a.neu.leiter = besetzung[a.zeile].leiter
  /\ a.art = "fuehrer" =>
       a.zeile \in 0..Len(fuehrer) /\ a.neu.vor = a.zeile /\ a.neu.offen
AuftraegePassen == \A w \in Workers : stTx[w] # None => StabAuftragPasst(w)

\* Without corrections who was relieved stays relieved.
AbgeloesteBleibenAbgeloest ==
  ~stUmfang.korrektur =>
    \A j \in DOMAIN besetzung :
      besetzung[j].vor # 0 => ~besetzung[besetzung[j].vor].offen

\* One worker: nothing changes between what it reads and what it writes, but the label.
AuftragIstAktuell(w) ==
  LET a == stTx[w] IN
  /\ w \in stUmfang.worker
  /\ ~stUmfang.korrektur =>
       /\ a.art = "besetzen" /\ a.neu.leiter => LeiterZulaessig(a.neu.rolle)
       /\ a.art = "abloesen" => besetzung[a.zeile].offen
  /\ a.art = "fuehrer" => a.zeile = zeiger /\ kommandant \in {a.alt, None}
AuftraegeAktuell ==
  EinStabWorker => \A w \in Workers : stTx[w] # None => AuftragIstAktuell(w)

StabIInv ==
  /\ StabTypen /\ Ketten /\ AuftraegePassen /\ AbgeloesteBleibenAbgeloest
  /\ AuftraegeAktuell
  /\ EinLeiter /\ EineNachfolge /\ ZeigerIstOffen /\ AnzeigeStimmt

LEMMA StabAmAnfang == StabInit => StabIInv
BY DEF StabInit, StabIInv, StabTypen, Ketten, AuftraegePassen, AbgeloesteBleibenAbgeloest,
       AuftraegeAktuell, EinLeiter, EineNachfolge, ZeigerIstOffen, AnzeigeStimmt, OffeneLeiter

-----------------------------------------------------------------------------
(* Steps that only read. *)

\* A worker reads rows of the staff: it was free, and the rest stays as it is.
LEMMA StabLiest ==
  ASSUME StabIInv, NEW w \in Workers, NEW a \in StabAuftraege, StabFrei(w),
         stTx' = [stTx EXCEPT ![w] = a],
         UNCHANGED <<besetzung, stUmfang, stAktiv, fuehrer, zeiger, kommandant>>,
         StabAuftragPasst(w)', EinStabWorker => AuftragIstAktuell(w)'
  PROVE  StabIInv'
<1> USE DEF StabIInv
<1>1. /\ stTx'[w] = a
      /\ \A v \in Workers \ {w} : stTx'[v] = stTx[v]
  BY DEF StabTypen
<1>2. StabTypen'
  BY DEF StabTypen
<1>3. Ketten' /\ AbgeloesteBleibenAbgeloest'
  BY DEF Ketten, AbgeloesteBleibenAbgeloest
<1>4. AuftraegePassen'
  BY <1>1 DEF AuftraegePassen, StabAuftragPasst
<1>5. AuftraegeAktuell'
  BY <1>1 DEF AuftraegeAktuell, AuftragIstAktuell, EinStabWorker, LeiterZulaessig, OffeneLeiter
<1>6. EinLeiter' /\ EineNachfolge'
  BY DEF EinLeiter, EineNachfolge, EinStabWorker, OffeneLeiter
<1>7. ZeigerIstOffen' /\ AnzeigeStimmt'
  BY DEF ZeigerIstOffen, AnzeigeStimmt, EinStabWorker
<1> QED
  BY <1>2, <1>3, <1>4, <1>5, <1>6, <1>7

LEMMA BesetzenLesenHaelt ==
  ASSUME StabIInv, NEW w \in Workers, NEW r \in Rollen, NEW p \in Leute,
         NEW leiter \in BOOLEAN, BesetzenLesen(w, r, p, leiter)
  PROVE  StabIInv'
<1> DEFINE neu == Besetzung(r, p, leiter, 0)
           a == [art |-> "besetzen", zeile |-> 0, neu |-> neu]
<1>1. /\ neu \in Besetzungen /\ neu.vor = 0 /\ neu.offen
      /\ neu.leiter = leiter /\ neu.rolle = r
  BY DEF Besetzung, Besetzungen
<1>2. StabFrei(w) /\ stTx' = [stTx EXCEPT ![w] = a] /\ (leiter => LeiterZulaessig(r))
  BY DEF BesetzenLesen
<1>3. UNCHANGED <<besetzung, stUmfang, stAktiv, fuehrer, zeiger, kommandant>>
  BY DEF BesetzenLesen, stabZeilen
<1> HIDE DEF neu
<1>4. a \in StabAuftraege /\ a.art = "besetzen" /\ a.neu = neu
  BY <1>1 DEF StabAuftraege
<1> HIDE DEF a
<1>5. stTx'[w] = a
  BY <1>2 DEF StabIInv, StabTypen
<1>6. StabAuftragPasst(w)'
  BY <1>1, <1>4, <1>5 DEF StabAuftragPasst
<1>7. AuftragIstAktuell(w)'
  BY <1>1, <1>2, <1>3, <1>4, <1>5
     DEF AuftragIstAktuell, StabFrei, LeiterZulaessig, OffeneLeiter
<1> QED
  BY <1>2, <1>3, <1>4, <1>6, <1>7, StabLiest

LEMMA AbloesenLesenHaelt ==
  ASSUME StabIInv, NEW w \in Workers, NEW i \in DOMAIN besetzung, NEW p \in Leute,
         AbloesenLesen(w, i, p)
  PROVE  StabIInv'
<1> DEFINE neu == Nachfolge(i, p)
           a == [art |-> "abloesen", zeile |-> i, neu |-> neu]
<1>1. i \in 1..Len(besetzung) /\ i \in Nat /\ besetzung[i] \in Besetzungen
  BY DEF StabIInv, StabTypen
<1>2. /\ neu \in Besetzungen /\ neu.vor = i /\ neu.offen
      /\ neu.leiter = besetzung[i].leiter /\ neu.rolle = besetzung[i].rolle
  BY <1>1 DEF Nachfolge, Besetzung, Besetzungen
<1>3. StabFrei(w) /\ stTx' = [stTx EXCEPT ![w] = a] /\ besetzung[i].offen
  BY DEF AbloesenLesen
<1>4. UNCHANGED <<besetzung, stUmfang, stAktiv, fuehrer, zeiger, kommandant>>
  BY DEF AbloesenLesen, stabZeilen
<1> HIDE DEF neu
<1>5. a \in StabAuftraege /\ a.art = "abloesen" /\ a.neu = neu /\ a.zeile = i
  BY <1>1, <1>2 DEF StabAuftraege
<1> HIDE DEF a
<1>6. stTx'[w] = a
  BY <1>3 DEF StabIInv, StabTypen
<1>7. StabAuftragPasst(w)'
  BY <1>1, <1>2, <1>4, <1>5, <1>6 DEF StabAuftragPasst
<1>8. AuftragIstAktuell(w)'
  BY <1>3, <1>4, <1>5, <1>6 DEF AuftragIstAktuell, StabFrei
<1> QED
  BY <1>3, <1>4, <1>5, <1>7, <1>8, StabLiest

LEMMA BeendenLesenHaelt ==
  ASSUME StabIInv, NEW w \in Workers, NEW i \in DOMAIN besetzung, BeendenLesen(w, i)
  PROVE  StabIInv'
<1> DEFINE a == [art |-> "beenden", zeile |-> i, neu |-> None]
<1>1. i \in 1..Len(besetzung) /\ i \in Nat
  BY DEF StabIInv, StabTypen
<1>2. StabFrei(w) /\ stTx' = [stTx EXCEPT ![w] = a]
  BY DEF BeendenLesen
<1>3. UNCHANGED <<besetzung, stUmfang, stAktiv, fuehrer, zeiger, kommandant>>
  BY DEF BeendenLesen, stabZeilen
<1>4. a \in StabAuftraege /\ a.art = "beenden" /\ a.zeile = i
  BY <1>1 DEF StabAuftraege
<1> HIDE DEF a
<1>5. stTx'[w] = a
  BY <1>2 DEF StabIInv, StabTypen
<1>6. StabAuftragPasst(w)'
  BY <1>1, <1>3, <1>4, <1>5 DEF StabAuftragPasst
<1>7. AuftragIstAktuell(w)'
  BY <1>2, <1>3, <1>4, <1>5 DEF AuftragIstAktuell, StabFrei
<1> QED
  BY <1>2, <1>3, <1>4, <1>6, <1>7, StabLiest

LEMMA RotierenLesenHaelt ==
  ASSUME StabIInv, NEW w \in Workers, NEW p \in Leute, RotierenLesen(w, p)
  PROVE  StabIInv'
<1> DEFINE neu == [person |-> p, offen |-> TRUE, vor |-> zeiger]
           a == [art |-> "fuehrer", zeile |-> zeiger, neu |-> neu, alt |-> kommandant]
<1>1. zeiger \in 0..Len(fuehrer) /\ zeiger \in Nat
  BY DEF StabIInv, StabTypen
<1>2. neu \in Fuehrungen /\ neu.vor = zeiger /\ neu.offen
  BY <1>1 DEF Fuehrungen
<1>3. StabFrei(w) /\ stTx' = [stTx EXCEPT ![w] = a]
  BY DEF RotierenLesen
<1>4. UNCHANGED <<besetzung, stUmfang, stAktiv, fuehrer, zeiger, kommandant>>
  BY DEF RotierenLesen, stabZeilen
<1> HIDE DEF neu
<1>5. /\ a \in StabAuftraege /\ a.art = "fuehrer" /\ a.neu = neu
      /\ a.zeile = zeiger /\ a.alt = kommandant
  BY <1>1, <1>2 DEF StabAuftraege, StabIInv, StabTypen
<1> HIDE DEF a
<1>6. stTx'[w] = a
  BY <1>3 DEF StabIInv, StabTypen
<1>7. StabAuftragPasst(w)'
  BY <1>1, <1>2, <1>4, <1>5, <1>6 DEF StabAuftragPasst
<1>8. AuftragIstAktuell(w)'
  BY <1>3, <1>4, <1>5, <1>6 DEF AuftragIstAktuell, StabFrei
<1> QED
  BY <1>3, <1>4, <1>5, <1>7, <1>8, StabLiest

-----------------------------------------------------------------------------
(* Steps that write. *)

\* The rows of the staff after a commit: all as they were but the one that ends, and
\* the new one, if there is one, behind them.
LEMMA FestschreibenZeilen ==
  ASSUME StabIInv, NEW w \in Workers, StabFestschreiben(w)
  PROVE  LET a == stTx[w]
             n == Len(besetzung)
         IN  /\ besetzung' \in Seq(Besetzungen)
             /\ n \in Nat /\ Len(besetzung') = IF a.neu = None THEN n ELSE n + 1
             /\ \A i \in 1..n :
                  /\ besetzung'[i].rolle = besetzung[i].rolle
                  /\ besetzung'[i].leiter = besetzung[i].leiter
                  /\ besetzung'[i].vor = besetzung[i].vor
                  /\ besetzung'[i].offen <=> (besetzung[i].offen /\ i # a.zeile)
             /\ a.neu # None => besetzung'[n + 1] = a.neu
<1> DEFINE a == stTx[w]
           n == Len(besetzung)
           nach == Beendet(a.zeile)
<1>1. a \in StabAuftraege /\ a.art # "fuehrer" /\ a.zeile \in 0..n
  BY DEF StabIInv, StabTypen, AuftraegePassen, StabAuftragPasst, StabFestschreiben, StabAuftraege
<1>2. a.neu # None => a.neu \in Besetzungen
  BY <1>1 DEF StabAuftraege
<1>3. besetzung \in Seq(Besetzungen) /\ n \in Nat
  BY DEF StabIInv, StabTypen
<1>4. besetzung' = IF a.neu = None THEN nach ELSE Append(nach, a.neu)
  BY DEF StabFestschreiben
<1> HIDE DEF a
<1>5. /\ nach \in Seq(Besetzungen) /\ Len(nach) = n
      /\ \A i \in 1..n :
           /\ nach[i].rolle = besetzung[i].rolle
           /\ nach[i].leiter = besetzung[i].leiter
           /\ nach[i].vor = besetzung[i].vor
           /\ nach[i].offen <=> (besetzung[i].offen /\ i # a.zeile)
  <2>1. CASE a.zeile = 0
    BY <1>3, <2>1 DEF Beendet
  <2>2. CASE a.zeile # 0
    <3>1. a.zeile \in 1..n
      BY <1>1, <2>2
    <3>2. besetzung[a.zeile] \in Besetzungen
      BY <1>3, <3>1
    <3> DEFINE zu == [besetzung[a.zeile] EXCEPT !.offen = FALSE]
    <3>3. /\ zu \in Besetzungen /\ zu.rolle = besetzung[a.zeile].rolle
          /\ zu.leiter = besetzung[a.zeile].leiter /\ zu.vor = besetzung[a.zeile].vor
          /\ zu.offen = FALSE
      BY <3>2 DEF Besetzungen
    <3>4. nach = [besetzung EXCEPT ![a.zeile] = zu]
      BY <2>2 DEF Beendet
    <3> HIDE DEF zu, nach
    <3> QED
      BY <1>3, <3>1, <3>3, <3>4
  <2> QED
    BY <2>1, <2>2
<1> HIDE DEF nach
<1>6. CASE a.neu = None
  BY <1>3, <1>4, <1>5, <1>6 DEF a
<1>7. CASE a.neu # None
  <2>1. /\ Append(nach, a.neu) \in Seq(Besetzungen) /\ Len(Append(nach, a.neu)) = n + 1
        /\ Append(nach, a.neu)[n + 1] = a.neu
        /\ \A i \in 1..n : Append(nach, a.neu)[i] = nach[i]
    BY <1>2, <1>3, <1>5, <1>7
  <2> QED
    BY <1>3, <1>4, <1>5, <1>7, <2>1 DEF a
<1> QED
  BY <1>6, <1>7

LEMMA FestschreibenHaelt ==
  ASSUME StabIInv, NEW w \in Workers, StabFestschreiben(w)
  PROVE  StabIInv'
<1> DEFINE a == stTx[w]
           n == Len(besetzung)
           m == Len(besetzung')
<1> USE DEF StabIInv
<1>1. /\ besetzung \in Seq(Besetzungen) /\ besetzung' \in Seq(Besetzungen)
      /\ n \in Nat /\ m = (IF a.neu = None THEN n ELSE n + 1)
      /\ DOMAIN besetzung = 1..n /\ DOMAIN besetzung' = 1..m
  BY FestschreibenZeilen DEF StabTypen
<1>2. \A i \in 1..n :
        /\ besetzung'[i].rolle = besetzung[i].rolle
        /\ besetzung'[i].leiter = besetzung[i].leiter
        /\ besetzung'[i].vor = besetzung[i].vor
        /\ besetzung'[i].offen <=> (besetzung[i].offen /\ i # a.zeile)
  BY FestschreibenZeilen
<1>3. a.neu # None => besetzung'[n + 1] = a.neu
  BY FestschreibenZeilen
<1>4. /\ a # None /\ a \in StabAuftraege /\ a.art # "fuehrer"
      /\ StabAuftragPasst(w) /\ (EinStabWorker => AuftragIstAktuell(w))
      /\ stTx' = [stTx EXCEPT ![w] = None]
      /\ UNCHANGED <<stUmfang, stAktiv, fuehrer, zeiger, kommandant>>
  BY DEF StabFestschreiben, StabTypen, AuftraegePassen, AuftraegeAktuell, stabZeilen
<1>5. /\ a.art \in {"besetzen", "abloesen", "beenden"}
      /\ a.art = "besetzen" => a.zeile = 0
      /\ a.art = "beenden" => a.neu = None
      /\ a.art # "beenden" => a.neu \in Besetzungen
  BY <1>4 DEF StabAuftraege
<1>6. /\ stTx'[w] = None
      /\ \A v \in Workers \ {w} : stTx'[v] = stTx[v]
  BY <1>4 DEF StabTypen
<1>7. \A i \in 1..n : besetzung[i].vor \in Nat /\ besetzung[i].vor < i
  <2>1. \A i \in 1..n : besetzung[i] \in Besetzungen
    BY <1>1, ElementOfSeq
  <2>2. \A i \in 1..n : besetzung[i].vor < i
    BY <1>1 DEF Ketten
  <2> QED
    BY <2>1, <2>2 DEF Besetzungen
<1>8. a.neu # None =>
        \/ a.art = "besetzen" /\ a.neu.vor = 0
        \/ /\ a.art = "abloesen" /\ a.zeile \in 1..n /\ a.neu.vor = a.zeile
           /\ a.neu.rolle = besetzung[a.zeile].rolle
           /\ a.neu.leiter = besetzung[a.zeile].leiter
  BY <1>4, <1>5 DEF StabAuftragPasst
<1>0. n = Len(besetzung) /\ m = Len(besetzung') /\ n \in Nat /\ m \in {n, n + 1}
  BY <1>1
<1> HIDE DEF n, m, StabIInv
<1>9. StabTypen'
  <2>1. stTx' \in [Workers -> StabAuftraege \cup {None}]
    BY <1>4 DEF StabTypen, StabIInv
  <2>2. \A v \in Workers : stTx'[v] # None => stTx'[v] \in StabAuftraege
    BY <1>6 DEF StabIInv, StabTypen
  <2> QED
    BY <1>1, <1>4, <2>1, <2>2 DEF StabIInv, StabTypen
<1>10. Ketten'
  <2>1. ASSUME NEW i \in 1..m
        PROVE  /\ besetzung'[i].vor < i
               /\ besetzung'[i].vor # 0 =>
                    besetzung'[besetzung'[i].vor].rolle = besetzung'[i].rolle
    <3>1. CASE i \in 1..n
      <4>1. besetzung[i].vor # 0 => besetzung[i].vor \in 1..n
        BY <1>0, <1>1, <1>7, <3>1
      <4>2. besetzung[i].vor # 0 => besetzung[besetzung[i].vor].rolle = besetzung[i].rolle
        BY <1>1, <3>1 DEF StabIInv, Ketten
      <4> QED
        BY <1>2, <1>7, <3>1, <4>1, <4>2
    <3>2. CASE i \notin 1..n
      <4>1. i = n + 1 /\ a.neu # None
        BY <1>0, <1>1, <3>2
      <4> QED
        BY <1>1, <1>2, <1>3, <1>8, <4>1
    <3> QED
      BY <3>1, <3>2
  <2> QED
    BY <1>1, <1>4, <2>1 DEF StabIInv, Ketten
<1>11. AuftraegePassen'
  <2>1. ASSUME NEW v \in Workers, stTx'[v] # None
        PROVE  StabAuftragPasst(v)'
    <3>1. v # w /\ stTx'[v] = stTx[v] /\ stTx[v] # None /\ StabAuftragPasst(v)
      BY <1>6, <2>1 DEF StabIInv, AuftraegePassen
    <3>2. stTx[v].art \in {"abloesen", "beenden"} =>
            stTx[v].zeile \in 1..n /\ stTx[v].zeile \in 1..m
      BY <1>0, <1>1, <3>1 DEF StabAuftragPasst
    <3> QED
      BY <1>0, <1>1, <1>2, <1>4, <3>1, <3>2 DEF StabAuftragPasst
  <2> QED
    BY <2>1 DEF StabIInv, AuftraegePassen
<1>12. AuftraegeAktuell'
  <2>1. EinStabWorker => \A v \in Workers : stTx'[v] = None
    BY <1>4, <1>6 DEF StabIInv, AuftraegeAktuell, AuftragIstAktuell, EinStabWorker
  <2> QED
    BY <1>4, <2>1 DEF StabIInv, AuftraegeAktuell, EinStabWorker
<1>13. AbgeloesteBleibenAbgeloest'
  <2>1. ASSUME ~stUmfang.korrektur, NEW j \in 1..m, besetzung'[j].vor # 0
        PROVE  ~besetzung'[besetzung'[j].vor].offen
    <3>1. CASE j \in 1..n
      <4>1. besetzung[j].vor # 0 /\ besetzung[j].vor \in 1..n
        BY <1>0, <1>1, <1>2, <1>7, <2>1, <3>1
      <4>2. ~besetzung[besetzung[j].vor].offen
        BY <1>1, <2>1, <3>1, <4>1 DEF StabIInv, AbgeloesteBleibenAbgeloest
      <4> QED
        BY <1>2, <3>1, <4>1, <4>2
    <3>2. CASE j \notin 1..n
      <4>1. j = n + 1 /\ a.neu # None
        BY <1>0, <1>1, <3>2
      <4>2. a.zeile \in 1..n /\ besetzung'[j].vor = a.zeile
        BY <1>3, <1>8, <2>1, <4>1
      <4> QED
        BY <1>2, <4>2
    <3> QED
      BY <3>1, <3>2
  <2> QED
    BY <1>1, <1>4, <2>1 DEF StabIInv, AbgeloesteBleibenAbgeloest
<1>14. EinLeiter'
  <2>1. ASSUME EinStabWorker, ~stUmfang.korrektur, NEW r \in Rollen \ Mehrfach,
               NEW i \in 1..m, NEW j \in 1..n, i # j,
               besetzung'[i].rolle = r, besetzung'[i].leiter, besetzung'[i].offen,
               besetzung'[j].rolle = r, besetzung'[j].leiter, besetzung'[j].offen
        PROVE  FALSE
    <3>1. j \in OffeneLeiter(r) /\ j # a.zeile
      BY <1>1, <1>2, <2>1 DEF StabIInv, OffeneLeiter
    <3>2. CASE i \in 1..n
      <4>1. i \in OffeneLeiter(r)
        BY <1>1, <1>2, <2>1, <3>2 DEF StabIInv, OffeneLeiter
      <4> QED
        BY <1>1, <2>1, <3>1, <4>1 DEF StabIInv, EinLeiter, OffeneLeiter
    <3>3. CASE i \notin 1..n
      <4>1. i = n + 1 /\ a.neu # None /\ besetzung'[i] = a.neu
        BY <1>0, <1>1, <1>3, <3>3
      <4>2. CASE a.art = "besetzen"
        <5>1. LeiterZulaessig(r)
          BY <1>4, <2>1, <4>1, <4>2 DEF StabIInv, AuftragIstAktuell
        <5> QED
          BY <2>1, <3>1, <5>1 DEF StabIInv, LeiterZulaessig
      <4>3. CASE a.art = "abloesen"
        <5>1. a.zeile \in 1..n /\ besetzung[a.zeile].offen
          BY <1>4, <1>5, <1>8, <2>1, <4>1, <4>3 DEF StabIInv, AuftragIstAktuell
        <5>2. besetzung[a.zeile].rolle = r /\ besetzung[a.zeile].leiter
          BY <1>8, <2>1, <4>1, <4>3
        <5>3. a.zeile \in OffeneLeiter(r)
          BY <1>1, <5>1, <5>2 DEF StabIInv, OffeneLeiter
        <5> QED
          BY <1>1, <2>1, <3>1, <5>1, <5>3 DEF StabIInv, EinLeiter, OffeneLeiter
      <4> QED
        BY <1>8, <4>1, <4>2, <4>3
    <3> QED
      BY <3>2, <3>3
  <2>2. ASSUME EinStabWorker, ~stUmfang.korrektur, NEW r \in Rollen \ Mehrfach,
               NEW i \in 1..m, NEW j \in 1..m,
               besetzung'[i].rolle = r, besetzung'[i].leiter, besetzung'[i].offen,
               besetzung'[j].rolle = r, besetzung'[j].leiter, besetzung'[j].offen
        PROVE  i = j
    <3>1. i \in 1..n \/ j \in 1..n \/ i = j
      BY <1>0, <1>1
    <3> QED
      BY <2>1, <2>2, <3>1
  <2> QED
    BY <1>1, <1>4, <2>2 DEF StabIInv, EinLeiter, EinStabWorker, OffeneLeiter
<1>15. EineNachfolge'
  <2>1. ASSUME EinStabWorker, ~stUmfang.korrektur, NEW i \in 1..m, NEW j \in 1..n,
               besetzung'[j].vor # 0, besetzung'[i].vor = besetzung'[j].vor
        PROVE  i = j
    <3>1. CASE i \in 1..n
      BY <1>1, <1>2, <2>1, <3>1 DEF StabIInv, EineNachfolge
    <3>2. CASE i \notin 1..n
      <4>1. i = n + 1 /\ a.neu # None /\ besetzung'[i] = a.neu
        BY <1>0, <1>1, <1>3, <3>2
      <4>2. a.art = "abloesen" /\ besetzung[j].vor = a.zeile
        BY <1>2, <1>8, <2>1, <4>1
      <4>3. besetzung[a.zeile].offen
        BY <1>4, <2>1, <4>2 DEF StabIInv, AuftragIstAktuell
      <4>4. ~besetzung[besetzung[j].vor].offen
        BY <1>1, <1>2, <2>1 DEF StabIInv, AbgeloesteBleibenAbgeloest
      <4> QED
        BY <4>2, <4>3, <4>4
    <3> QED
      BY <3>1, <3>2
  <2>2. ASSUME EinStabWorker, ~stUmfang.korrektur, NEW i \in 1..m, NEW j \in 1..m,
               besetzung'[j].vor # 0, besetzung'[i].vor = besetzung'[j].vor
        PROVE  i = j
    <3>1. i \in 1..n \/ j \in 1..n \/ i = j
      BY <1>1
    <3>2. besetzung'[i].vor # 0
      BY <2>2
    <3> QED
      BY <2>1, <2>2, <3>1, <3>2
  <2> QED
    BY <1>1, <1>4, <1>10, <1>13, <2>2
       DEF StabIInv, EineNachfolge, EinStabWorker, Ketten, AbgeloesteBleibenAbgeloest
<1>16. ZeigerIstOffen' /\ AnzeigeStimmt'
  BY <1>4 DEF StabIInv, ZeigerIstOffen, AnzeigeStimmt, EinStabWorker
<1> QED
  BY <1>9, <1>10, <1>11, <1>12, <1>13, <1>14, <1>15, <1>16 DEF StabIInv

\* A correction and the passing of hours change a row that is there; neither happens in
\* the operation the promises about lead and relief are about.
LEMMA ZeileGeaendertHaelt ==
  ASSUME StabIInv, NEW i \in DOMAIN besetzung,
         BesetzungKorrigieren(i) \/ LangeImDienst(i)
  PROVE  StabIInv'
<1> USE DEF StabIInv
<1>1. /\ stUmfang.korrektur
      /\ UNCHANGED <<stUmfang, stAktiv, fuehrer, zeiger, kommandant, stTx>>
  BY DEF BesetzungKorrigieren, LangeImDienst, stabZeilen
<1>2. besetzung \in Seq(Besetzungen) /\ besetzung[i] \in Besetzungen
  BY DEF StabTypen
<1>3. PICK z \in Besetzungen :
        /\ besetzung' = [besetzung EXCEPT ![i] = z]
        /\ z.rolle = besetzung[i].rolle /\ z.vor = besetzung[i].vor
        /\ z.leiter = besetzung[i].leiter
  <2>1. CASE BesetzungKorrigieren(i)
    <3> DEFINE z == [besetzung[i] EXCEPT !.offen = ~@]
    <3>1. besetzung' = [besetzung EXCEPT ![i] = z]
      BY <2>1 DEF BesetzungKorrigieren
    <3>2. z \in Besetzungen /\ z.rolle = besetzung[i].rolle /\ z.vor = besetzung[i].vor
          /\ z.leiter = besetzung[i].leiter
      BY <1>2 DEF Besetzungen
    <3> HIDE DEF z
    <3> QED
      BY <3>1, <3>2
  <2>2. CASE LangeImDienst(i)
    <3> DEFINE z == [besetzung[i] EXCEPT !.lang = TRUE]
    <3>1. besetzung' = [besetzung EXCEPT ![i] = z]
      BY <2>2 DEF LangeImDienst
    <3>2. z \in Besetzungen /\ z.rolle = besetzung[i].rolle /\ z.vor = besetzung[i].vor
          /\ z.leiter = besetzung[i].leiter
      BY <1>2 DEF Besetzungen
    <3> HIDE DEF z
    <3> QED
      BY <3>1, <3>2
  <2> QED
    BY <2>1, <2>2
<1>4. /\ besetzung' \in Seq(Besetzungen) /\ Len(besetzung') = Len(besetzung)
      /\ DOMAIN besetzung' = DOMAIN besetzung
      /\ \A j \in DOMAIN besetzung :
           /\ besetzung'[j].rolle = besetzung[j].rolle
           /\ besetzung'[j].vor = besetzung[j].vor
           /\ besetzung'[j].leiter = besetzung[j].leiter
  BY <1>2, <1>3
<1>5. StabTypen'
  BY <1>1, <1>4 DEF StabTypen
<1>6. Ketten'
  <2>1. \A j \in DOMAIN besetzung :
          besetzung[j].vor # 0 => besetzung[j].vor \in DOMAIN besetzung
    <3>1. \A j \in DOMAIN besetzung : besetzung[j].vor \in Nat
      <4>1. \A j \in DOMAIN besetzung : besetzung[j] \in Besetzungen
        BY <1>2, ElementOfSeq
      <4> QED
        BY <4>1 DEF Besetzungen
    <3>2. \A j \in DOMAIN besetzung : besetzung[j].vor < j
      BY DEF Ketten
    <3> QED
      BY <1>2, <3>1, <3>2
  <2> QED
    BY <1>1, <1>4, <2>1 DEF Ketten
<1>7. AuftraegePassen'
  <2>1. \A v \in Workers : stTx[v] # None /\ stTx[v].art = "abloesen" =>
          stTx[v].zeile \in DOMAIN besetzung
    BY <1>2 DEF AuftraegePassen, StabAuftragPasst
  <2> QED
    BY <1>1, <1>4, <2>1 DEF AuftraegePassen, StabAuftragPasst
<1>8. AbgeloesteBleibenAbgeloest' /\ EinLeiter' /\ EineNachfolge'
  BY <1>1 DEF AbgeloesteBleibenAbgeloest, EinLeiter, EineNachfolge
<1>9. AuftraegeAktuell'
  BY <1>1 DEF AuftraegeAktuell, AuftragIstAktuell, EinStabWorker
<1>10. ZeigerIstOffen' /\ AnzeigeStimmt'
  BY <1>1 DEF ZeigerIstOffen, AnzeigeStimmt, EinStabWorker
<1> QED
  BY <1>5, <1>6, <1>7, <1>8, <1>9, <1>10

\* The relief of the commander that was read closes one row and opens the new one.
LEMMA RotierenSchreibenHaelt ==
  ASSUME StabIInv, NEW w \in Workers, RotierenSchreiben(w)
  PROVE  StabIInv'
<1> DEFINE a == stTx[w]
           n == Len(fuehrer)
           nach == Abgeloest(a.zeile)
<1> USE DEF StabIInv
<1>1. /\ a # None /\ a \in StabAuftraege /\ a.art = "fuehrer"
      /\ StabAuftragPasst(w) /\ (EinStabWorker => AuftragIstAktuell(w))
      /\ fuehrer' = Append(nach, a.neu) /\ zeiger' = n + 1
      /\ kommandant' = (IF a.neu.person = a.alt THEN kommandant ELSE a.neu.person)
      /\ stTx' = [stTx EXCEPT ![w] = None]
      /\ UNCHANGED <<stUmfang, stAktiv, besetzung>>
  BY DEF RotierenSchreiben, StabTypen, AuftraegePassen, AuftraegeAktuell
<1>2. /\ a.neu \in Fuehrungen /\ a.neu.offen /\ a.zeile \in 0..n /\ a.neu.vor = a.zeile
      /\ fuehrer \in Seq(Fuehrungen) /\ n \in Nat
  BY <1>1 DEF StabAuftraege, StabAuftragPasst, StabTypen
<1>3. /\ stTx'[w] = None
      /\ \A v \in Workers \ {w} : stTx'[v] = stTx[v]
  BY <1>1 DEF StabTypen
<1>4. /\ nach \in Seq(Fuehrungen) /\ Len(nach) = n
      /\ \A i \in 1..n : /\ nach[i].vor = fuehrer[i].vor
                         /\ nach[i].offen <=> (fuehrer[i].offen /\ i # a.zeile)
  <2>1. CASE a.zeile = 0
    BY <1>2, <2>1 DEF Abgeloest
  <2>2. CASE a.zeile # 0
    <3>1. a.zeile \in 1..n /\ fuehrer[a.zeile] \in Fuehrungen
      BY <1>2, <2>2
    <3> DEFINE zu == [fuehrer[a.zeile] EXCEPT !.offen = FALSE]
    <3>2. zu \in Fuehrungen /\ zu.vor = fuehrer[a.zeile].vor /\ zu.offen = FALSE
      BY <3>1 DEF Fuehrungen
    <3>3. nach = [fuehrer EXCEPT ![a.zeile] = zu]
      BY <2>2 DEF Abgeloest
    <3> HIDE DEF zu, nach
    <3> QED
      BY <1>2, <3>1, <3>2, <3>3
  <2> QED
    BY <2>1, <2>2
<1> HIDE DEF nach
<1>5. /\ fuehrer' \in Seq(Fuehrungen) /\ Len(fuehrer') = n + 1
      /\ fuehrer'[n + 1] = a.neu /\ \A i \in 1..n : fuehrer'[i] = nach[i]
  BY <1>1, <1>2, <1>4
<1>6. kommandant' \in Leute \cup {None}
  BY <1>1, <1>2 DEF StabTypen, Fuehrungen
<1>7. StabTypen'
  <2>1. stTx' \in [Workers -> StabAuftraege \cup {None}]
    BY <1>1 DEF StabTypen
  <2>2. \A v \in Workers : stTx'[v] # None => stTx'[v] \in StabAuftraege
    BY <1>3 DEF StabTypen
  <2> QED
    BY <1>1, <1>2, <1>5, <1>6, <2>1, <2>2 DEF StabTypen
<1>8. Ketten'
  <2>1. \A i \in 1..(n + 1) : fuehrer'[i].vor < i
    BY <1>2, <1>4, <1>5 DEF Ketten
  <2> QED
    BY <1>1, <1>5, <2>1 DEF Ketten
<1>9. AuftraegePassen'
  <2>1. ASSUME NEW v \in Workers, stTx'[v] # None
        PROVE  StabAuftragPasst(v)'
    <3>1. v # w /\ stTx'[v] = stTx[v] /\ stTx[v] # None /\ StabAuftragPasst(v)
      BY <1>3, <2>1 DEF AuftraegePassen
    <3> QED
      BY <1>1, <1>2, <1>5, <3>1 DEF StabAuftragPasst
  <2> QED
    BY <2>1 DEF AuftraegePassen
<1>10. AuftraegeAktuell'
  <2>1. EinStabWorker => \A v \in Workers : stTx'[v] = None
    BY <1>1, <1>3 DEF AuftraegeAktuell, AuftragIstAktuell, EinStabWorker
  <2> QED
    BY <1>1, <2>1 DEF AuftraegeAktuell, EinStabWorker
<1>11. AbgeloesteBleibenAbgeloest' /\ EinLeiter' /\ EineNachfolge'
  BY <1>1 DEF AbgeloesteBleibenAbgeloest, EinLeiter, EineNachfolge, EinStabWorker, OffeneLeiter
<1>12. ZeigerIstOffen'
  <2>1. ASSUME EinStabWorker, NEW i \in 1..n, fuehrer'[i].offen
        PROVE  FALSE
    <3>1. fuehrer[i].offen /\ i # a.zeile /\ a.zeile = zeiger
      BY <1>1, <1>4, <1>5, <2>1 DEF AuftragIstAktuell
    <3> QED
      BY <1>2, <2>1, <3>1 DEF ZeigerIstOffen
  <2> QED
    BY <1>1, <1>2, <1>5, <2>1 DEF ZeigerIstOffen, EinStabWorker
<1>13. AnzeigeStimmt'
  <2>1. EinStabWorker => kommandant' \in {a.neu.person, None}
    BY <1>1 DEF AuftragIstAktuell
  <2> QED
    BY <1>1, <1>2, <1>5, <2>1 DEF AnzeigeStimmt, EinStabWorker
<1> QED
  BY <1>7, <1>8, <1>9, <1>10, <1>11, <1>12, <1>13

LEMMA LageOderLabelHaelt ==
  ASSUME StabIInv, LageBeenden \/ KommandantLeeren
  PROVE  StabIInv'
<1> USE DEF StabIInv
<1>1. /\ UNCHANGED <<stUmfang, besetzung, fuehrer, zeiger, stTx>>
      /\ kommandant' \in {kommandant, None}
  BY DEF LageBeenden, KommandantLeeren
<1>2. StabTypen' /\ Ketten' /\ AuftraegePassen'
  BY <1>1 DEF StabTypen, Ketten, AuftraegePassen, StabAuftragPasst
<1>3. AbgeloesteBleibenAbgeloest' /\ EinLeiter' /\ EineNachfolge'
  BY <1>1 DEF AbgeloesteBleibenAbgeloest, EinLeiter, EineNachfolge, EinStabWorker, OffeneLeiter
<1>4. AuftraegeAktuell'
  BY <1>1 DEF AuftraegeAktuell, AuftragIstAktuell, EinStabWorker, LeiterZulaessig, OffeneLeiter
<1>5. ZeigerIstOffen' /\ AnzeigeStimmt'
  BY <1>1 DEF ZeigerIstOffen, AnzeigeStimmt, EinStabWorker
<1> QED
  BY <1>2, <1>3, <1>4, <1>5

LEMMA StabSchrittHaelt == StabIInv /\ [StabNext]_stabVars => StabIInv'
<1> SUFFICES ASSUME StabIInv, [StabNext]_stabVars
             PROVE  StabIInv'
  OBVIOUS
<1>1. CASE UNCHANGED stabVars
  BY <1>1 DEF stabVars, StabIInv, StabTypen, Ketten, AuftraegePassen, StabAuftragPasst,
     AbgeloesteBleibenAbgeloest, AuftraegeAktuell, AuftragIstAktuell, EinStabWorker, LeiterZulaessig,
     OffeneLeiter, EinLeiter, EineNachfolge, ZeigerIstOffen, AnzeigeStimmt
<1>2. CASE StabNext
  BY <1>2, BesetzenLesenHaelt, AbloesenLesenHaelt, RotierenLesenHaelt, BeendenLesenHaelt,
     FestschreibenHaelt, RotierenSchreibenHaelt, ZeileGeaendertHaelt, LageOderLabelHaelt
     DEF StabNext
<1> QED
  BY <1>1, <1>2

-----------------------------------------------------------------------------
(* No gap. *)

\* A relief leaves no gap, whoever else is working: what turns the traffic light red is
\* an end without successor. Only a commit closes a row, and a commit that names a
\* successor puts him into the same function with the same lead.
LEMMA KeineLuecke ==
  ASSUME StabIInv, StabNext, ~stUmfang.korrektur, Gesamtampel # "red", Gesamtampel' = "red"
  PROVE  \E i \in DOMAIN besetzung :
           /\ besetzung[i].offen /\ ~besetzung'[i].offen
           /\ \A j \in DOMAIN besetzung' : besetzung'[j].vor # i
<1>1. PICK r \in Rollen : Ampel(r)' = "red"
  BY DEF Gesamtampel
<1>2. r \in Pflicht /\ OffeneLeiter(r)' = {}
  BY <1>1 DEF Ampel
<1>3. PICK i \in OffeneLeiter(r) : TRUE
  BY <1>2 DEF Gesamtampel, Ampel
<1>4. besetzung' # besetzung
  BY <1>2, <1>3 DEF OffeneLeiter
<1>5. PICK w \in Workers : StabFestschreiben(w)
  BY <1>4 DEF StabNext, BesetzenLesen, AbloesenLesen, RotierenLesen, BeendenLesen,
     RotierenSchreiben, BesetzungKorrigieren, LangeImDienst, LageBeenden, KommandantLeeren
<1> DEFINE a == stTx[w]
           n == Len(besetzung)
<1>6. /\ n \in Nat /\ DOMAIN besetzung = 1..n
      /\ DOMAIN besetzung' = 1..(IF a.neu = None THEN n ELSE n + 1)
      /\ \A j \in 1..n :
           /\ besetzung'[j].rolle = besetzung[j].rolle
           /\ besetzung'[j].leiter = besetzung[j].leiter
           /\ besetzung'[j].vor = besetzung[j].vor
           /\ besetzung'[j].offen <=> (besetzung[j].offen /\ j # a.zeile)
      /\ a.neu # None => besetzung'[n + 1] = a.neu
  BY <1>5, FestschreibenZeilen DEF StabIInv, StabTypen
<1>7. /\ i \in 1..n /\ besetzung[i].rolle = r /\ besetzung[i].leiter /\ besetzung[i].offen
  BY <1>3, <1>6 DEF OffeneLeiter
<1>8. i \in DOMAIN besetzung'
  BY <1>6, <1>7
<1>9. ~besetzung'[i].offen /\ i = a.zeile
  BY <1>2, <1>6, <1>7, <1>8 DEF OffeneLeiter
<1>10. a # None /\ a \in StabAuftraege /\ a.art # "fuehrer" /\ StabAuftragPasst(w)
  BY <1>5 DEF StabFestschreiben, StabIInv, StabTypen, AuftraegePassen
<1>11. a.neu = None
  <2> SUFFICES ASSUME a.neu # None
               PROVE  FALSE
    OBVIOUS
  <2>1. a.art = "abloesen"
    BY <1>7, <1>9, <1>10 DEF StabAuftraege
  <2>2. /\ a.neu.rolle = r /\ a.neu.leiter /\ a.neu.offen
    BY <1>7, <1>9, <1>10, <2>1 DEF StabAuftragPasst
  <2>3. n + 1 \in OffeneLeiter(r)'
    BY <1>6, <2>2 DEF OffeneLeiter
  <2> QED
    BY <1>2, <2>3
<1>12. \A j \in DOMAIN besetzung' : besetzung'[j].vor # i
  BY <1>6, <1>7, <1>11 DEF StabIInv, AbgeloesteBleibenAbgeloest
<1> QED
  BY <1>6, <1>7, <1>9, <1>12

\* The staff page keeps its promise for any number of people, functions and workers:
\* one lead for each function that admits one, one chain of reliefs, no gap, and a unit
\* whose commander is the one of its history.
THEOREM StabHaelt == StabSpec => StabVersprechen
<1> DEFINE Luecke == (~stUmfang.korrektur /\ Gesamtampel # "red" /\ Gesamtampel' = "red") =>
       \E i \in DOMAIN besetzung :
         /\ besetzung[i].offen /\ ~besetzung'[i].offen
         /\ \A j \in DOMAIN besetzung' : besetzung'[j].vor # i
<1>1. StabSpec => []StabIInv
  BY StabAmAnfang, StabSchrittHaelt, PTL DEF StabSpec
<1>2. StabIInv => StabTypeOK
  <2> SUFFICES ASSUME StabIInv
               PROVE  StabTypeOK
    OBVIOUS
  <2>1. besetzung \in Seq(Besetzungen) /\ fuehrer \in Seq(Fuehrungen)
    BY DEF StabIInv, StabTypen
  <2>2. \A i \in DOMAIN besetzung : besetzung[i] \in Besetzungen
    BY <2>1
  <2>3. \A i \in DOMAIN fuehrer : fuehrer[i] \in Fuehrungen
    BY <2>1
  <2>4. \A i \in DOMAIN besetzung :
          /\ besetzung[i].rolle \in Rollen /\ besetzung[i].person \in Leute
          /\ i \in Nat /\ besetzung[i].vor \in Nat /\ besetzung[i].vor < i
    BY <2>1, <2>2 DEF StabIInv, Ketten, Besetzungen
  <2>5. \A i \in DOMAIN fuehrer :
          /\ fuehrer[i].person \in Leute
          /\ i \in Nat /\ fuehrer[i].vor \in Nat /\ fuehrer[i].vor < i
    BY <2>1, <2>3 DEF StabIInv, Ketten, Fuehrungen
  <2>6. \A i \in Nat, v \in Nat : v < i => v \in 0..(i - 1)
    OBVIOUS
  <2> QED
    BY <2>4, <2>5, <2>6 DEF StabIInv, StabTypen, StabTypeOK
<1>3. StabIInv => EinLeiter /\ EineNachfolge /\ ZeigerIstOffen /\ AnzeigeStimmt
  BY DEF StabIInv
<1>4. StabIInv /\ [StabNext]_stabVars => [Luecke]_stabVars
  BY KeineLuecke
<1>5. StabSpec => AbloeseOhneLuecke
  BY <1>1, <1>4, PTL DEF StabSpec, AbloeseOhneLuecke
<1> QED
  BY <1>1, <1>2, <1>3, <1>5, PTL DEF StabVersprechen

-----------------------------------------------------------------------------
(* What the program adds *)

Staende == {"ruht", "bereit", "geo", "ki", "tx", "fertig"}

\* What a request or task can hold: rows of the site, or ids of tasks.
VorgangPasst ==
  /\ vorgang \in [Vorgaenge -> [stand : Staende, gelesen : StelleZeilen \cup {None},
                                zeile : StelleZeilen \cup {None} \cup SUBSET Nat,
                                danach : SUBSET Felder]]
  /\ \A v \in Vorgaenge :
       /\ vorgang[v].stand \in {"bereit", "geo"} => anUmfang.teil = "stelle"
       /\ vorgang[v].stand = "ki" => anUmfang.teil \in {"stelle", "vorschlag"}
       /\ vorgang[v].stand = "tx" => anUmfang.teil = "vorschlag" /\ ~EinWorker

\* What a user set is there, and a section a user chose is not looked up again.
HandPasst ==
  /\ stelle \in StelleZeilen \cup {None} /\ anHand \subseteq Felder
  /\ stelle # None => anUmfang.teil = "stelle"
  /\ stelle = None => anHand = {}
  /\ \A f \in anHand : stelle[f] # None
  /\ "abschnitt" \in anHand => stelle.modus = "manual"

\* A request or task that waits has not touched what a user had set before it began.
ArbeitPasst(v) ==
  LET g == vorgang[v].gelesen
      z == vorgang[v].zeile
      h == anHand \ vorgang[v].danach
  IN  /\ stelle # None /\ g \in StelleZeilen /\ z \in StelleZeilen /\ z.modus = g.modus
      /\ vorgang[v].stand = "geo" => z.position = None
      /\ vorgang[v].stand = "ki" => z.prio = None
      /\ \A f \in h : g[f] # None /\ z[f] = g[f]
      /\ "abschnitt" \in h => z.modus = "manual"

StelleIInv ==
  /\ anUmfang \in AnUmfaenge /\ anAenderungen \in Nat
  /\ VorgangPasst /\ HandPasst
  /\ \A v \in Vorgaenge : anUmfang.teil = "stelle" /\ AnInArbeit(v) => ArbeitPasst(v)

\* With one worker the open suggestions are those of one answer and of the alarm.
VorschlagIInv ==
  /\ vorschlagNr \in Nat
  /\ vorschlaege \subseteq [id : 1..vorschlagNr, von : Vorgaenge,
                            source : {"ai_suggestion", "manual"}, erledigt : BOOLEAN]
  /\ \A t, u \in vorschlaege : t.id = u.id => t = u
  /\ EinWorker => \E x \in Vorgaenge :
       \A t \in vorschlaege : OffeneVorschlaege(t) => t.von \in {x, "alarm"}

\* The requests that save a prompt, and those that began no later than one of them.
Speichernde == {w \in Workers : promptTx[w] # None}
Aeltere(w) == {u \in Speichernde : promptTx[u].nr <= promptTx[w].nr}

\* What a request leaves of the versions, each of those begun before may add one to.
BleibenBegrenzt ==
  \A w \in Speichernde :
    Cardinality(prompts \ promptTx[w].weg) + Cardinality(Aeltere(w))
      <= MaxVersionen + Cardinality(anUmfang.worker)

\* With one worker the versions have a first, the last one saved, and it is passed on.
SpitzePasst ==
  EinWorker =>
    /\ prompts # {} => \E p \in prompts : /\ p.nr = letzterPrompt
                                          /\ \A q \in prompts \ {p} : q.version < p.version
    /\ \A w \in Speichernde : \A q \in prompts : q.version < promptTx[w].version

PromptIInv ==
  /\ sicherungen \in Nat /\ prompts \subseteq PromptZeilen /\ IsFiniteSet(prompts)
  /\ promptTx \in [Workers -> PromptTxZeilen \cup {None}]
  /\ Speichernde \subseteq anUmfang.worker
  /\ \A p \in prompts : p.version <= p.nr /\ p.nr <= sicherungen
  /\ \A p, q \in prompts : p.nr = q.nr => p = q
  /\ \A w \in Speichernde : /\ promptTx[w].version <= promptTx[w].nr
                            /\ promptTx[w].nr <= sicherungen
                            /\ \A p \in prompts : p.nr # promptTx[w].nr
  /\ \A w, u \in Speichernde : promptTx[w].nr = promptTx[u].nr => w = u
  /\ Cardinality(prompts) <= MaxVersionen + Cardinality(anUmfang.worker)
  /\ BleibenBegrenzt /\ SpitzePasst

AnIInv == StelleIInv /\ VorschlagIInv /\ PromptIInv

-----------------------------------------------------------------------------
(* The site *)

LEMMA MitAbschnittPasst ==
  ASSUME NEW z \in StelleZeilen
  PROVE  /\ MitAbschnitt(z) \in StelleZeilen
         /\ MitAbschnitt(z).modus = z.modus /\ MitAbschnitt(z).prio = z.prio
         /\ MitAbschnitt(z).position = z.position
         /\ z.modus = "manual" => MitAbschnitt(z) = z
  BY DEF MitAbschnitt, StelleZeilen

\* A commit writes over what a user set only if the user set it after the reading.
LEMMA FestschreibenPasst ==
  ASSUME StelleIInv, NEW v \in Vorgaenge, AnInArbeit(v), anUmfang.teil = "stelle",
         NEW z \in StelleZeilen, z.modus = vorgang[v].gelesen.modus,
         \A f \in anHand \ vorgang[v].danach : z[f] = vorgang[v].gelesen[f],
         VorgangFestschreiben(v, z), UNCHANGED <<anUmfang, anAenderungen>>
  PROVE  StelleIInv' /\ VonHandBleibt
<1> DEFINE g == vorgang[v].gelesen
           db == [f \in DOMAIN stelle |-> IF z[f] # g[f] THEN z[f] ELSE stelle[f]]
<1>1. /\ stelle \in StelleZeilen /\ g \in StelleZeilen /\ stelle # None
      /\ vorgang[v].danach \subseteq Felder
  BY DEF StelleIInv, ArbeitPasst, HandPasst, VorgangPasst
<1>2. stelle' = db /\ anHand' = {f \in anHand : z[f] = g[f]}
      /\ vorgang' = [vorgang EXCEPT ![v].stand = "fertig"]
  BY DEF VorgangFestschreiben, InDatenbank
<1>3. DOMAIN stelle = {"adresse", "position", "prio", "abschnitt", "modus"}
  BY <1>1 DEF StelleZeilen
<1>4. db = [adresse |-> db["adresse"], position |-> db["position"], prio |-> db["prio"],
            abschnitt |-> db["abschnitt"], modus |-> db["modus"]]
  BY <1>3
<1>5. /\ db["adresse"] \in {z.adresse, stelle.adresse}
      /\ db["position"] \in {z.position, stelle.position}
      /\ db["prio"] \in {z.prio, stelle.prio}
      /\ db["abschnitt"] \in {z.abschnitt, stelle.abschnitt}
      /\ db["modus"] = stelle.modus
  BY <1>3
<1> HIDE DEF db
<1>6. db \in StelleZeilen /\ db.modus = stelle.modus
  BY <1>1, <1>4, <1>5 DEF StelleZeilen
<1>7. stelle' # None
  BY <1>2, <1>6, AnreicherungAssumption
<1>8. anHand \subseteq Felder /\ \A f \in anHand : f \in DOMAIN stelle
  BY <1>3 DEF StelleIInv, HandPasst, Felder
<1>9. \A f \in anHand' : stelle'[f] = stelle[f]
  BY <1>2, <1>8 DEF db
<1>10. HandPasst'
  <2>1. \A f \in anHand' : stelle'[f] # None
    BY <1>2, <1>9 DEF StelleIInv, HandPasst
  <2>2. "abschnitt" \in anHand' => stelle'.modus = "manual"
    BY <1>2, <1>6 DEF StelleIInv, HandPasst
  <2> QED
    BY <1>2, <1>6, <1>7, <1>8, <2>1, <2>2 DEF HandPasst
<1>11. VorgangPasst'
  BY <1>2 DEF StelleIInv, VorgangPasst, Staende, EinWorker
<1>12. \A u \in Vorgaenge : anUmfang'.teil = "stelle" /\ AnInArbeit(u)' => ArbeitPasst(u)'
  <2> SUFFICES ASSUME NEW u \in Vorgaenge, AnInArbeit(u)'
               PROVE  ArbeitPasst(u)'
    OBVIOUS
  <2>1. u # v /\ vorgang'[u] = vorgang[u]
    BY <1>2 DEF StelleIInv, VorgangPasst, AnInArbeit
  <2>2. ArbeitPasst(u)
    BY <2>1 DEF StelleIInv, AnInArbeit
  <2> QED
    BY <1>2, <1>7, <2>1, <2>2 DEF ArbeitPasst
<1>13. VonHandBleibt
  <2> SUFFICES ASSUME NEW f \in anHand, f \notin anHand' \/ stelle'[f] # stelle[f]
               PROVE  f \in vorgang[v].danach
    BY <1>2 DEF VonHandBleibt, StelleIInv, VorgangPasst, AnInArbeit
  <2>1. z[f] # g[f]
    BY <1>2, <1>9
  <2> QED
    BY <2>1
<1> QED
  BY <1>10, <1>11, <1>12, <1>13 DEF StelleIInv

\* What a user sets is noted in those that wait.
LEMMA VonHandPasst ==
  ASSUME StelleIInv, stelle # None, NEW z \in StelleZeilen, NEW f \in Felder,
         VonHand(z, {f}), "abschnitt" \in anHand => z.modus = "manual",
         f = "abschnitt" => z.modus = "manual",
         \A e \in anHand \ {f} : z[e] = stelle[e]
  PROVE  StelleIInv' /\ VonHandBleibt
<1>1. /\ stelle' = z /\ anAenderungen' = anAenderungen + 1
      /\ anHand' = (anHand \ {f}) \cup {e \in {f} : z[e] # None}
      /\ vorgang' = [v \in Vorgaenge |->
           IF AnInArbeit(v) THEN [vorgang[v] EXCEPT !.danach = @ \cup {f}] ELSE vorgang[v]]
      /\ UNCHANGED anUmfang
  BY DEF VonHand, NochEine
<1>2. z # None
  BY AnreicherungAssumption
<1>3. HandPasst'
  BY <1>1, <1>2 DEF StelleIInv, HandPasst
<1>4. \A v \in Vorgaenge :
        /\ vorgang'[v] \in [stand : Staende, gelesen : StelleZeilen \cup {None},
             zeile : StelleZeilen \cup {None} \cup SUBSET Nat, danach : SUBSET Felder]
        /\ vorgang'[v].stand = vorgang[v].stand /\ vorgang'[v].gelesen = vorgang[v].gelesen
        /\ vorgang'[v].zeile = vorgang[v].zeile
        /\ AnInArbeit(v) => vorgang'[v].danach = vorgang[v].danach \cup {f}
  BY <1>1 DEF StelleIInv, VorgangPasst
<1>5. VorgangPasst'
  BY <1>1, <1>4 DEF StelleIInv, VorgangPasst, EinWorker
<1>6. \A v \in Vorgaenge : anUmfang'.teil = "stelle" /\ AnInArbeit(v)' => ArbeitPasst(v)'
  <2> SUFFICES ASSUME NEW v \in Vorgaenge, anUmfang.teil = "stelle", AnInArbeit(v)'
               PROVE  ArbeitPasst(v)'
    BY <1>1
  <2>1. AnInArbeit(v)
    BY <1>4 DEF AnInArbeit
  <2>2. ArbeitPasst(v)
    BY <2>1 DEF StelleIInv
  <2>3. anHand' \ vorgang'[v].danach \subseteq anHand \ vorgang[v].danach
    BY <1>1, <1>4, <2>1
  <2> QED
    BY <1>1, <1>2, <1>4, <2>2, <2>3 DEF ArbeitPasst
<1>7. VonHandBleibt
  BY <1>1 DEF StelleIInv, VonHandBleibt
<1> QED
  BY <1>1, <1>3, <1>5, <1>6, <1>7 DEF StelleIInv

\* A request or task that begins to wait holds the row as it is, but for the address and
\* the section the program looked up.
LEMMA BeginnenPasst ==
  ASSUME StelleIInv, stelle # None, NEW v \in Vorgaenge, NEW s \in {"geo", "ki"},
         NEW z \in StelleZeilen, vorgang' = Setze(v, s, stelle, z),
         z.modus = stelle.modus, s = "geo" => z.position = None, s = "ki" => z.prio = None,
         \A f \in anHand : z[f] = stelle[f],
         UNCHANGED <<anUmfang, stelle, anHand>>,
         anAenderungen' \in Nat
  PROVE  StelleIInv' /\ VonHandBleibt
<1> DEFINE r == [stand |-> s, gelesen |-> stelle, zeile |-> z, danach |-> {}]
<1>1. /\ stelle \in StelleZeilen /\ anUmfang.teil = "stelle"
      /\ vorgang \in [Vorgaenge -> [stand : Staende, gelesen : StelleZeilen \cup {None},
             zeile : StelleZeilen \cup {None} \cup SUBSET Nat, danach : SUBSET Felder]]
  BY DEF StelleIInv, HandPasst, VorgangPasst
<1>2. /\ r \in [stand : Staende, gelesen : StelleZeilen \cup {None},
             zeile : StelleZeilen \cup {None} \cup SUBSET Nat, danach : SUBSET Felder]
      /\ r.stand = s /\ r.gelesen = stelle /\ r.zeile = z /\ r.danach = {}
  BY <1>1 DEF Staende
<1>3. vorgang' = [vorgang EXCEPT ![v] = r]
  BY DEF Setze
<1> HIDE DEF r
<1>4. \A u \in Vorgaenge : vorgang'[u] = IF u = v THEN r ELSE vorgang[u]
  BY <1>1, <1>3
<1>5. VorgangPasst'
  BY <1>1, <1>2, <1>3, <1>4 DEF StelleIInv, VorgangPasst, EinWorker
<1>6. HandPasst'
  BY DEF StelleIInv, HandPasst
<1>7. \A u \in Vorgaenge : anUmfang'.teil = "stelle" /\ AnInArbeit(u)' => ArbeitPasst(u)'
  <2> SUFFICES ASSUME NEW u \in Vorgaenge, AnInArbeit(u)'
               PROVE  ArbeitPasst(u)'
    OBVIOUS
  <2>1. CASE u = v
    BY <1>1, <1>2, <1>4, <2>1 DEF ArbeitPasst, StelleIInv, HandPasst
  <2>2. CASE u # v
    BY <1>1, <1>4, <2>2 DEF ArbeitPasst, StelleIInv, AnInArbeit
  <2> QED
    BY <2>1, <2>2
<1>8. VonHandBleibt
  BY DEF VonHandBleibt
<1> QED
  BY <1>5, <1>6, <1>7, <1>8 DEF StelleIInv

\* A step after which a request or task no longer waits, or does not yet.
LEMMA AndersPasst ==
  ASSUME StelleIInv, NEW v \in Vorgaenge, NEW s \in Staende \ {"geo"},
         s = "ki" => anUmfang.teil = "vorschlag",
         s = "bereit" => anUmfang.teil = "stelle",
         s = "tx" => anUmfang.teil = "vorschlag" /\ ~EinWorker,
         vorgang' \in [Vorgaenge -> [stand : Staende, gelesen : StelleZeilen \cup {None},
                         zeile : StelleZeilen \cup {None} \cup SUBSET Nat, danach : SUBSET Felder]],
         vorgang'[v].stand = s, \A u \in Vorgaenge \ {v} : vorgang'[u] = vorgang[u],
         UNCHANGED anUmfang, anAenderungen' \in Nat, HandPasst',
         anHand' \subseteq anHand \/ stelle = None, stelle # None => stelle' # None
  PROVE  StelleIInv'
<1>1. VorgangPasst'
  BY DEF StelleIInv, VorgangPasst, EinWorker
<1>2. \A u \in Vorgaenge : anUmfang'.teil = "stelle" /\ AnInArbeit(u)' => ArbeitPasst(u)'
  <2> SUFFICES ASSUME NEW u \in Vorgaenge, anUmfang.teil = "stelle", AnInArbeit(u)'
               PROVE  ArbeitPasst(u)'
    OBVIOUS
  <2>1. u # v /\ vorgang'[u] = vorgang[u]
    BY DEF AnInArbeit
  <2>2. ArbeitPasst(u)
    BY <2>1 DEF StelleIInv, AnInArbeit
  <2> QED
    BY <2>1, <2>2 DEF ArbeitPasst
<1> QED
  BY <1>1, <1>2 DEF StelleIInv

\* The alarm's task goes on with a row that keeps what users set before it began.
LEMMA AlarmWeiterPasst ==
  ASSUME StelleIInv, NEW v \in Vorgaenge, AnInArbeit(v), anUmfang.teil = "stelle",
         NEW z \in StelleZeilen, z.modus = vorgang[v].gelesen.modus,
         \A f \in anHand \ vorgang[v].danach : z[f] = vorgang[v].gelesen[f],
         AlarmWeiter(v, vorgang[v].gelesen, z), UNCHANGED <<anUmfang, anAenderungen>>
  PROVE  StelleIInv' /\ VonHandBleibt
<1> DEFINE g == vorgang[v].gelesen
           m == MitAbschnitt(z)
           h == anHand \ vorgang[v].danach
           r == [stand |-> "ki", gelesen |-> g, zeile |-> m, danach |-> vorgang[v].danach]
<1>1. ArbeitPasst(v) /\ vorgang[v].danach \subseteq Felder
  BY DEF StelleIInv, VorgangPasst
<1>2. /\ m \in StelleZeilen /\ m.modus = z.modus /\ m.prio = z.prio
      /\ m.position = z.position /\ (z.modus = "manual" => m = z)
  BY MitAbschnittPasst
<1>3. "abschnitt" \in h => z.modus = "manual"
  BY <1>1 DEF ArbeitPasst
<1>4. h \subseteq Felder
  BY DEF StelleIInv, HandPasst
<1> HIDE DEF m
<1>5. \A f \in h : m[f] = g[f]
  <2> SUFFICES ASSUME NEW f \in h
               PROVE  m[f] = z[f]
    OBVIOUS
  <2>1. f \in {"position", "prio", "abschnitt"}
    BY <1>4 DEF Felder
  <2>2. f = "abschnitt" => m = z
    BY <1>2, <1>3
  <2>3. m["position"] = z["position"] /\ m["prio"] = z["prio"]
    BY <1>2
  <2> QED
    BY <2>1, <2>2, <2>3
<1>6. CASE ~BrauchtPrio(m)
  <2>1. VorgangFestschreiben(v, m)
    BY <1>6 DEF AlarmWeiter, m
  <2> QED
    BY <1>2, <1>5, <2>1, FestschreibenPasst
<1>7. CASE BrauchtPrio(m)
  <2>1. vorgang' = [vorgang EXCEPT ![v] = r] /\ UNCHANGED <<stelle, anHand>>
    BY <1>7 DEF AlarmWeiter, stelleVars, m
  <2>2. /\ r \in [stand : Staende, gelesen : StelleZeilen \cup {None},
               zeile : StelleZeilen \cup {None} \cup SUBSET Nat, danach : SUBSET Felder]
        /\ r.stand = "ki" /\ r.gelesen = g /\ r.zeile = m /\ r.danach = vorgang[v].danach
    BY <1>1, <1>2 DEF Staende, ArbeitPasst
  <2> HIDE DEF r
  <2>3. /\ vorgang \in [Vorgaenge -> [stand : Staende, gelesen : StelleZeilen \cup {None},
               zeile : StelleZeilen \cup {None} \cup SUBSET Nat, danach : SUBSET Felder]]
        /\ \A u \in Vorgaenge : vorgang'[u] = IF u = v THEN r ELSE vorgang[u]
    BY <2>1 DEF StelleIInv, VorgangPasst
  <2>4. VorgangPasst'
    BY <2>1, <2>2, <2>3 DEF StelleIInv, VorgangPasst, EinWorker
  <2>5. HandPasst'
    BY <2>1 DEF StelleIInv, HandPasst
  <2>6. \A u \in Vorgaenge : anUmfang'.teil = "stelle" /\ AnInArbeit(u)' => ArbeitPasst(u)'
    <3> SUFFICES ASSUME NEW u \in Vorgaenge, AnInArbeit(u)'
                 PROVE  ArbeitPasst(u)'
      OBVIOUS
    <3>1. CASE u = v
      <4>1. m.prio = None
        BY <1>7 DEF BrauchtPrio
      <4>2. \A f \in h : g[f] # None
        BY <1>1 DEF ArbeitPasst
      <4> QED
        BY <1>1, <1>2, <1>3, <1>5, <2>1, <2>2, <2>3, <3>1, <4>1, <4>2 DEF ArbeitPasst
    <3>2. CASE u # v
      BY <2>1, <2>3, <3>2 DEF ArbeitPasst, StelleIInv, AnInArbeit
    <3> QED
      BY <3>1, <3>2
  <2>7. VonHandBleibt
    BY <2>1 DEF VonHandBleibt
  <2> QED
    BY <2>4, <2>5, <2>6, <2>7 DEF StelleIInv
<1> QED
  BY <1>6, <1>7

\* A row that is created was filled in and then given its section.
LEMMA ZeileForm ==
  ASSUME NEW art, NEW z \in Zeilen(art)
  PROVE  \E a \in Adressen \cup {None}, p \in Orte \cup {None}, q \in Prioritaeten \cup {None} :
           z = Stellenzeile(a, p, q)
<1>1. PrioBeginn(art) \subseteq Prioritaeten \cup {None}
  BY DEF PrioBeginn
<1> QED
  BY <1>1 DEF Zeilen

LEMMA AnlegenPasst ==
  ASSUME StelleIInv, NEW art \in {"seite", "alarm", "karte"}, NEW z \in Zeilen(art),
         art = "karte" => z.position # None, StelleAnlegen(art, z)
  PROVE  StelleIInv' /\ VonHandBleibt
<1>1. z \in StelleZeilen
  <2> PICK a \in Adressen \cup {None}, p \in Orte \cup {None}, q \in Prioritaeten \cup {None} :
        z = Stellenzeile(a, p, q)
    BY ZeileForm
  <2> DEFINE y == [adresse |-> a, position |-> p, prio |-> q, abschnitt |-> None, modus |-> "auto"]
  <2>1. y \in StelleZeilen
    BY DEF StelleZeilen
  <2> QED
    BY <2>1, MitAbschnittPasst DEF Stellenzeile
<1>2. z # None
  BY <1>1, AnreicherungAssumption
<1>3. HandPasst'
  BY <1>1, <1>2 DEF StelleAnlegen, HandPasst, Felder
<1>4. VonHandBleibt
  BY DEF StelleAnlegen, StelleIInv, HandPasst, VonHandBleibt
<1>5. CASE art = "alarm"
  <2>1. "alarm" \in Vorgaenge
    BY AnreicherungAssumption
  <2>2. /\ vorgang' = [vorgang EXCEPT !["alarm"].stand = "bereit"]
        /\ UNCHANGED <<anUmfang, anAenderungen>> /\ anHand' = {} /\ anUmfang.teil = "stelle"
        /\ stelle = None
    BY <1>5 DEF StelleAnlegen
  <2>3. /\ vorgang' \in [Vorgaenge -> [stand : Staende, gelesen : StelleZeilen \cup {None},
               zeile : StelleZeilen \cup {None} \cup SUBSET Nat, danach : SUBSET Felder]]
        /\ vorgang'["alarm"].stand = "bereit"
        /\ \A u \in Vorgaenge \ {"alarm"} : vorgang'[u] = vorgang[u]
    BY <2>1, <2>2 DEF StelleIInv, VorgangPasst, Staende
  <2>4. "bereit" \in Staende \ {"geo"} /\ anAenderungen' \in Nat
    BY <2>2 DEF Staende, StelleIInv
  <2> QED
    BY <1>3, <1>4, <2>1, <2>2, <2>3, <2>4, AndersPasst
<1>6. CASE art # "alarm"
  <2>1. /\ UNCHANGED <<vorgang, anUmfang, anAenderungen>> /\ stelle = None
        /\ anUmfang.teil = "stelle"
    BY <1>6 DEF StelleAnlegen
  <2>2. \A u \in Vorgaenge : ~AnInArbeit(u)
    BY <2>1 DEF StelleIInv, ArbeitPasst
  <2> QED
    BY <1>3, <1>4, <2>1, <2>2 DEF StelleIInv, VorgangPasst, AnInArbeit, EinWorker
<1> QED
  BY <1>5, <1>6

\* The row of a site does not turn into a value of itself with another content.
LEMMA AlarmBeginnenPasst ==
  ASSUME StelleIInv, AlarmBeginnen
  PROVE  StelleIInv' /\ VonHandBleibt
<1> DEFINE z == MitAbschnitt(stelle)
<1>1. /\ "alarm" \in Vorgaenge /\ stelle # None /\ stelle \in StelleZeilen
      /\ UNCHANGED <<anUmfang, anAenderungen>> /\ anAenderungen' \in Nat
  BY AnreicherungAssumption DEF AlarmBeginnen, StelleIInv, HandPasst
<1>2. /\ z \in StelleZeilen /\ z.modus = stelle.modus /\ z.prio = stelle.prio
      /\ z.position = stelle.position /\ (stelle.modus = "manual" => z = stelle)
  BY <1>1, MitAbschnittPasst
<1>3. CASE BrauchtPosition(stelle)
  <2>1. vorgang' = Setze("alarm", "geo", stelle, stelle) /\ UNCHANGED <<stelle, anHand>>
        /\ stelle.position = None
    BY <1>3 DEF AlarmBeginnen, stelleVars, BrauchtPosition
  <2> QED
    BY <1>1, <2>1, BeginnenPasst
<1> HIDE DEF z
<1>4. anHand \subseteq Felder /\ ("abschnitt" \in anHand => stelle.modus = "manual")
  BY DEF StelleIInv, HandPasst
<1>5. \A f \in anHand : z[f] = stelle[f]
  BY <1>2, <1>4 DEF Felder
<1>6. CASE ~BrauchtPosition(stelle) /\ BrauchtPrio(stelle)
  <2>1. vorgang' = Setze("alarm", "ki", stelle, z) /\ UNCHANGED <<stelle, anHand>>
        /\ stelle.prio = None
    BY <1>6 DEF AlarmBeginnen, stelleVars, BrauchtPrio, z
  <2> QED
    BY <1>1, <1>2, <1>5, <2>1, BeginnenPasst
<1>7. CASE ~BrauchtPosition(stelle) /\ ~BrauchtPrio(stelle)
  <2>1. /\ vorgang' = [vorgang EXCEPT !["alarm"].stand = "fertig"]
        /\ stelle' = z /\ UNCHANGED anHand
    BY <1>7 DEF AlarmBeginnen, z
  <2>2. z # None
    BY <1>2, AnreicherungAssumption
  <2>3. HandPasst'
    BY <1>1, <1>2, <1>5, <2>1, <2>2 DEF StelleIInv, HandPasst
  <2>4. VonHandBleibt
    BY <1>5, <2>1 DEF VonHandBleibt
  <2>5. /\ vorgang' \in [Vorgaenge -> [stand : Staende, gelesen : StelleZeilen \cup {None},
               zeile : StelleZeilen \cup {None} \cup SUBSET Nat, danach : SUBSET Felder]]
        /\ vorgang'["alarm"].stand = "fertig"
        /\ \A u \in Vorgaenge \ {"alarm"} : vorgang'[u] = vorgang[u]
    BY <1>1, <2>1 DEF StelleIInv, VorgangPasst, Staende
  <2>6. "fertig" \in Staende \ {"geo"}
    BY DEF Staende
  <2> QED
    BY <1>1, <2>1, <2>2, <2>3, <2>4, <2>5, <2>6, AndersPasst
<1> QED
  BY <1>3, <1>6, <1>7

LEMMA BearbeitenPasst ==
  ASSUME StelleIInv, NEW v \in Vorgaenge, NEW a \in Adressen \cup {None},
         BearbeitenBeginnen(v, a)
  PROVE  StelleIInv' /\ VonHandBleibt
<1> DEFINE z == [stelle EXCEPT !.adresse = a]
<1>1. /\ stelle # None /\ stelle \in StelleZeilen /\ UNCHANGED <<anUmfang, anHand>>
      /\ anAenderungen' = anAenderungen + 1 /\ anAenderungen \in Nat
  BY DEF BearbeitenBeginnen, NochEine, StelleIInv, HandPasst
<1>2. /\ z \in StelleZeilen /\ z.modus = stelle.modus /\ z.position = stelle.position
      /\ z.prio = stelle.prio /\ z.abschnitt = stelle.abschnitt
  BY <1>1 DEF StelleZeilen
<1>3. \/ BrauchtPosition(z) /\ vorgang' = Setze(v, "geo", stelle, z) /\ UNCHANGED stelle
      \/ stelle' = z /\ vorgang' = [vorgang EXCEPT ![v].stand = "fertig"]
  BY DEF BearbeitenBeginnen
<1>4. BrauchtPosition(z) => z.position = None
  BY DEF BrauchtPosition
<1> HIDE DEF z
<1>5. anHand \subseteq Felder
  BY DEF StelleIInv, HandPasst
<1>6. \A f \in anHand : z[f] = stelle[f]
  BY <1>2, <1>5 DEF Felder
<1>7. anAenderungen' \in Nat /\ VonHandBleibt
  BY <1>1 DEF VonHandBleibt
<1>8. CASE BrauchtPosition(z) /\ vorgang' = Setze(v, "geo", stelle, z) /\ UNCHANGED stelle
  BY <1>1, <1>2, <1>4, <1>6, <1>7, <1>8, BeginnenPasst
<1>9. CASE stelle' = z /\ vorgang' = [vorgang EXCEPT ![v].stand = "fertig"]
  <2>1. z # None
    BY <1>2, AnreicherungAssumption
  <2>2. HandPasst'
    BY <1>1, <1>2, <1>6, <1>9, <2>1 DEF StelleIInv, HandPasst
  <2>3. /\ vorgang' \in [Vorgaenge -> [stand : Staende, gelesen : StelleZeilen \cup {None},
               zeile : StelleZeilen \cup {None} \cup SUBSET Nat, danach : SUBSET Felder]]
        /\ vorgang'[v].stand = "fertig"
        /\ \A u \in Vorgaenge \ {v} : vorgang'[u] = vorgang[u]
    BY <1>9 DEF StelleIInv, VorgangPasst, Staende
  <2>4. "fertig" \in Staende \ {"geo"}
    BY DEF Staende
  <2> QED
    BY <1>1, <1>7, <1>9, <2>1, <2>2, <2>3, <2>4, AndersPasst
<1> QED
  BY <1>3, <1>8, <1>9

LEMMA GeoAntwortPasst ==
  ASSUME StelleIInv, NEW v \in Vorgaenge, NEW p \in Orte \cup {None}, GeoAntwort(v, p)
  PROVE  StelleIInv' /\ VonHandBleibt
<1> DEFINE z == [vorgang[v].zeile EXCEPT !.position = p]
           h == anHand \ vorgang[v].danach
<1>1. /\ AnInArbeit(v) /\ anUmfang.teil = "stelle" /\ UNCHANGED <<anUmfang, anAenderungen>>
  BY DEF GeoAntwort, AnInArbeit, StelleIInv, VorgangPasst
<1>2. ArbeitPasst(v) /\ vorgang[v].zeile.position = None
  BY <1>1 DEF StelleIInv, ArbeitPasst, GeoAntwort
<1>3. /\ z \in StelleZeilen /\ z.modus = vorgang[v].zeile.modus
      /\ \A f \in Felder \ {"position"} : z[f] = vorgang[v].zeile[f]
  BY <1>2 DEF ArbeitPasst, StelleZeilen, Felder
<1>4. h \subseteq Felder
  BY DEF StelleIInv, HandPasst
<1>5. z.modus = vorgang[v].gelesen.modus /\ \A f \in h : z[f] = vorgang[v].gelesen[f]
  BY <1>2, <1>3, <1>4 DEF ArbeitPasst
<1>6. \/ AlarmWeiter(v, vorgang[v].gelesen, z)
      \/ VorgangFestschreiben(v, z)
  BY DEF GeoAntwort
<1> HIDE DEF z
<1>7. CASE AlarmWeiter(v, vorgang[v].gelesen, z)
  BY <1>1, <1>3, <1>5, <1>7, AlarmWeiterPasst
<1>8. CASE VorgangFestschreiben(v, z)
  BY <1>1, <1>3, <1>5, <1>8, FestschreibenPasst
<1> QED
  BY <1>6, <1>7, <1>8

LEMMA PrioAntwortPasst ==
  ASSUME StelleIInv, NEW v \in Vorgaenge, NEW q \in KiAntworten, PrioAntwort(v, q)
  PROVE  StelleIInv' /\ VonHandBleibt
<1> DEFINE z == IF q = None THEN vorgang[v].zeile ELSE [vorgang[v].zeile EXCEPT !.prio = q]
           h == anHand \ vorgang[v].danach
<1>1. /\ AnInArbeit(v) /\ anUmfang.teil = "stelle" /\ UNCHANGED <<anUmfang, anAenderungen>>
      /\ VorgangFestschreiben(v, z)
  BY DEF PrioAntwort, AnInArbeit
<1>2. ArbeitPasst(v) /\ vorgang[v].zeile.prio = None
  BY <1>1 DEF StelleIInv, ArbeitPasst, PrioAntwort
<1>3. /\ z \in StelleZeilen /\ z.modus = vorgang[v].zeile.modus
      /\ \A f \in Felder \ {"prio"} : z[f] = vorgang[v].zeile[f]
  BY <1>2 DEF ArbeitPasst, StelleZeilen, Felder, KiAntworten
<1>4. h \subseteq Felder
  BY DEF StelleIInv, HandPasst
<1>5. z.modus = vorgang[v].gelesen.modus /\ \A f \in h : z[f] = vorgang[v].gelesen[f]
  BY <1>2, <1>3, <1>4 DEF ArbeitPasst
<1> HIDE DEF z
<1> QED
  BY <1>1, <1>3, <1>5, FestschreibenPasst

LEMMA VonHandSetzenPasst ==
  ASSUME StelleIInv,
         \/ \E q \in Prioritaeten \cup {None} : PrioSetzen(q)
         \/ \E p \in Orte : PinSetzen(p)
         \/ \E s \in {AbschnittVon[p] : p \in Orte} : SektorSetzen(s)
  PROVE  StelleIInv' /\ VonHandBleibt
<1>1. stelle # None /\ stelle \in StelleZeilen /\ anHand \subseteq Felder
      /\ ("abschnitt" \in anHand => stelle.modus = "manual")
  BY DEF StelleIInv, HandPasst, PrioSetzen, PinSetzen, SektorSetzen
<1>2. ASSUME NEW q \in Prioritaeten \cup {None}, PrioSetzen(q)
      PROVE  StelleIInv' /\ VonHandBleibt
  <2> DEFINE z == [stelle EXCEPT !.prio = q]
  <2>1. z \in StelleZeilen /\ z.modus = stelle.modus
        /\ \A e \in Felder \ {"prio"} : z[e] = stelle[e]
    BY <1>1 DEF StelleZeilen, Felder
  <2>2. VonHand(z, {"prio"}) /\ "prio" \in Felder
    BY <1>2 DEF PrioSetzen, Felder
  <2> HIDE DEF z
  <2> QED
    BY <1>1, <2>1, <2>2, VonHandPasst
<1>3. ASSUME NEW p \in Orte, PinSetzen(p)
      PROVE  StelleIInv' /\ VonHandBleibt
  <2> DEFINE y == [stelle EXCEPT !.position = p]
             z == MitAbschnitt(y)
  <2>1. y \in StelleZeilen /\ y.modus = stelle.modus
        /\ \A e \in Felder \ {"position"} : y[e] = stelle[e]
    BY <1>1 DEF StelleZeilen, Felder
  <2>2. VonHand(z, {"position"}) /\ "position" \in Felder
    BY <1>3 DEF PinSetzen, Felder
  <2> HIDE DEF y
  <2>3. /\ z \in StelleZeilen /\ z.modus = y.modus /\ z.prio = y.prio
        /\ (y.modus = "manual" => z = y)
    BY <2>1, MitAbschnittPasst
  <2> HIDE DEF z
  <2>4. \A e \in anHand \ {"position"} : z[e] = stelle[e]
    BY <1>1, <2>1, <2>3 DEF Felder
  <2> QED
    BY <1>1, <2>1, <2>2, <2>3, <2>4, VonHandPasst
<1>4. ASSUME NEW s \in {AbschnittVon[p] : p \in Orte}, SektorSetzen(s)
      PROVE  StelleIInv' /\ VonHandBleibt
  <2> DEFINE z == [stelle EXCEPT !.abschnitt = s, !.modus = "manual"]
  <2>1. z \in StelleZeilen /\ z.modus = "manual"
        /\ \A e \in Felder \ {"abschnitt"} : z[e] = stelle[e]
    BY <1>1 DEF StelleZeilen, Felder
  <2>2. VonHand(z, {"abschnitt"}) /\ "abschnitt" \in Felder
    BY <1>4 DEF SektorSetzen, Felder
  <2> HIDE DEF z
  <2> QED
    BY <1>1, <2>1, <2>2, VonHandPasst
<1> QED
  BY <1>2, <1>3, <1>4

\* The steps of suggestions and prompts leave the site alone.
LEMMA StelleRuht ==
  ASSUME StelleIInv, UNCHANGED <<anUmfang, stelle, anHand, vorgang>>, anAenderungen' \in Nat
  PROVE  StelleIInv' /\ VonHandBleibt
BY DEF StelleIInv, VorgangPasst, HandPasst, ArbeitPasst, AnInArbeit, EinWorker, VonHandBleibt

LEMMA VorschlagVorgang ==
  ASSUME StelleIInv, NEW v \in Vorgaenge,
         \/ VorschlaegeAnfordern(v)
         \/ \E n \in 0..2 : VorschlagAntwort(v, n) \/ VorschlagSchreiben(v, n),
         VorschlagIInv
  PROVE  StelleIInv' /\ VonHandBleibt
<1> DEFINE R == [stand : Staende, gelesen : StelleZeilen \cup {None},
                 zeile : StelleZeilen \cup {None} \cup SUBSET Nat, danach : SUBSET Felder]
           offen == {t.id : t \in Abgeloeste(v)}
<1>1. /\ UNCHANGED <<anUmfang, anAenderungen, stelle, anHand>> /\ anAenderungen' \in Nat
      /\ anUmfang.teil = "vorschlag" /\ HandPasst'
  BY DEF VorschlaegeAnfordern, VorschlagAntwort, VorschlagSchreiben, stelleVars, StelleIInv,
         HandPasst
<1>2. vorgang \in [Vorgaenge -> R]
  BY DEF StelleIInv, VorgangPasst
<1>3. offen \in SUBSET Nat
  BY DEF VorschlagIInv, Abgeloeste
<1> HIDE DEF offen
<1>4. PICK s \in {"ki", "tx", "fertig"} :
        /\ vorgang' \in [Vorgaenge -> R] /\ vorgang'[v].stand = s
        /\ \A u \in Vorgaenge \ {v} : vorgang'[u] = vorgang[u]
        /\ s = "tx" => ~EinWorker
  <2>1. CASE VorschlaegeAnfordern(v)
    <3> DEFINE r == [stand |-> "ki", gelesen |-> None, zeile |-> None, danach |-> {}]
    <3>1. r \in R /\ r.stand = "ki"
      BY DEF Staende
    <3>2. vorgang' = [vorgang EXCEPT ![v] = r]
      BY <2>1 DEF VorschlaegeAnfordern, Setze
    <3> HIDE DEF r, R
    <3> QED
      BY <1>2, <3>1, <3>2
  <2>2. CASE vorgang' = [vorgang EXCEPT ![v].stand = "fertig"]
    BY <1>2, <2>2 DEF Staende
  <2>3. CASE vorgang' = [vorgang EXCEPT ![v].stand = "tx", ![v].zeile = offen] /\ ~EinWorker
    BY <1>2, <1>3, <2>3 DEF Staende
  <2> QED
    BY <2>1, <2>2, <2>3 DEF VorschlagAntwort, VorschlagSchreiben, Ersetzen, EinWorker, offen
<1>5. s \in Staende \ {"geo"}
  BY DEF Staende
<1>6. VonHandBleibt
  BY <1>1 DEF VonHandBleibt
<1> QED
  BY <1>1, <1>4, <1>5, <1>6, AndersPasst

\* No step touches what a user set but those that VonHandBleibt names.
LEMMA StelleSchritt ==
  ASSUME StelleIInv, VorschlagIInv, AnNext
  PROVE  StelleIInv' /\ VonHandBleibt
<1>1. ASSUME NEW v \in Vorgaenge,
             \/ VorschlaegeAnfordern(v)
             \/ \E n \in 0..2 : VorschlagAntwort(v, n) \/ (n > 0 /\ VorschlagSchreiben(v, n))
      PROVE  StelleIInv' /\ VonHandBleibt
  BY <1>1, VorschlagVorgang
<1>2. ASSUME NEW t \in vorschlaege, KiAnnehmen(t) \/ KiVerwerfen(t) \/ Erledigen(t)
      PROVE  StelleIInv' /\ VonHandBleibt
  <2>1. UNCHANGED <<anUmfang, stelle, anHand, vorgang>> /\ anAenderungen' = anAenderungen + 1
    BY <1>2 DEF KiAnnehmen, KiVerwerfen, Erledigen, VorschlagAendern, stelleVars, NochEine
  <2> QED
    BY <2>1, StelleRuht DEF StelleIInv
<1>3. ASSUME NEW w \in Workers, PromptLesen(w) \/ PromptSpeichern(w) \/ PromptVerweigert(w)
      PROVE  StelleIInv' /\ VonHandBleibt
  <2>1. UNCHANGED <<anUmfang, stelle, anHand, vorgang, anAenderungen>>
    BY <1>3 DEF PromptLesen, PromptSpeichern, PromptVerweigert, stelleVars
  <2> QED
    BY <2>1, StelleRuht DEF StelleIInv
<1> QED
  BY <1>1, <1>2, <1>3, AnlegenPasst, AlarmBeginnenPasst, VonHandSetzenPasst, BearbeitenPasst,
     GeoAntwortPasst, PrioAntwortPasst DEF AnNext

-----------------------------------------------------------------------------
(* Suggested tasks *)

LEMMA VorschlagRuht ==
  ASSUME VorschlagIInv, UNCHANGED <<anUmfang, vorschlagVars>>
  PROVE  VorschlagIInv' /\ AngenommeneBleiben
<1>1. \A t \in vorschlaege : t \in vorschlaege'
  BY DEF vorschlagVars
<1>2. AngenommeneBleiben
  BY <1>1 DEF AngenommeneBleiben
<1>3. VorschlagIInv'
  BY DEF VorschlagIInv, vorschlagVars, OffeneVorschlaege, EinWorker
<1> QED
  BY <1>2, <1>3

\* An answer takes the place of what it removes.
LEMMA ErsetzenPasst ==
  ASSUME VorschlagIInv, NEW v \in Vorgaenge, NEW alte, NEW n \in 1..2, Ersetzen(v, alte, n),
         UNCHANGED anUmfang,
         EinWorker => v = "alarm" \/ \A t \in vorschlaege : OffeneVorschlaege(t) => t.id \in alte,
         \A t \in vorschlaege : t.id \in alte =>
           OffeneVorschlaege(t) \/ \E u \in Vorgaenge :
             vorgang[u].stand = "tx" /\ t.id \in vorgang[u].zeile /\ vorgang'[u].stand = "fertig"
  PROVE  VorschlagIInv' /\ AngenommeneBleiben
<1> DEFINE N == NeueVorschlaege(v, n)
<1>1. /\ vorschlaege' = {t \in vorschlaege : t.id \notin alte} \cup N
      /\ vorschlagNr' = vorschlagNr + n /\ vorschlagNr \in Nat
  BY DEF Ersetzen, VorschlagIInv
<1>2. \A t \in N : /\ t \in [id : 1..vorschlagNr', von : Vorgaenge,
                             source : {"ai_suggestion", "manual"}, erledigt : BOOLEAN]
                   /\ t.id > vorschlagNr /\ t.von = v
                   /\ t = [id |-> t.id, von |-> v, source |-> "ai_suggestion", erledigt |-> FALSE]
  <2> TAKE t \in N
  <2>1. PICK i \in 1..n : t = [id |-> vorschlagNr + i, von |-> v, source |-> "ai_suggestion",
                              erledigt |-> FALSE]
    BY DEF NeueVorschlaege
  <2>2. vorschlagNr + i \in 1..vorschlagNr' /\ vorschlagNr + i > vorschlagNr
    BY <1>1
  <2> QED
    BY <2>1, <2>2
<1> HIDE DEF N
<1>3. \A t \in vorschlaege : /\ t \in [id : 1..vorschlagNr', von : Vorgaenge,
                               source : {"ai_suggestion", "manual"}, erledigt : BOOLEAN]
                             /\ t.id <= vorschlagNr
  BY <1>1 DEF VorschlagIInv
<1>4. \A t \in vorschlaege' : (t \in vorschlaege /\ t.id \notin alte) \/ t \in N
  BY <1>1
<1>5. \A t, u \in vorschlaege' : t.id = u.id => t = u
  <2> SUFFICES ASSUME NEW t \in vorschlaege', NEW u \in vorschlaege', t.id = u.id
               PROVE  t = u
    OBVIOUS
  <2>1. CASE t \in N /\ u \in N
    BY <1>2, <2>1
  <2>2. CASE t \in vorschlaege /\ u \in vorschlaege
    BY <2>2 DEF VorschlagIInv
  <2>3. t.id \in Nat /\ u.id \in Nat
    BY <1>1, <1>2, <1>3, <1>4
  <2>4. ~(t \in N /\ u \in vorschlaege) /\ ~(u \in N /\ t \in vorschlaege)
    BY <1>1, <1>2, <1>3, <2>3
  <2> QED
    BY <1>4, <2>1, <2>2, <2>4
<1>6. EinWorker => \E x \in Vorgaenge :
        \A t \in vorschlaege' : OffeneVorschlaege(t) => t.von \in {x, "alarm"}
  <2>1. SUFFICES ASSUME EinWorker
                 PROVE  \E x \in Vorgaenge :
                          \A t \in vorschlaege' : OffeneVorschlaege(t) => t.von \in {x, "alarm"}
    OBVIOUS
  <2>2. CASE v = "alarm"
    <3>1. PICK x \in Vorgaenge : \A t \in vorschlaege : OffeneVorschlaege(t) => t.von \in {x, "alarm"}
      BY <2>1 DEF VorschlagIInv
    <3> QED
      BY <1>2, <1>4, <2>2, <3>1
  <2>3. CASE v # "alarm"
    BY <1>2, <1>4, <2>1, <2>3
  <2> QED
    BY <2>2, <2>3
<1>7. VorschlagIInv'
  BY <1>1, <1>2, <1>3, <1>4, <1>5, <1>6 DEF VorschlagIInv, EinWorker, OffeneVorschlaege
<1>8. AngenommeneBleiben
  <2> SUFFICES ASSUME NEW t \in vorschlaege, \A u \in vorschlaege' : u.id # t.id
               PROVE  t.id \in alte
    BY DEF AngenommeneBleiben
  <2> QED
    BY <1>1
<1> QED
  BY <1>7, <1>8

LEMMA VorschlagAntwortPasst ==
  ASSUME StelleIInv, VorschlagIInv, NEW v \in Vorgaenge, NEW n \in 0..2,
         VorschlagAntwort(v, n) \/ (n > 0 /\ VorschlagSchreiben(v, n))
  PROVE  VorschlagIInv' /\ AngenommeneBleiben
<1> DEFINE offen == {t.id : t \in Abgeloeste(v)}
<1>1. UNCHANGED anUmfang
  BY DEF VorschlagAntwort, VorschlagSchreiben
<1>2. CASE UNCHANGED vorschlagVars
  BY <1>1, <1>2, VorschlagRuht
<1>3. ASSUME n # 0, EinWorker, Ersetzen(v, offen, n)
      PROVE  VorschlagIInv' /\ AngenommeneBleiben
  <2>1. n \in 1..2
    BY <1>3
  <2>2. v = "alarm" \/ \A t \in vorschlaege : OffeneVorschlaege(t) => t.id \in offen
    BY DEF Abgeloeste
  <2>3. \A t \in vorschlaege : t.id \in offen => OffeneVorschlaege(t)
    BY DEF Abgeloeste, VorschlagIInv
  <2> HIDE DEF offen
  <2> QED
    BY <1>1, <1>3, <2>1, <2>2, <2>3, ErsetzenPasst
<1>4. ASSUME n > 0, VorschlagSchreiben(v, n)
      PROVE  VorschlagIInv' /\ AngenommeneBleiben
  <2> DEFINE alte == vorgang[v].zeile
  <2>1. n \in 1..2 /\ Ersetzen(v, alte, n) /\ vorgang[v].stand = "tx"
    BY <1>4 DEF VorschlagSchreiben
  <2>2. ~EinWorker /\ vorgang'[v].stand = "fertig"
    BY <2>1 DEF StelleIInv, VorgangPasst, Ersetzen
  <2>3. \A t \in vorschlaege : t.id \in alte => \E u \in Vorgaenge :
          vorgang[u].stand = "tx" /\ t.id \in vorgang[u].zeile /\ vorgang'[u].stand = "fertig"
    BY <2>1, <2>2
  <2> HIDE DEF alte
  <2> QED
    BY <1>1, <2>1, <2>2, <2>3, ErsetzenPasst
<1> QED
  BY <1>2, <1>3, <1>4 DEF VorschlagAntwort, EinWorker

\* A user accepts, rejects or ticks off a task.
LEMMA VorschlagAendernPasst ==
  ASSUME StelleIInv, VorschlagIInv, NEW t \in vorschlaege,
         KiAnnehmen(t) \/ KiVerwerfen(t) \/ Erledigen(t)
  PROVE  VorschlagIInv' /\ AngenommeneBleiben
<1> DEFINE S == [id : 1..vorschlagNr, von : Vorgaenge,
                 source : {"ai_suggestion", "manual"}, erledigt : BOOLEAN]
<1>1. /\ UNCHANGED <<anUmfang, vorschlagNr>> /\ anAenderungen' # anAenderungen
      /\ vorschlagNr \in Nat
  BY DEF KiAnnehmen, KiVerwerfen, Erledigen, VorschlagAendern, NochEine, StelleIInv, VorschlagIInv
<1>2. vorschlaege \subseteq S /\ \A u, w \in vorschlaege : u.id = w.id => u = w
  BY DEF VorschlagIInv
<1>3. CASE KiVerwerfen(t)
  <2>1. vorschlaege' = vorschlaege \ {t} /\ t.source = "ai_suggestion"
    BY <1>3 DEF KiVerwerfen, VorschlagAendern
  <2>2. VorschlagIInv'
    BY <1>1, <2>1 DEF VorschlagIInv, EinWorker, OffeneVorschlaege
  <2>3. AngenommeneBleiben
    BY <1>1, <2>1 DEF AngenommeneBleiben
  <2> QED
    BY <2>2, <2>3
<1>4. CASE KiAnnehmen(t) \/ Erledigen(t)
  <2>1. PICK neu \in {[t EXCEPT !.source = "manual"], [t EXCEPT !.erledigt = TRUE]} :
          vorschlaege' = (vorschlaege \ {t}) \cup {neu}
    BY <1>4 DEF KiAnnehmen, Erledigen, VorschlagAendern
  <2>2. neu \in S /\ neu.id = t.id /\ ~OffeneVorschlaege(neu)
    BY <1>2 DEF OffeneVorschlaege
  <2>3. \A u \in vorschlaege' : (u \in vorschlaege /\ u # t) \/ u = neu
    BY <2>1
  <2>4. \A u, w \in vorschlaege' : u.id = w.id => u = w
    BY <1>2, <2>2, <2>3
  <2>5. VorschlagIInv'
    <3>1. EinWorker => \E x \in Vorgaenge :
            \A u \in vorschlaege' : OffeneVorschlaege(u) => u.von \in {x, "alarm"}
      BY <2>2, <2>3 DEF VorschlagIInv
    <3> QED
      BY <1>1, <1>2, <2>2, <2>3, <2>4, <3>1 DEF VorschlagIInv, EinWorker, OffeneVorschlaege
  <2>6. AngenommeneBleiben
    BY <2>1, <2>2 DEF AngenommeneBleiben
  <2> QED
    BY <2>5, <2>6
<1> QED
  BY <1>3, <1>4

LEMMA VorschlagSchritt ==
  ASSUME StelleIInv, VorschlagIInv, AnNext
  PROVE  VorschlagIInv' /\ AngenommeneBleiben
<1>1. CASE UNCHANGED <<anUmfang, vorschlagVars>>
  BY <1>1, VorschlagRuht
<1>2. ASSUME NEW v \in Vorgaenge, NEW n \in 0..2,
             VorschlagAntwort(v, n) \/ (n > 0 /\ VorschlagSchreiben(v, n))
      PROVE  VorschlagIInv' /\ AngenommeneBleiben
  BY <1>2, VorschlagAntwortPasst
<1>3. ASSUME NEW t \in vorschlaege, KiAnnehmen(t) \/ KiVerwerfen(t) \/ Erledigen(t)
      PROVE  VorschlagIInv' /\ AngenommeneBleiben
  BY <1>3, VorschlagAendernPasst
<1> QED
  BY <1>1, <1>2, <1>3 DEF AnNext, StelleAnlegen, AlarmBeginnen, PrioSetzen, PinSetzen,
     SektorSetzen, VonHand, BearbeitenBeginnen, GeoAntwort, PrioAntwort, VorschlaegeAnfordern,
     PromptLesen, PromptSpeichern, PromptVerweigert

LEMMA KeineDoppeltenGilt == VorschlagIInv => KeineDoppelten
<1> SUFFICES ASSUME VorschlagIInv, EinWorker
             PROVE  KeineDoppelten
  BY DEF KeineDoppelten
<1> DEFINE Herkunft == {t.von : t \in {u \in vorschlaege : OffeneVorschlaege(u)}} \ {"alarm"}
<1>1. PICK x \in Vorgaenge : \A t \in vorschlaege : OffeneVorschlaege(t) => t.von \in {x, "alarm"}
  BY DEF VorschlagIInv
<1>2. Herkunft \in SUBSET {x}
  BY <1>1
<1>3. IsFiniteSet({x}) /\ Cardinality({x}) = 1
  BY FS_Singleton
<1>4. Cardinality(Herkunft) <= 1
  BY <1>2, <1>3, FS_Subset
<1> QED
  BY <1>4 DEF KeineDoppelten

-----------------------------------------------------------------------------
(* Versions of a prompt *)

LEMMA KleinsteNummer ==
  ASSUME NEW T \in SUBSET Nat, T # {}
  PROVE  \E x \in T : \A y \in T : x <= y
<1> DEFINE R == OpToRel(<, Nat)
<1>1. IsWellFoundedOn(R, Nat)
  BY NatLessThanWellFounded
<1>2. \A x, y \in Nat : x < y => <<x, y>> \in R
  BY DEF OpToRel
<1> HIDE DEF R
<1>3. PICK x \in T : \A y \in T : ~ (<<y, x>> \in R)
  BY <1>1, WFMin
<1>4. \A y \in T : ~(y < x) /\ y \in Nat /\ x \in Nat
  BY <1>2, <1>3
<1>5. \A y \in T : x <= y
  BY <1>4
<1> QED
  BY <1>5

LEMMA GroessteNummer ==
  ASSUME NEW S \in SUBSET Nat, S # {}, NEW n \in Nat, \A s \in S : s <= n
  PROVE  \E m \in S : \A s \in S : s <= m
<1> DEFINE T == {n - s : s \in S}
<1>1. \A s \in S : n - s \in Nat
  OBVIOUS
<1>2. T \in SUBSET Nat /\ T # {}
  BY <1>1
<1>3. PICK x \in T : \A y \in T : x <= y
  BY <1>2, KleinsteNummer
<1>4. PICK m \in S : x = n - m
  BY <1>3
<1>5. \A s \in S : m >= s
  BY <1>1, <1>3, <1>4
<1> QED
  BY <1>4, <1>5

\* What pruning keeps: of the rows kept the oldest has fewer than MaxVersionen newer ones,
\* and the others kept are among these.
LEMMA BehaltenBegrenzt ==
  ASSUME NEW P \in SUBSET PromptZeilen, IsFiniteSet(P), \A p, q \in P : p.nr = q.nr => p = q
  PROVE  /\ Behalten(P) \subseteq P /\ IsFiniteSet(Behalten(P))
         /\ Cardinality(Behalten(P)) \in Nat /\ Cardinality(Behalten(P)) <= MaxVersionen
<1> DEFINE B == Behalten(P)
<1>1. /\ B \in SUBSET P /\ IsFiniteSet(B) /\ Cardinality(B) \in Nat
  BY FS_Subset, FS_CardinalityType DEF Behalten
<1>2. MaxVersionen \in Nat
  BY AnreicherungAssumption
<1>3. CASE B = {}
  BY <1>1, <1>2, <1>3, FS_EmptySet
<1>4. CASE B # {}
  <2> DEFINE V == {p.version : p \in B}
  <2>1. V \in SUBSET Nat /\ V # {}
    BY <1>1, <1>4 DEF PromptZeilen
  <2>2. PICK v0 \in V : \A y \in V : v0 <= y
    BY <2>1, KleinsteNummer
  <2> DEFINE C == {p \in B : p.version = v0}
             N == {p.nr : p \in C}
  <2>3. N \in SUBSET Nat /\ N # {}
    BY <1>1, <2>2 DEF PromptZeilen
  <2>4. PICK n0 \in N : \A y \in N : n0 <= y
    BY <2>3, KleinsteNummer
  <2>5. PICK p0 \in C : p0.nr = n0
    BY <2>4
  <2> DEFINE G == {q \in P : Neuer(q, p0)}
  <2>6. p0 \in P /\ Cardinality(G) < MaxVersionen
    BY <2>5 DEF Behalten
  <2>7. \A q \in B \ {p0} : Neuer(q, p0)
    <3> SUFFICES ASSUME NEW q \in B \ {p0}
                 PROVE  Neuer(q, p0)
      OBVIOUS
    <3>1. q \in P /\ q.version \in Nat /\ p0.version \in Nat /\ q.nr \in Nat /\ p0.nr \in Nat
      BY <1>1, <2>6 DEF PromptZeilen
    <3>2. p0.version = v0 /\ v0 <= q.version
      BY <2>2, <2>5
    <3>3. q.version = p0.version => p0.nr <= q.nr
      BY <2>4, <2>5, <3>2
    <3>4. q.nr # p0.nr
      BY <2>6, <3>1
    <3> QED
      BY <3>1, <3>2, <3>3, <3>4 DEF Neuer
  <2>8. (B \ {p0}) \in SUBSET G /\ G \in SUBSET P
    BY <1>1, <2>7
  <2>9. IsFiniteSet(G) /\ Cardinality(G) \in Nat
    BY <2>8, FS_Subset, FS_CardinalityType
  <2>10. Cardinality(B \ {p0}) <= Cardinality(G)
    BY <2>8, <2>9, FS_Subset
  <2>11. Cardinality(B \ {p0}) = Cardinality(B) - 1
    BY <1>1, <2>5, FS_RemoveElement
  <2>12. \A b, g, r \in Int : r <= g /\ g < MaxVersionen /\ r = b - 1 => b <= MaxVersionen
    BY <1>2
  <2>13. Cardinality(B) \in Int /\ Cardinality(G) \in Int /\ Cardinality(B \ {p0}) \in Int
    BY <1>1, <2>9, <2>11
  <2> QED
    BY <1>1, <2>6, <2>10, <2>11, <2>12, <2>13
<1> QED
  BY <1>1, <1>3, <1>4

\* _next_version: one more than any version there is.
LEMMA NaechstePasst ==
  ASSUME PromptIInv
  PROVE  /\ NaechsteVersion \in Nat /\ NaechsteVersion <= sicherungen + 1
         /\ \A q \in prompts : q.version < NaechsteVersion
<1>1. CASE prompts = {}
  BY <1>1 DEF NaechsteVersion, PromptIInv
<1>2. CASE prompts # {}
  <2> DEFINE V == {p.version : p \in prompts}
  <2>1. /\ V \in SUBSET Nat /\ V # {} /\ sicherungen \in Nat
        /\ \A p \in prompts : p.version \in Nat /\ p.nr \in Nat
    BY <1>2 DEF PromptIInv, PromptZeilen
  <2>2. \A p \in prompts : p.version <= sicherungen
    BY <2>1 DEF PromptIInv
  <2>3. \A s \in V : s <= sicherungen
    BY <2>2
  <2> HIDE DEF V
  <2>4. \E m \in V : \A s \in V : s <= m
    BY <2>1, <2>3, GroessteNummer
  <2>5. Juengste(prompts) # {}
    BY <2>4 DEF Juengste, V
  <2> DEFINE c == CHOOSE p \in Juengste(prompts) : TRUE
  <2>6. c \in Juengste(prompts) /\ NaechsteVersion = c.version + 1
    BY <1>2, <2>5 DEF NaechsteVersion
  <2> HIDE DEF c
  <2>7. c \in prompts /\ \A q \in prompts : q.version <= c.version
    BY <2>6 DEF Juengste
  <2> QED
    BY <2>1, <2>2, <2>6, <2>7
<1> QED
  BY <1>1, <1>2

LEMMA WorkerEndlich ==
  ASSUME anUmfang \in AnUmfaenge
  PROVE  IsFiniteSet(anUmfang.worker) /\ Cardinality(anUmfang.worker) \in Nat
BY AnreicherungAssumption, FS_CardinalityType

LEMMA LesenPasst ==
  ASSUME anUmfang \in AnUmfaenge, PromptIInv, NEW w \in Workers, PromptLesen(w)
  PROVE  PromptIInv'
<1> DEFINE B == Behalten(prompts)
           tx == [version |-> NaechsteVersion, weg |-> prompts \ B, nr |-> sicherungen + 1]
           k == Cardinality(anUmfang.worker)
<1>1. /\ w \in anUmfang.worker /\ promptTx[w] = None /\ promptTx' = [promptTx EXCEPT ![w] = tx]
      /\ sicherungen' = sicherungen + 1 /\ UNCHANGED <<anUmfang, prompts, letzterPrompt>>
  BY DEF PromptLesen
<1>2. /\ sicherungen \in Nat /\ prompts \in SUBSET PromptZeilen /\ IsFiniteSet(prompts)
      /\ promptTx \in [Workers -> PromptTxZeilen \cup {None}]
      /\ \A p, q \in prompts : p.nr = q.nr => p = q
  BY DEF PromptIInv
<1>3. /\ B \subseteq prompts /\ Cardinality(B) \in Nat /\ Cardinality(B) <= MaxVersionen
  BY <1>2, BehaltenBegrenzt
<1>4. /\ NaechsteVersion \in Nat /\ NaechsteVersion <= sicherungen + 1
      /\ \A q \in prompts : q.version < NaechsteVersion
  BY NaechstePasst
<1>5. /\ tx \in PromptTxZeilen /\ tx.version = NaechsteVersion /\ tx.weg = prompts \ B
      /\ tx.nr = sicherungen + 1
  BY <1>2, <1>4 DEF PromptTxZeilen
<1>6. IsFiniteSet(anUmfang.worker) /\ k \in Nat /\ MaxVersionen \in Nat
  BY WorkerEndlich, AnreicherungAssumption
<1> HIDE DEF tx, B, k
<1>7. tx # None
  BY <1>5, AnreicherungAssumption
<1>8. \A u \in Workers : promptTx'[u] = IF u = w THEN tx ELSE promptTx[u]
  BY <1>1, <1>2
<1>9. Speichernde' = Speichernde \cup {w} /\ w \notin Speichernde
  BY <1>1, <1>7, <1>8 DEF Speichernde
<1>10. \A u \in Speichernde : /\ u \in Workers /\ u # w /\ promptTx'[u] = promptTx[u]
                              /\ promptTx[u] \in PromptTxZeilen /\ promptTx[u].nr \in Nat
                              /\ promptTx[u].nr <= sicherungen
  BY <1>2, <1>8, <1>9 DEF Speichernde, PromptTxZeilen, PromptIInv
<1>11. /\ promptTx' \in [Workers -> PromptTxZeilen \cup {None}]
       /\ Speichernde' \subseteq anUmfang'.worker
  BY <1>1, <1>2, <1>5, <1>9 DEF PromptIInv
<1>12. \A p \in prompts' : p.version <= p.nr /\ p.nr <= sicherungen' /\ p.nr \in Nat
  BY <1>1, <1>2 DEF PromptIInv, PromptZeilen
<1>13. \A u \in Speichernde' : /\ promptTx'[u].version <= promptTx'[u].nr
                               /\ promptTx'[u].nr <= sicherungen'
                               /\ \A p \in prompts' : p.nr # promptTx'[u].nr
  <2> SUFFICES ASSUME NEW u \in Speichernde'
               PROVE  /\ promptTx'[u].version <= promptTx'[u].nr
                      /\ promptTx'[u].nr <= sicherungen'
                      /\ \A p \in prompts : p.nr # promptTx'[u].nr
    BY <1>1
  <2>1. CASE u = w
    <3>1. \A p \in prompts : p.nr <= sicherungen /\ p.nr \in Nat
      BY <1>2 DEF PromptIInv, PromptZeilen
    <3> QED
      BY <1>1, <1>2, <1>4, <1>5, <1>8, <2>1, <3>1
  <2>2. CASE u # w
    BY <1>1, <1>2, <1>9, <1>10, <2>2 DEF PromptIInv
  <2> QED
    BY <2>1, <2>2
<1>14. \A u, x \in Speichernde' : promptTx'[u].nr = promptTx'[x].nr => u = x
  <2>1. \A u \in Speichernde : promptTx'[u].nr # promptTx'[w].nr
    BY <1>2, <1>5, <1>8, <1>10
  <2>2. \A u, x \in Speichernde : promptTx'[u].nr = promptTx'[x].nr => u = x
    BY <1>10 DEF PromptIInv
  <2> QED
    BY <1>9, <2>1, <2>2
<1>15. BleibenBegrenzt'
  <2> SUFFICES ASSUME NEW u \in Speichernde'
               PROVE  Cardinality(prompts' \ promptTx'[u].weg) + Cardinality(Aeltere(u)')
                        <= MaxVersionen + k
    BY <1>1 DEF BleibenBegrenzt, k
  <2>1. CASE u = w
    <3>1. prompts' \ promptTx'[u].weg = B
      BY <1>1, <1>3, <1>5, <1>8, <2>1
    <3>2. Aeltere(u)' \in SUBSET anUmfang.worker
      BY <1>1, <1>11 DEF Aeltere
    <3>3. Cardinality(Aeltere(u)') <= k /\ Cardinality(Aeltere(u)') \in Nat
      BY <1>6, <3>2, FS_Subset, FS_CardinalityType DEF k
    <3>4. \A b, a \in Nat : b <= MaxVersionen /\ a <= k => b + a <= MaxVersionen + k
      BY <1>6
    <3> QED
      BY <1>3, <3>1, <3>3, <3>4
  <2>2. CASE u # w
    <3>1. u \in Speichernde
      BY <1>9, <2>2
    <3>2. ~(promptTx'[w].nr <= promptTx'[u].nr)
      BY <1>2, <1>5, <1>8, <1>10, <3>1
    <3>3. Aeltere(u)' = Aeltere(u)
      BY <1>9, <1>10, <3>1, <3>2 DEF Aeltere
    <3>4. Cardinality(prompts \ promptTx[u].weg) + Cardinality(Aeltere(u)) <= MaxVersionen + k
      BY <3>1 DEF PromptIInv, BleibenBegrenzt, k
    <3> QED
      BY <1>1, <1>10, <3>1, <3>3, <3>4
  <2> QED
    BY <2>1, <2>2
<1>16. SpitzePasst'
  <2>1. EinWorker => \A u \in Speichernde' : \A q \in prompts' : q.version < promptTx'[u].version
    BY <1>1, <1>4, <1>5, <1>8, <1>9, <1>10 DEF PromptIInv, SpitzePasst
  <2> QED
    BY <1>1, <2>1 DEF PromptIInv, SpitzePasst, EinWorker
<1>17. Cardinality(prompts') <= MaxVersionen + Cardinality(anUmfang'.worker)
  BY <1>1 DEF PromptIInv
<1> QED
  BY <1>1, <1>2, <1>11, <1>12, <1>13, <1>14, <1>15, <1>16, <1>17 DEF PromptIInv

\* A request that saves adds one row, and is one less that can.
LEMMA SpeichernPasst ==
  ASSUME anUmfang \in AnUmfaenge, PromptIInv, NEW w \in Workers, PromptSpeichern(w)
  PROVE  PromptIInv'
<1> DEFINE tx == promptTx[w]
           neu == [version |-> tx.version, nr |-> tx.nr]
           rest == prompts \ tx.weg
           k == Cardinality(anUmfang.worker)
<1>1. /\ w \in Speichernde /\ prompts' = rest \cup {neu} /\ letzterPrompt' = tx.nr
      /\ promptTx' = [promptTx EXCEPT ![w] = None] /\ UNCHANGED <<anUmfang, sicherungen>>
  BY DEF PromptSpeichern, Speichernde
<1>2. /\ sicherungen \in Nat /\ prompts \in SUBSET PromptZeilen /\ IsFiniteSet(prompts)
      /\ promptTx \in [Workers -> PromptTxZeilen \cup {None}]
      /\ Speichernde \subseteq anUmfang.worker
  BY DEF PromptIInv
<1>3. /\ tx \in PromptTxZeilen /\ tx.version \in Nat /\ tx.nr \in Nat
      /\ tx.version <= tx.nr /\ tx.nr <= sicherungen /\ \A p \in prompts : p.nr # tx.nr
  BY <1>1, <1>2 DEF PromptIInv, Speichernde, PromptTxZeilen
<1>4. neu \in PromptZeilen /\ neu.version = tx.version /\ neu.nr = tx.nr
  BY <1>3 DEF PromptZeilen
<1>5. /\ rest \in SUBSET prompts /\ IsFiniteSet(rest) /\ Cardinality(rest) \in Nat
  BY <1>2, FS_Subset, FS_CardinalityType
<1>6. IsFiniteSet(anUmfang.worker) /\ k \in Nat /\ MaxVersionen \in Nat
  BY WorkerEndlich, AnreicherungAssumption
<1>7. \A u \in Workers : promptTx'[u] = IF u = w THEN None ELSE promptTx[u]
  BY <1>1, <1>2
<1>8. Speichernde' = Speichernde \ {w}
  BY <1>7 DEF Speichernde
<1>9. \A u \in Speichernde' : /\ u \in Speichernde /\ u # w /\ promptTx'[u] = promptTx[u]
                              /\ promptTx[u].nr \in Nat /\ promptTx[u].nr # tx.nr
  BY <1>1, <1>2, <1>7, <1>8 DEF Speichernde, PromptTxZeilen, PromptIInv
<1> HIDE DEF neu, rest
<1>10. \A p \in prompts' : p \in prompts \/ p = neu
  BY <1>1, <1>5
<1>11. \A u \in Speichernde : Aeltere(u) \in SUBSET anUmfang.worker
  BY <1>2 DEF Aeltere
<1>12. \A u \in Speichernde : IsFiniteSet(Aeltere(u)) /\ Cardinality(Aeltere(u)) \in Nat
  BY <1>6, <1>11, FS_Subset, FS_CardinalityType
<1>13. Cardinality(rest) + Cardinality(Aeltere(w)) <= MaxVersionen + k
  BY <1>1 DEF PromptIInv, BleibenBegrenzt, rest, k
<1>14. w \in Aeltere(w)
  BY <1>1, <1>3 DEF Aeltere
<1>15. /\ IsFiniteSet(prompts') /\ Cardinality(prompts') \in Nat
       /\ Cardinality(prompts') <= Cardinality(rest) + 1
  BY <1>1, <1>5, FS_AddElement
<1>16. Cardinality(Aeltere(w)) # 0
  BY <1>1, <1>12, <1>14, FS_EmptySet
<1> HIDE DEF k
<1>17. Cardinality(prompts') <= MaxVersionen + k
  <2>1. Cardinality(Aeltere(w)) \in Nat
    BY <1>1, <1>12
  <2>2. \A p, r, a \in Nat : p <= r + 1 /\ a # 0 /\ r + a <= MaxVersionen + k => p <= MaxVersionen + k
    BY <1>6
  <2> QED
    BY <1>5, <1>13, <1>15, <1>16, <2>1, <2>2
<1>18. BleibenBegrenzt'
  <2> SUFFICES ASSUME NEW u \in Speichernde'
               PROVE  Cardinality(prompts' \ promptTx[u].weg) + Cardinality(Aeltere(u)')
                        <= MaxVersionen + k
    BY <1>1, <1>9 DEF BleibenBegrenzt, k
  <2> DEFINE S == prompts' \ promptTx[u].weg
             A == Aeltere(u)'
  <2>1. u \in Speichernde /\ u # w /\ promptTx[u].nr \in Nat /\ promptTx[u].nr # tx.nr
    BY <1>9
  <2>2. A = Aeltere(u) \ {w}
    BY <1>8, <1>9 DEF Aeltere
  <2>3. IsFiniteSet(Aeltere(u)) /\ Cardinality(Aeltere(u)) \in Nat
    BY <1>12, <2>1
  <2>4. Cardinality(A) \in Nat
    BY <2>2, <2>3, FS_RemoveElement, FS_CardinalityType
  <2>5. CASE tx.nr <= promptTx[u].nr
    <3> DEFINE T == prompts \ promptTx[u].weg
    <3>1. w \in Aeltere(u)
      BY <1>1, <2>5 DEF Aeltere
    <3>2. Cardinality(A) = Cardinality(Aeltere(u)) - 1
      BY <2>2, <2>3, <3>1, FS_RemoveElement
    <3>3. IsFiniteSet(T) /\ Cardinality(T) \in Nat
      BY <1>2, FS_Subset, FS_CardinalityType
    <3>4. S \in SUBSET (T \cup {neu})
      BY <1>1, <1>5
    <3>5. Cardinality(T) + Cardinality(Aeltere(u)) <= MaxVersionen + k
      BY <2>1 DEF PromptIInv, BleibenBegrenzt, k
    <3> HIDE DEF T, S, A
    <3>6. IsFiniteSet(T \cup {neu}) /\ Cardinality(T \cup {neu}) =
             IF neu \in T THEN Cardinality(T) ELSE Cardinality(T) + 1
      BY <3>3, FS_AddElement
    <3>7. IsFiniteSet(T \cup {neu}) /\ Cardinality(T \cup {neu}) <= Cardinality(T) + 1
      BY <3>3, <3>6
    <3>8. Cardinality(S) <= Cardinality(T \cup {neu}) /\ Cardinality(S) \in Nat
          /\ Cardinality(T \cup {neu}) \in Nat
      BY <3>7, <3>4, FS_Subset, FS_CardinalityType
    <3>9. \A s, t, t1, a, b \in Nat :
            (s <= t1 /\ t1 <= t + 1 /\ a = b - 1 /\ t + b <= MaxVersionen + k) =>
              s + a <= MaxVersionen + k
      BY <1>6
    <3>10. Cardinality(S) + Cardinality(A) <= MaxVersionen + k
      BY <2>3, <2>4, <3>2, <3>3, <3>7, <3>8, <3>9, <3>5
    <3> QED
      BY <3>10 DEF S, A
  <2>6. CASE ~(tx.nr <= promptTx[u].nr)
    <3>1. S \in SUBSET prompts'
      OBVIOUS
    <3>2. Cardinality(S) <= Cardinality(prompts') /\ Cardinality(S) \in Nat
      BY <1>15, <3>1, FS_Subset, FS_CardinalityType
    <3>3. \A x \in Speichernde : promptTx[x].nr \in Nat
      BY <1>2 DEF Speichernde, PromptTxZeilen
    <3>4. A \subseteq Aeltere(w) \ {w}
      BY <1>1, <1>3, <2>1, <2>2, <2>6, <3>3 DEF Aeltere
    <3>5. /\ IsFiniteSet(Aeltere(w) \ {w})
          /\ Cardinality(Aeltere(w) \ {w}) = Cardinality(Aeltere(w)) - 1
      BY <1>1, <1>12, <1>14, FS_RemoveElement
    <3>6. A \in SUBSET (Aeltere(w) \ {w})
      BY <3>4
    <3>7. Cardinality(A) <= Cardinality(Aeltere(w) \ {w})
      BY <3>5, <3>6, FS_Subset
    <3>8. Cardinality(Aeltere(w)) \in Nat
      BY <1>1, <1>12
    <3>9. \A s, p, r, a, b \in Nat :
            (s <= p /\ p <= r + 1 /\ a <= b - 1 /\ r + b <= MaxVersionen + k) =>
              s + a <= MaxVersionen + k
      BY <1>6
    <3>10. Cardinality(A) <= Cardinality(Aeltere(w)) - 1
      BY <3>5, <3>7
    <3> QED
      BY <1>5, <1>13, <1>15, <2>4, <3>2, <3>8, <3>9, <3>10
  <2> QED
    BY <2>5, <2>6
<1>19. SpitzePasst'
  <2> SUFFICES ASSUME EinWorker
               PROVE  /\ \E p \in prompts' : /\ p.nr = letzterPrompt'
                                             /\ \A q \in prompts' \ {p} : q.version < p.version
                      /\ Speichernde' = {}
    BY <1>1 DEF SpitzePasst, EinWorker
  <2>1. \E x : anUmfang.worker = {x}
    BY <1>6, FS_Singleton DEF EinWorker
  <2>2. Speichernde' = {}
    BY <1>1, <1>2, <1>8, <2>1
  <2>3. \A q \in prompts : q.version < tx.version
    BY <1>1 DEF PromptIInv, SpitzePasst
  <2> QED
    BY <1>1, <1>4, <1>10, <2>2, <2>3
<1>20. \A p \in prompts' : p.version <= p.nr /\ p.nr <= sicherungen'
  BY <1>1, <1>3, <1>4, <1>10 DEF PromptIInv
<1>21. \A p, q \in prompts' : p.nr = q.nr => p = q
  BY <1>3, <1>4, <1>10 DEF PromptIInv
<1>22. \A u \in Speichernde' : /\ promptTx'[u].version <= promptTx'[u].nr
                               /\ promptTx'[u].nr <= sicherungen'
                               /\ \A p \in prompts' : p.nr # promptTx'[u].nr
  BY <1>1, <1>4, <1>9, <1>10 DEF PromptIInv
<1>23. \A u, x \in Speichernde' : promptTx'[u].nr = promptTx'[x].nr => u = x
  BY <1>9 DEF PromptIInv
<1>24. /\ prompts' \subseteq PromptZeilen /\ promptTx' \in [Workers -> PromptTxZeilen \cup {None}]
       /\ Speichernde' \subseteq anUmfang'.worker
  BY <1>1, <1>2, <1>4, <1>8, <1>10
<1>25. Cardinality(prompts') <= MaxVersionen + Cardinality(anUmfang'.worker)
  BY <1>1, <1>17 DEF k
<1> QED
  BY <1>1, <1>2, <1>15, <1>18, <1>19, <1>20, <1>21, <1>22, <1>23, <1>24, <1>25 DEF PromptIInv

\* A request that is refused writes nothing, and is one less that can.
LEMMA VerweigertPasst ==
  ASSUME anUmfang \in AnUmfaenge, PromptIInv, NEW w \in Workers, PromptVerweigert(w)
  PROVE  PromptIInv'
<1> DEFINE k == Cardinality(anUmfang.worker)
<1>1. /\ w \in Speichernde /\ promptTx' = [promptTx EXCEPT ![w] = None]
      /\ UNCHANGED <<anUmfang, prompts, letzterPrompt, sicherungen>>
      /\ \E p \in prompts : p.version = promptTx[w].version
  BY DEF PromptVerweigert, VersionBelegt, Speichernde
<1>2. \A u \in Workers : promptTx'[u] = IF u = w THEN None ELSE promptTx[u]
  BY <1>1 DEF PromptIInv
<1>3. Speichernde' = Speichernde \ {w}
  BY <1>2 DEF Speichernde
<1>4. \A u \in Speichernde' : u \in Speichernde /\ promptTx'[u] = promptTx[u]
  BY <1>2, <1>3 DEF Speichernde
<1>5. IsFiniteSet(anUmfang.worker) /\ k \in Nat /\ MaxVersionen \in Nat
  BY WorkerEndlich, AnreicherungAssumption
<1>6. BleibenBegrenzt'
  <2> SUFFICES ASSUME NEW u \in Speichernde'
               PROVE  Cardinality(prompts \ promptTx[u].weg) + Cardinality(Aeltere(u)')
                        <= MaxVersionen + k
    BY <1>1, <1>4 DEF BleibenBegrenzt, k
  <2>1. Aeltere(u)' \in SUBSET Aeltere(u)
    BY <1>3, <1>4 DEF Aeltere
  <2>2. Aeltere(u) \in SUBSET anUmfang.worker
    BY DEF Aeltere, PromptIInv
  <2>3. /\ IsFiniteSet(Aeltere(u)) /\ Cardinality(Aeltere(u)) \in Nat
        /\ Cardinality(Aeltere(u)') \in Nat /\ Cardinality(Aeltere(u)') <= Cardinality(Aeltere(u))
    BY <1>5, <2>1, <2>2, FS_Subset, FS_CardinalityType
  <2>4. Cardinality(prompts \ promptTx[u].weg) \in Nat
    BY FS_Subset, FS_CardinalityType DEF PromptIInv
  <2>5. Cardinality(prompts \ promptTx[u].weg) + Cardinality(Aeltere(u)) <= MaxVersionen + k
    BY <1>4 DEF PromptIInv, BleibenBegrenzt, k
  <2> HIDE DEF k
  <2> QED
    BY <1>5, <2>3, <2>4, <2>5
<1>7. SpitzePasst'
  <2>1. \A p \in prompts : p.version \in Nat
    BY DEF PromptIInv, PromptZeilen
  <2> QED
    BY <1>1, <2>1 DEF PromptIInv, SpitzePasst, EinWorker
<1> QED
  BY <1>1, <1>3, <1>4, <1>6, <1>7 DEF PromptIInv

LEMMA PromptRuht ==
  ASSUME PromptIInv, UNCHANGED <<anUmfang, promptVars>>
  PROVE  PromptIInv'
BY DEF PromptIInv, promptVars, Speichernde, Aeltere, BleibenBegrenzt, SpitzePasst, EinWorker

LEMMA PromptSchritt ==
  ASSUME StelleIInv, PromptIInv, AnNext
  PROVE  PromptIInv'
<1>1. anUmfang \in AnUmfaenge
  BY DEF StelleIInv
<1>2. CASE UNCHANGED <<anUmfang, promptVars>>
  BY <1>2, PromptRuht
<1>3. ASSUME NEW w \in Workers, PromptLesen(w) \/ PromptSpeichern(w) \/ PromptVerweigert(w)
      PROVE  PromptIInv'
  BY <1>1, <1>3, LesenPasst, SpeichernPasst, VerweigertPasst
<1> QED
  BY <1>2, <1>3 DEF AnNext, StelleAnlegen, AlarmBeginnen, PrioSetzen, PinSetzen, SektorSetzen,
     VonHand, BearbeitenBeginnen, GeoAntwort, PrioAntwort, VorschlaegeAnfordern, VorschlagAntwort,
     VorschlagSchreiben, KiAnnehmen, KiVerwerfen, Erledigen, VorschlagAendern

LEMMA ZuletztGiltImmer == PromptIInv => ZuletztGilt
<1> SUFFICES ASSUME PromptIInv, EinWorker, prompts # {}
             PROVE  {p.nr : p \in Juengste(prompts)} = {letzterPrompt}
  BY DEF ZuletztGilt
<1>1. PICK p \in prompts : /\ p.nr = letzterPrompt
                           /\ \A q \in prompts \ {p} : q.version < p.version
  BY DEF PromptIInv, SpitzePasst
<1>2. \A q \in prompts : q.version \in Nat
  BY DEF PromptIInv, PromptZeilen
<1>3. Juengste(prompts) = {p}
  BY <1>1, <1>2 DEF Juengste
<1> QED
  BY <1>1, <1>3

-----------------------------------------------------------------------------
(* What is added by the program *)

LEMMA AnAnfang == AnInit => AnIInv
<1> SUFFICES ASSUME AnInit
             PROVE  AnIInv
  OBVIOUS
<1>1. /\ anUmfang \in AnUmfaenge /\ MaxVersionen \in Nat
      /\ IsFiniteSet(anUmfang.worker) /\ Cardinality(anUmfang.worker) \in Nat
  BY WorkerEndlich, AnreicherungAssumption DEF AnInit
<1>2. StelleIInv
  BY <1>1 DEF AnInit, StelleIInv, VorgangPasst, HandPasst, AnRuhend, AnInArbeit, Staende
<1>3. VorschlagIInv
  BY AnreicherungAssumption DEF AnInit, VorschlagIInv
<1>4. Speichernde = {} /\ promptTx \in [Workers -> PromptTxZeilen \cup {None}]
  BY DEF AnInit, Speichernde
<1>5. IsFiniteSet(prompts) /\ Cardinality(prompts) = 0 /\ prompts = {} /\ sicherungen = 0
  BY FS_EmptySet DEF AnInit
<1>6. PromptIInv
  BY <1>1, <1>4, <1>5 DEF PromptIInv, BleibenBegrenzt, SpitzePasst
<1> QED
  BY <1>2, <1>3, <1>6 DEF AnIInv

LEMMA AnSchritt ==
  ASSUME AnIInv, [AnNext]_anVars
  PROVE  AnIInv' /\ [VonHandBleibt /\ AngenommeneBleiben]_anVars
<1>1. CASE AnNext
  BY <1>1, StelleSchritt, VorschlagSchritt, PromptSchritt DEF AnIInv
<1>2. CASE UNCHANGED anVars
  <2>1. /\ UNCHANGED <<anUmfang, stelle, anHand, vorgang, anAenderungen>>
        /\ UNCHANGED <<anUmfang, vorschlagVars>> /\ UNCHANGED <<anUmfang, promptVars>>
    BY <1>2 DEF anVars, vorschlagVars, promptVars
  <2>2. anAenderungen' \in Nat /\ StelleIInv /\ VorschlagIInv /\ PromptIInv
    BY <2>1 DEF AnIInv, StelleIInv
  <2> QED
    BY <1>2, <2>1, <2>2, StelleRuht, VorschlagRuht, PromptRuht DEF AnIInv
<1> QED
  BY <1>1, <1>2

LEMMA AnInvarianten == AnIInv => AnTypeOK /\ KeineDoppelten /\ ZuletztGilt
<1> SUFFICES ASSUME AnIInv
             PROVE  AnTypeOK /\ KeineDoppelten /\ ZuletztGilt
  OBVIOUS
<1>1. AnTypeOK
  BY DEF AnTypeOK, AnIInv, StelleIInv, VorgangPasst, HandPasst, VorschlagIInv, PromptIInv, Staende
<1> QED
  BY <1>1, KeineDoppeltenGilt, ZuletztGiltImmer DEF AnIInv

\* However the answers of the geocoder and the language model, users and other workers come
\* between: what a user accepted stays, and what a user set is replaced without a user only
\* by a request or task that began before; pruning keeps no more versions than one for each
\* worker beyond the limit. Where no two transactions overlap (one worker), open suggestions
\* come from one answer and the prompt saved last is in force.
THEOREM AnreicherungHaelt == AnSpec => AnVersprechen
<1>1. AnSpec => []AnIInv /\ [][VonHandBleibt /\ AngenommeneBleiben]_anVars
  <2>1. AnInit => AnIInv
    BY AnAnfang
  <2>2. AnIInv /\ [AnNext]_anVars => AnIInv' /\ [VonHandBleibt /\ AngenommeneBleiben]_anVars
    BY AnSchritt
  <2> QED
    BY <2>1, <2>2, PTL DEF AnSpec
<1>2. AnIInv => AnTypeOK /\ KeineDoppelten /\ ZuletztGilt
  BY AnInvarianten
<1> QED
  BY <1>1, <1>2, PTL DEF AnVersprechen

-----------------------------------------------------------------------------
(* Incidents closed by the program *)

\* A warning was given since the clock of the incident started: it was shown or died with
\* its worker, or a pass that gave one still has it to send.
Gewarnt(i) ==
  \/ gewarnt[i] # "nein"
  \/ \E v \in AcWorker : pruefLauf[v] # None /\ i \in pruefLauf[v].warnen

\* An incident with a warning was old enough when it got it.
WarnungHatAlter(i) == warnung[i] # None => alter[i] >= Nach + warnung[i] /\ Gewarnt(i)

\* What a pass has found due is due, whatever it has not seen since.
FaelligBleibt(i) ==
  \A w \in AcWorker : pruefLauf[w] # None =>
    /\ pruefLauf[w].liste[i] = "warnen" => alter[i] >= Nach
    /\ pruefLauf[w].liste[i] = "schliessen" => alter[i] >= Nach + Gnade /\ Gewarnt(i)

Stimmt(i) == WarnungHatAlter(i) /\ FaelligBleibt(i)

AutocloseIInv == AutocloseTypeOK /\ \A i \in Einsaetze \ ueberholt : Stimmt(i)

LEMMA AutocloseAmAnfang == AutocloseInit => AutocloseIInv
<1> SUFFICES ASSUME AutocloseInit PROVE AutocloseIInv
  OBVIOUS
<1>1. 0 \in 0..MaxAlter
  BY FristenAssumption DEF MaxAlter
<1>2. AutocloseTypeOK
  BY <1>1 DEF AutocloseInit, AutocloseTypeOK
<1> QED
  BY <1>2 DEF AutocloseInit, AutocloseIInv, Stimmt, WarnungHatAlter, FaelligBleibt

\* What a session reads of an incident that is not overtaken is due when it reads it.
LEMMA GelesenIstFaellig ==
  ASSUME AutocloseTypeOK, NEW i \in Einsaetze, WarnungHatAlter(i)
  PROVE  /\ Faellig(i) \in Stufen \ {"fertig"}
         /\ Faellig(i) = "warnen" => alter[i] >= Nach
         /\ Faellig(i) = "schliessen" => alter[i] >= Nach + Gnade /\ Gewarnt(i)
<1>1. /\ alter[i] \in Nat /\ warnung[i] \in Nat \cup {None} /\ Nach \in Nat /\ Gnade \in Nat
  BY FristenAssumption DEF AutocloseTypeOK, MaxAlter
<1>2. Faellig(i) = "warnen" => alter[i] >= Nach
  BY DEF Faellig, WarnenFaellig
<1>3. Faellig(i) = "schliessen" => warnung[i] # None /\ warnung[i] >= Gnade
  BY DEF Faellig, SchliessenFaellig
<1> QED
  BY <1>1, <1>2, <1>3 DEF Faellig, Stufen, WarnungHatAlter

LEMMA StufeGelesen == \A i : Faellig(i) \in Stufen \ {"fertig"}
BY DEF Faellig, Stufen

LEMMA StufeGelesenDanach == \A i : Faellig(i)' \in Stufen \ {"fertig"}
BY DEF Faellig, Stufen

\* A pass becomes another one.
LEMMA PassSetzen ==
  ASSUME AutocloseTypeOK, NEW w \in AcWorker,
         NEW L \in [Einsaetze -> Stufen], NEW W \in SUBSET Einsaetze,
         pruefLauf' = [pruefLauf EXCEPT ![w] = [liste |-> L, warnen |-> W]]
  PROVE  /\ pruefLauf' \in [AcWorker -> PassZeilen \cup {None}] /\ pruefLauf'[w] # None
         /\ pruefLauf'[w].liste = L /\ pruefLauf'[w].warnen = W
         /\ \A v \in AcWorker : v # w => pruefLauf'[v] = pruefLauf[v]
<1> DEFINE z == [liste |-> L, warnen |-> W]
<1>1. z \in PassZeilen /\ z.liste = L /\ z.warnen = W
  BY DEF PassZeilen
<1>2. z # None
  BY <1>1, AutocloseNoneAssumption
<1> HIDE DEF z
<1>3. pruefLauf' = [pruefLauf EXCEPT ![w] = z]
  BY DEF z
<1> QED
  BY <1>1, <1>2, <1>3 DEF AutocloseTypeOK

LEMMA PassForm ==
  ASSUME AutocloseTypeOK, NEW w \in AcWorker, pruefLauf[w] # None
  PROVE  /\ pruefLauf[w] \in PassZeilen
         /\ pruefLauf[w].liste \in [Einsaetze -> Stufen]
         /\ pruefLauf[w].warnen \in SUBSET Einsaetze
BY DEF AutocloseTypeOK, PassZeilen

\* What is left of a pass after an incident.
LEMMA ErledigtForm ==
  ASSUME AutocloseTypeOK, NEW w \in AcWorker, pruefLauf[w] # None,
         NEW i \in Einsaetze, NEW W \in SUBSET Einsaetze, Erledigt(w, i, W)
  PROVE  /\ pruefLauf' \in [AcWorker -> PassZeilen \cup {None}] /\ pruefLauf'[w] # None
         /\ \A j \in Einsaetze : pruefLauf'[w].liste[j] \in {"fertig", Faellig(j)'}
         /\ pruefLauf'[w].warnen = pruefLauf[w].warnen \cup W
         /\ \A v \in AcWorker : v # w => pruefLauf'[v] = pruefLauf[v]
<1> DEFINE L == [j \in Einsaetze |->
                   IF j = i \/ pruefLauf[w].liste[j] = "fertig" THEN "fertig" ELSE Faellig(j)']
           V == pruefLauf[w].warnen \cup W
<1>1. pruefLauf' = [pruefLauf EXCEPT ![w] = [liste |-> L, warnen |-> V]]
  BY DEF Erledigt
<1>2. L \in [Einsaetze -> Stufen] /\ \A j \in Einsaetze : L[j] \in {"fertig", Faellig(j)'}
  BY StufeGelesenDanach DEF Stufen
<1>3. V \in SUBSET Einsaetze
  BY PassForm
<1> HIDE DEF L, V
<1>4. /\ pruefLauf' \in [AcWorker -> PassZeilen \cup {None}] /\ pruefLauf'[w] # None
      /\ pruefLauf'[w].liste = L /\ pruefLauf'[w].warnen = V
      /\ \A v \in AcWorker : v # w => pruefLauf'[v] = pruefLauf[v]
  BY <1>1, <1>2, <1>3, PassSetzen
<1> QED
  BY <1>2, <1>4 DEF V

-----------------------------------------------------------------------------

\* A pass reads the rows anew, and takes up warnings: what it finds due is due, and the
\* passes of the other workers keep theirs.
LEMMA StimmtNachLesen ==
  ASSUME AutocloseTypeOK, AutocloseTypeOK', NEW i \in Einsaetze, Stimmt(i),
         NEW w \in AcWorker, pruefLauf'[w] # None,
         pruefLauf'[w].liste[i] \in {"fertig", Faellig(i)'},
         pruefLauf[w] # None => pruefLauf[w].warnen \subseteq pruefLauf'[w].warnen,
         \A v \in AcWorker : v # w => pruefLauf'[v] = pruefLauf[v],
         alter'[i] >= alter[i],
         gewarnt[i] # "nein" => gewarnt'[i] # "nein" \/ i \in pruefLauf'[w].warnen,
         warnung'[i] # None => \/ alter'[i] >= Nach + warnung'[i] /\ i \in pruefLauf'[w].warnen
                               \/ warnung'[i] = warnung[i]
  PROVE  Stimmt(i)'
<1>1. Gewarnt(i) => Gewarnt(i)'
  BY DEF Gewarnt
<1>2. i \in pruefLauf'[w].warnen => Gewarnt(i)'
  BY DEF Gewarnt
<1>3. /\ alter[i] \in Nat /\ alter'[i] \in Nat /\ Nach \in Nat /\ Gnade \in Nat
      /\ warnung[i] \in Nat \cup {None} /\ warnung'[i] \in Nat \cup {None}
  BY FristenAssumption DEF AutocloseTypeOK, MaxAlter
<1>4. WarnungHatAlter(i)'
  <2> SUFFICES ASSUME warnung'[i] # None
               PROVE  alter'[i] >= Nach + warnung'[i] /\ Gewarnt(i)'
    BY DEF WarnungHatAlter
  <2>1. CASE alter'[i] >= Nach + warnung'[i] /\ i \in pruefLauf'[w].warnen
    BY <1>2, <2>1
  <2>2. CASE warnung'[i] = warnung[i]
    BY <1>1, <1>3, <2>2 DEF Stimmt, WarnungHatAlter
  <2> QED
    BY <2>1, <2>2
<1>5. /\ Faellig(i)' = "warnen" => alter'[i] >= Nach
      /\ Faellig(i)' = "schliessen" => alter'[i] >= Nach + Gnade /\ Gewarnt(i)'
  <2>1. Faellig(i)' = "warnen" => alter'[i] >= Nach
    BY DEF Faellig, WarnenFaellig
  <2>2. Faellig(i)' = "schliessen" => warnung'[i] # None /\ warnung'[i] >= Gnade
    BY DEF Faellig, SchliessenFaellig
  <2> QED
    BY <1>3, <1>4, <2>1, <2>2 DEF WarnungHatAlter
<1>6. FaelligBleibt(i)'
  <2> SUFFICES ASSUME NEW v \in AcWorker, pruefLauf'[v] # None
               PROVE  /\ pruefLauf'[v].liste[i] = "warnen" => alter'[i] >= Nach
                      /\ pruefLauf'[v].liste[i] = "schliessen" =>
                           alter'[i] >= Nach + Gnade /\ Gewarnt(i)'
    BY DEF FaelligBleibt
  <2>1. CASE v = w
    BY <1>5, <2>1
  <2>2. CASE v # w
    <3>1. pruefLauf'[v] = pruefLauf[v]
      BY <2>2
    <3> QED
      BY <1>1, <1>3, <3>1 DEF Stimmt, FaelligBleibt
  <2> QED
    BY <2>1, <2>2
<1> QED
  BY <1>4, <1>6 DEF Stimmt

LEMMA PassBeginnenHaelt ==
  ASSUME NEW w \in AcWorker, AutocloseIInv, PassBeginnen(w)
  PROVE  AutocloseIInv'
<1> DEFINE L == [i \in Einsaetze |-> IF status[i] = "active" THEN Faellig(i) ELSE "fertig"]
           W == {}
<1>1. /\ pruefLauf[w] = None
      /\ UNCHANGED <<status, alter, warnung, enabled, anfrage, gewarnt, ueberholt>>
      /\ pruefLauf' = [pruefLauf EXCEPT ![w] = [liste |-> L, warnen |-> W]]
  BY DEF PassBeginnen
<1>2. L \in [Einsaetze -> Stufen] /\ \A i \in Einsaetze : L[i] \in {"fertig", Faellig(i)}
  BY StufeGelesen DEF Stufen
<1> HIDE DEF L
<1>3. AutocloseTypeOK /\ W \in SUBSET Einsaetze
  BY DEF AutocloseIInv
<1> HIDE DEF W
<1>4. /\ pruefLauf' \in [AcWorker -> PassZeilen \cup {None}] /\ pruefLauf'[w] # None
      /\ pruefLauf'[w].liste = L /\ \A v \in AcWorker : v # w => pruefLauf'[v] = pruefLauf[v]
  BY <1>1, <1>2, <1>3, PassSetzen
<1>5. AutocloseTypeOK'
  BY <1>1, <1>3, <1>4 DEF AutocloseTypeOK
<1>6. ASSUME NEW i \in Einsaetze \ ueberholt'
      PROVE  Stimmt(i)'
  <2>1. Stimmt(i)
    BY <1>1, <1>6 DEF AutocloseIInv
  <2>2. Faellig(i)' = Faellig(i)
    BY <1>1 DEF Faellig, WarnenFaellig, SchliessenFaellig
  <2>3. alter'[i] >= alter[i]
    BY <1>1, <1>3 DEF AutocloseTypeOK, MaxAlter
  <2> QED
    BY <1>1, <1>2, <1>3, <1>4, <1>5, <2>1, <2>2, <2>3, StimmtNachLesen
<1> QED
  BY <1>5, <1>6 DEF AutocloseIInv

LEMMA WarnenHaelt ==
  ASSUME NEW w \in AcWorker, NEW i \in Einsaetze, AutocloseIInv, pruefLauf[w] # None, Warnen(w, i)
  PROVE  AutocloseIInv'
<1>1. AutocloseTypeOK
  BY DEF AutocloseIInv
<1>2. 0 \in 0..Gnade /\ Nach \in Nat /\ Gnade \in Nat /\ alter \in [Einsaetze -> Nat]
  BY <1>1, FristenAssumption DEF AutocloseTypeOK, MaxAlter
<1>3. /\ UNCHANGED <<status, alter, enabled, anfrage, ueberholt>>
      /\ warnung' \in [Einsaetze -> 0..Gnade \cup {None}] /\ warnung'[i] = 0
      /\ gewarnt' \in [Einsaetze -> {"nein", "ja", "verloren"}]
      /\ \A j \in Einsaetze \ {i} : warnung'[j] = warnung[j] /\ gewarnt'[j] = gewarnt[j]
  BY <1>1, <1>2 DEF Warnen, AutocloseTypeOK
<1>4. /\ pruefLauf' \in [AcWorker -> PassZeilen \cup {None}] /\ pruefLauf'[w] # None
      /\ \A j \in Einsaetze : pruefLauf'[w].liste[j] \in {"fertig", Faellig(j)'}
      /\ pruefLauf'[w].warnen = pruefLauf[w].warnen \cup {i}
      /\ \A v \in AcWorker : v # w => pruefLauf'[v] = pruefLauf[v]
  BY <1>1, ErledigtForm DEF Warnen
<1>5. AutocloseTypeOK'
  BY <1>1, <1>3, <1>4 DEF AutocloseTypeOK
<1>6. ASSUME NEW j \in Einsaetze \ ueberholt'
      PROVE  Stimmt(j)'
  <2>1. Stimmt(j)
    BY <1>3, <1>6 DEF AutocloseIInv
  <2>2. alter'[j] >= alter[j]
    BY <1>2, <1>3
  <2>3. gewarnt[j] # "nein" => gewarnt'[j] # "nein" \/ j \in pruefLauf'[w].warnen
    BY <1>3, <1>4
  <2>4. warnung'[j] # None => \/ alter'[j] >= Nach + warnung'[j] /\ j \in pruefLauf'[w].warnen
                              \/ warnung'[j] = warnung[j]
    <3>1. CASE j = i
      <4>1. alter[i] >= Nach
        BY <2>1, <3>1 DEF Warnen, Stimmt, FaelligBleibt
      <4> QED
        BY <1>2, <1>3, <1>4, <3>1, <4>1
    <3>2. CASE j # i
      BY <1>3, <3>2
    <3> QED
      BY <3>1, <3>2
  <2> QED
    BY <1>1, <1>4, <1>5, <2>1, <2>2, <2>3, <2>4, StimmtNachLesen
<1> QED
  BY <1>5, <1>6 DEF AutocloseIInv

\* Closing, a closing that failed and one that found the incident closed.
LEMMA SchliessenHaelt ==
  ASSUME NEW w \in AcWorker, NEW i \in Einsaetze, AutocloseIInv, pruefLauf[w] # None,
         Schliessen(w, i) \/ OhneSchliessen(w, i)
  PROVE  AutocloseIInv'
<1>1. AutocloseTypeOK
  BY DEF AutocloseIInv
<1>2. /\ UNCHANGED <<alter, warnung, enabled, anfrage, gewarnt, ueberholt>>
      /\ status' \in [Einsaetze -> {"active", "closed"}]
      /\ alter \in [Einsaetze -> Nat]
  BY <1>1, FristenAssumption DEF Schliessen, OhneSchliessen, AutocloseTypeOK, MaxAlter
<1>3. /\ pruefLauf' \in [AcWorker -> PassZeilen \cup {None}] /\ pruefLauf'[w] # None
      /\ \A j \in Einsaetze : pruefLauf'[w].liste[j] \in {"fertig", Faellig(j)'}
      /\ pruefLauf'[w].warnen = pruefLauf[w].warnen \cup {}
      /\ \A v \in AcWorker : v # w => pruefLauf'[v] = pruefLauf[v]
  BY <1>1, ErledigtForm DEF Schliessen, OhneSchliessen
<1>4. AutocloseTypeOK'
  BY <1>1, <1>2, <1>3 DEF AutocloseTypeOK
<1>5. ASSUME NEW j \in Einsaetze \ ueberholt'
      PROVE  Stimmt(j)'
  <2>1. Stimmt(j)
    BY <1>2, <1>5 DEF AutocloseIInv
  <2>2. alter'[j] >= alter[j]
    BY <1>2
  <2> QED
    BY <1>1, <1>2, <1>3, <1>4, <2>1, <2>2, StimmtNachLesen
<1> QED
  BY <1>4, <1>5 DEF AutocloseIInv

\* Nothing is found due that was not, nobody's warning is forgotten, and the clocks go on.
LEMMA StimmtBleibt ==
  ASSUME AutocloseTypeOK, AutocloseTypeOK', NEW i \in Einsaetze, Stimmt(i),
         \A v \in AcWorker : pruefLauf'[v] # None =>
           /\ pruefLauf[v] # None
           /\ pruefLauf'[v].liste[i] \in {"fertig", pruefLauf[v].liste[i]},
         Gewarnt(i) => Gewarnt(i)',
         alter'[i] >= alter[i],
         warnung'[i] # None => warnung[i] # None
                               /\ (alter[i] >= Nach + warnung[i] => alter'[i] >= Nach + warnung'[i])
  PROVE  Stimmt(i)'
<1>1. /\ alter[i] \in Nat /\ alter'[i] \in Nat /\ Nach \in Nat /\ Gnade \in Nat
  BY FristenAssumption DEF AutocloseTypeOK, MaxAlter
<1>2. WarnungHatAlter(i)'
  BY DEF Stimmt, WarnungHatAlter
<1>3. FaelligBleibt(i)'
  <2> SUFFICES ASSUME NEW v \in AcWorker, pruefLauf'[v] # None
               PROVE  /\ pruefLauf'[v].liste[i] = "warnen" => alter'[i] >= Nach
                      /\ pruefLauf'[v].liste[i] = "schliessen" =>
                           alter'[i] >= Nach + Gnade /\ Gewarnt(i)'
    BY DEF FaelligBleibt
  <2>1. pruefLauf[v] # None /\ pruefLauf'[v].liste[i] \in {"fertig", pruefLauf[v].liste[i]}
    OBVIOUS
  <2> QED
    BY <1>1, <2>1 DEF Stimmt, FaelligBleibt
<1> QED
  BY <1>2, <1>3 DEF Stimmt

LEMMA UebergehenHaelt ==
  ASSUME NEW w \in AcWorker, NEW i \in Einsaetze, AutocloseIInv, pruefLauf[w] # None,
         Uebergehen(w, i)
  PROVE  AutocloseIInv'
<1> DEFINE y == pruefLauf[w]
           z == [y EXCEPT !.liste[i] = "fertig"]
<1>1. AutocloseTypeOK
  BY DEF AutocloseIInv
<1>2. /\ pruefLauf' = [pruefLauf EXCEPT ![w] = z]
      /\ UNCHANGED <<status, alter, warnung, enabled, anfrage, gewarnt, ueberholt>>
  BY DEF Uebergehen
<1>3. y \in PassZeilen
  BY <1>1, PassForm
<1>4. /\ z \in PassZeilen /\ z.warnen = y.warnen
      /\ \A j \in Einsaetze : z.liste[j] \in {"fertig", y.liste[j]}
  BY <1>3 DEF PassZeilen, Stufen
<1>5. y = pruefLauf[w]
  OBVIOUS
<1> HIDE DEF y, z
<1>6. /\ pruefLauf' \in [AcWorker -> PassZeilen \cup {None}] /\ pruefLauf'[w] = z
      /\ \A v \in AcWorker : v # w => pruefLauf'[v] = pruefLauf[v]
  BY <1>1, <1>2, <1>4 DEF AutocloseTypeOK
<1>7. AutocloseTypeOK'
  BY <1>1, <1>2, <1>6 DEF AutocloseTypeOK
<1>8. ASSUME NEW j \in Einsaetze \ ueberholt'
      PROVE  Stimmt(j)'
  <2>1. Stimmt(j)
    BY <1>2, <1>8 DEF AutocloseIInv
  <2>2. z # None
    BY <1>4, AutocloseNoneAssumption
  <2>3. Gewarnt(j) => Gewarnt(j)'
    <3> SUFFICES ASSUME Gewarnt(j) PROVE Gewarnt(j)'
      OBVIOUS
    <3>1. CASE gewarnt[j] # "nein"
      BY <1>2, <3>1 DEF Gewarnt
    <3>2. CASE \E v \in AcWorker : pruefLauf[v] # None /\ j \in pruefLauf[v].warnen
      <4>1. PICK v \in AcWorker : pruefLauf[v] # None /\ j \in pruefLauf[v].warnen
        BY <3>2
      <4>2. pruefLauf'[v] # None /\ j \in pruefLauf'[v].warnen
        BY <1>4, <1>5, <1>6, <2>2, <4>1
      <4> QED
        BY <4>2 DEF Gewarnt
    <3> QED
      BY <3>1, <3>2 DEF Gewarnt
  <2>4. \A v \in AcWorker : pruefLauf'[v] # None =>
          /\ pruefLauf[v] # None
          /\ pruefLauf'[v].liste[j] \in {"fertig", pruefLauf[v].liste[j]}
    BY <1>4, <1>5, <1>6
  <2>5. alter'[j] >= alter[j]
    BY <1>1, <1>2 DEF AutocloseTypeOK, MaxAlter
  <2> QED
    BY <1>1, <1>2, <1>7, <2>1, <2>3, <2>4, <2>5, StimmtBleibt
<1> QED
  BY <1>7, <1>8 DEF AutocloseIInv

LEMMA WarnungSendenHaelt ==
  ASSUME NEW w \in AcWorker, AutocloseIInv, WarnungSenden(w)
  PROVE  AutocloseIInv'
<1>1. AutocloseTypeOK /\ pruefLauf[w] # None
      /\ UNCHANGED <<status, alter, warnung, enabled, anfrage, ueberholt>>
  BY DEF AutocloseIInv, WarnungSenden
<1>2. PICK i \in pruefLauf[w].warnen :
        /\ gewarnt' = [gewarnt EXCEPT ![i] = "ja"]
        /\ pruefLauf' = [pruefLauf EXCEPT ![w].warnen = @ \ {i}]
  BY DEF WarnungSenden
<1> DEFINE y == pruefLauf[w]
           z == [y EXCEPT !.warnen = @ \ {i}]
<1>3. y \in PassZeilen /\ i \in Einsaetze /\ y = pruefLauf[w]
  BY <1>1, <1>2, PassForm
<1>4. z \in PassZeilen /\ z.warnen = y.warnen \ {i} /\ z.liste = y.liste
  BY <1>3 DEF PassZeilen
<1>5. pruefLauf' = [pruefLauf EXCEPT ![w] = z]
  BY <1>2
<1> HIDE DEF y, z
<1>6. /\ pruefLauf' \in [AcWorker -> PassZeilen \cup {None}] /\ pruefLauf'[w] = z
      /\ \A v \in AcWorker : v # w => pruefLauf'[v] = pruefLauf[v]
  BY <1>1, <1>4, <1>5 DEF AutocloseTypeOK
<1>7. /\ gewarnt' \in [Einsaetze -> {"nein", "ja", "verloren"}] /\ gewarnt'[i] = "ja"
      /\ \A j \in Einsaetze \ {i} : gewarnt'[j] = gewarnt[j]
  BY <1>1, <1>2, <1>3 DEF AutocloseTypeOK
<1>8. AutocloseTypeOK'
  BY <1>1, <1>6, <1>7 DEF AutocloseTypeOK
<1>9. ASSUME NEW j \in Einsaetze \ ueberholt'
      PROVE  Stimmt(j)'
  <2>1. Stimmt(j)
    BY <1>1, <1>9 DEF AutocloseIInv
  <2>2. z # None
    BY <1>4, AutocloseNoneAssumption
  <2>3. Gewarnt(j) => Gewarnt(j)'
    <3> SUFFICES ASSUME Gewarnt(j) PROVE Gewarnt(j)'
      OBVIOUS
    <3>1. CASE j = i
      BY <1>7, <3>1 DEF Gewarnt
    <3>2. CASE j # i /\ gewarnt[j] # "nein"
      BY <1>7, <3>2 DEF Gewarnt
    <3>3. CASE j # i /\ \E v \in AcWorker : pruefLauf[v] # None /\ j \in pruefLauf[v].warnen
      <4>1. PICK v \in AcWorker : pruefLauf[v] # None /\ j \in pruefLauf[v].warnen
        BY <3>3
      <4>2. pruefLauf'[v] # None /\ j \in pruefLauf'[v].warnen
        BY <1>3, <1>4, <1>6, <2>2, <3>3, <4>1
      <4> QED
        BY <4>2 DEF Gewarnt
    <3> QED
      BY <3>1, <3>2, <3>3 DEF Gewarnt
  <2>4. \A v \in AcWorker : pruefLauf'[v] # None =>
          /\ pruefLauf[v] # None
          /\ pruefLauf'[v].liste[j] \in {"fertig", pruefLauf[v].liste[j]}
    BY <1>1, <1>3, <1>4, <1>6
  <2>5. alter'[j] >= alter[j]
    BY <1>1 DEF AutocloseTypeOK, MaxAlter
  <2> QED
    BY <1>1, <1>8, <2>1, <2>3, <2>4, <2>5, StimmtBleibt
<1> QED
  BY <1>8, <1>9 DEF AutocloseIInv

\* The pass ends, with its warnings sent or lost.
LEMMA PassEndeHaelt ==
  ASSUME NEW w \in AcWorker, AutocloseIInv, PassBeenden(w) \/ PassAbbrechen(w)
  PROVE  AutocloseIInv'
<1>1. /\ AutocloseTypeOK /\ pruefLauf[w] # None
      /\ pruefLauf' = [pruefLauf EXCEPT ![w] = None]
      /\ UNCHANGED <<status, alter, warnung, enabled, ueberholt>>
  BY DEF AutocloseIInv, PassBeenden, PassAbbrechen
<1>2. /\ pruefLauf' \in [AcWorker -> PassZeilen \cup {None}] /\ pruefLauf'[w] = None
      /\ \A v \in AcWorker : v # w => pruefLauf'[v] = pruefLauf[v]
  BY <1>1 DEF AutocloseTypeOK
<1>3. /\ gewarnt' \in [Einsaetze -> {"nein", "ja", "verloren"}]
      /\ \A i \in Einsaetze :
           /\ gewarnt[i] # "nein" => gewarnt'[i] # "nein"
           /\ i \in pruefLauf[w].warnen => gewarnt'[i] # "nein"
  BY <1>1 DEF PassBeenden, PassAbbrechen, AutocloseTypeOK
<1>4. anfrage' \in [AcWorker -> Anfragen \cup {None}]
  BY <1>1 DEF PassBeenden, PassAbbrechen, AutocloseTypeOK
<1>5. AutocloseTypeOK'
  BY <1>1, <1>2, <1>3, <1>4 DEF AutocloseTypeOK
<1>6. ASSUME NEW i \in Einsaetze \ ueberholt'
      PROVE  Stimmt(i)'
  <2>1. Stimmt(i)
    BY <1>1, <1>6 DEF AutocloseIInv
  <2>2. Gewarnt(i) => Gewarnt(i)'
    BY <1>2, <1>3 DEF Gewarnt
  <2>3. \A v \in AcWorker : pruefLauf'[v] # None =>
          pruefLauf[v] # None /\ pruefLauf'[v].liste[i] \in {"fertig", pruefLauf[v].liste[i]}
    BY <1>2
  <2>4. alter'[i] >= alter[i]
    BY <1>1 DEF AutocloseTypeOK, MaxAlter
  <2> QED
    BY <1>1, <1>5, <2>1, <2>2, <2>3, <2>4, StimmtBleibt
<1> QED
  BY <1>5, <1>6 DEF AutocloseIInv

\* The steps that touch no incident, and the closing by a user.
LEMMA OhneEinflussHaelt ==
  ASSUME AutocloseIInv, AutocloseTypeOK',
         UNCHANGED <<alter, warnung, gewarnt, pruefLauf, ueberholt>>
  PROVE  AutocloseIInv'
BY DEF AutocloseIInv, Stimmt, WarnungHatAlter, FaelligBleibt, Gewarnt

\* keepopen and reopening: an incident that a pass has read is overtaken, of another one
\* nobody has found anything due.
LEMMA FreierEinsatzStimmt ==
  ASSUME AutocloseTypeOK', NEW i \in Einsaetze, ~InEinemPass(i), UNCHANGED pruefLauf,
         warnung'[i] = None
  PROVE  Stimmt(i)'
<1>1. WarnungHatAlter(i)'
  BY DEF WarnungHatAlter
<1>2. \A w \in AcWorker : pruefLauf[w] # None => pruefLauf[w].liste[i] = "fertig"
  BY DEF InEinemPass, Rest
<1>3. FaelligBleibt(i)'
  BY <1>2 DEF FaelligBleibt
<1> QED
  BY <1>1, <1>3 DEF Stimmt

LEMMA AnfrageHaelt ==
  ASSUME NEW w \in AcWorker, AutocloseIInv, AnfrageAusfuehren(w)
  PROVE  AutocloseIInv'
<1> DEFINE a == anfrage[w]
           i == a.einsatz
<1>1. AutocloseTypeOK
  BY DEF AutocloseIInv
<1>2. a \in Anfragen /\ i \in Einsaetze /\ 0 \in 0..MaxAlter
  BY <1>1, FristenAssumption DEF AnfrageAusfuehren, AutocloseTypeOK, Anfragen, MaxAlter
<1>3. /\ UNCHANGED <<enabled, pruefLauf>> /\ anfrage' \in [AcWorker -> Anfragen \cup {None}]
      /\ Keepopen(a) \/ VonHandSchliessen(a) \/ VonHandWiederoeffnen(a)
  BY <1>1 DEF AnfrageAusfuehren, AutocloseTypeOK
<1>4. i = a.einsatz
  OBVIOUS
<1> HIDE DEF a, i
<1> DEFINE Form == /\ status' \in [Einsaetze -> {"active", "closed"}]
                   /\ alter' \in [Einsaetze -> 0..MaxAlter]
                   /\ warnung' \in [Einsaetze -> 0..Gnade \cup {None}]
                   /\ gewarnt' \in [Einsaetze -> {"nein", "ja", "verloren"}]
                   /\ ueberholt' \subseteq Einsaetze
<1>5. Form
  <2>1. CASE Keepopen(a)
    BY <1>1, <1>2, <1>4, <2>1 DEF Keepopen, WarnungLoeschen, AutocloseTypeOK
  <2>2. CASE VonHandSchliessen(a)
    BY <1>1, <1>2, <1>4, <2>2 DEF VonHandSchliessen, AutocloseTypeOK
  <2>3. CASE VonHandWiederoeffnen(a)
    BY <1>1, <1>2, <1>4, <2>3 DEF VonHandWiederoeffnen, WarnungLoeschen, AutocloseTypeOK
  <2> QED
    BY <1>3, <2>1, <2>2, <2>3
<1>6. AutocloseTypeOK'
  BY <1>1, <1>3, <1>5 DEF AutocloseTypeOK
<1>7. CASE VonHandSchliessen(a)
  BY <1>3, <1>6, <1>7, OhneEinflussHaelt DEF VonHandSchliessen
<1>8. ASSUME Keepopen(a) \/ VonHandWiederoeffnen(a), NEW j \in Einsaetze \ ueberholt'
      PROVE  Stimmt(j)'
  <2>1. /\ ueberholt \subseteq ueberholt'
        /\ WarnungLoeschen(a)
        /\ \A k \in Einsaetze \ {i} : alter'[k] = alter[k]
    BY <1>1, <1>2, <1>4, <1>8 DEF Keepopen, VonHandWiederoeffnen, AutocloseTypeOK
  <2>2. Stimmt(j)
    BY <1>8, <2>1 DEF AutocloseIInv
  <2>3. \A k \in Einsaetze \ {i} : warnung'[k] = warnung[k] /\ gewarnt'[k] = gewarnt[k]
    BY <1>1, <1>2, <1>4, <2>1 DEF WarnungLoeschen, AutocloseTypeOK
  <2>4. CASE j # i
    BY <1>3, <2>1, <2>2, <2>3, <2>4 DEF Stimmt, WarnungHatAlter, FaelligBleibt, Gewarnt
  <2>5. CASE j = i
    <3>1. ~InEinemPass(i)
      BY <1>2, <1>4, <1>8, <2>5 DEF Keepopen, VonHandWiederoeffnen
    <3>2. CASE warnung'[i] = None
      BY <1>2, <1>3, <1>6, <2>5, <3>1, <3>2, FreierEinsatzStimmt
    <3>3. CASE warnung'[i] # None
      <4>1. VonHandWiederoeffnen(a)
        BY <1>2, <1>4, <1>8, <2>5, <3>3 DEF Keepopen
      <4>2. /\ warnung'[i] = warnung[i] /\ gewarnt'[i] = gewarnt[i] /\ alter' = alter
        BY <1>1, <1>2, <1>4, <3>3, <4>1 DEF VonHandWiederoeffnen, WarnungLoeschen, AutocloseTypeOK
      <4> QED
        BY <1>3, <2>2, <2>5, <4>2 DEF Stimmt, WarnungHatAlter, FaelligBleibt, Gewarnt
    <3> QED
      BY <3>2, <3>3
  <2> QED
    BY <2>4, <2>5
<1> QED
  BY <1>3, <1>6, <1>7, <1>8 DEF AutocloseIInv

LEMMA FristHaelt ==
  ASSUME AutocloseIInv, FristVergeht
  PROVE  AutocloseIInv'
<1>1. AutocloseTypeOK /\ UNCHANGED <<status, enabled, pruefLauf, anfrage, gewarnt, ueberholt>>
  BY DEF AutocloseIInv, FristVergeht
<1>2. \A n \in Nat : \A x \in 0..n : FristAelter(x, n) \in 0..n /\ x <= FristAelter(x, n)
  BY DEF FristAelter
<1>3. /\ alter \in [Einsaetze -> 0..MaxAlter] /\ warnung \in [Einsaetze -> 0..Gnade \cup {None}]
      /\ Nach \in Nat /\ Gnade \in Nat /\ MaxAlter \in Nat /\ MaxAlter = Nach + Gnade
  BY <1>1, FristenAssumption DEF AutocloseTypeOK, MaxAlter
<1>4. \A i \in Einsaetze :
        /\ alter'[i] = FristAelter(alter[i], MaxAlter)
        /\ warnung[i] = None => warnung'[i] = None
        /\ warnung[i] # None =>
             warnung'[i] = FristAelter(warnung[i], Gnade) /\ warnung[i] \in 0..Gnade
  BY <1>3 DEF FristVergeht
<1>5. alter' \in [Einsaetze -> 0..MaxAlter] /\ \A i \in Einsaetze : alter'[i] >= alter[i]
  BY <1>2, <1>3 DEF FristVergeht
<1>6. warnung' \in [Einsaetze -> 0..Gnade \cup {None}]
  BY <1>2, <1>3, <1>4 DEF FristVergeht
<1>7. AutocloseTypeOK'
  BY <1>1, <1>5, <1>6 DEF AutocloseTypeOK
<1>8. ASSUME NEW i \in Einsaetze \ ueberholt'
      PROVE  Stimmt(i)'
  <2>1. Stimmt(i)
    BY <1>1, <1>8 DEF AutocloseIInv
  <2>2. Gewarnt(i) => Gewarnt(i)'
    BY <1>1 DEF Gewarnt
  <2>3. warnung'[i] # None => warnung[i] # None
                              /\ (alter[i] >= Nach + warnung[i] => alter'[i] >= Nach + warnung'[i])
    <3> SUFFICES ASSUME warnung'[i] # None
                 PROVE  /\ warnung[i] # None
                        /\ alter[i] >= Nach + warnung[i] => alter'[i] >= Nach + warnung'[i]
      OBVIOUS
    <3>1. warnung[i] # None /\ warnung[i] \in 0..Gnade /\ alter[i] \in 0..MaxAlter
      BY <1>3, <1>4
    <3>2. /\ alter'[i] = IF alter[i] < MaxAlter THEN alter[i] + 1 ELSE MaxAlter
          /\ warnung'[i] = IF warnung[i] < Gnade THEN warnung[i] + 1 ELSE Gnade
      BY <1>4, <3>1 DEF FristAelter
    <3> HIDE DEF MaxAlter
    <3> QED
      BY <1>3, <3>1, <3>2
  <2>4. \A v \in AcWorker : pruefLauf'[v] # None =>
          pruefLauf[v] # None /\ pruefLauf'[v].liste[i] \in {"fertig", pruefLauf[v].liste[i]}
    BY <1>1
  <2> QED
    BY <1>1, <1>5, <1>7, <2>1, <2>2, <2>3, <2>4, StimmtBleibt
<1> QED
  BY <1>7, <1>8 DEF AutocloseIInv

-----------------------------------------------------------------------------

LEMMA BedienungHaelt ==
  ASSUME NEW w \in AcWorker, AutocloseIInv, AutocloseBedienung(w)
  PROVE  AutocloseIInv'
<1>1. CASE AnfrageBeginnen(w)
  <2>1. AutocloseTypeOK' /\ UNCHANGED <<alter, warnung, gewarnt, pruefLauf, ueberholt>>
    BY <1>1 DEF AnfrageBeginnen, AutocloseIInv, AutocloseTypeOK
  <2> QED
    BY <2>1, OhneEinflussHaelt
<1>2. CASE EinstellungSpeichern
  <2>1. AutocloseTypeOK' /\ UNCHANGED <<alter, warnung, gewarnt, pruefLauf, ueberholt>>
    BY <1>2 DEF EinstellungSpeichern, AutocloseIInv, AutocloseTypeOK
  <2> QED
    BY <2>1, OhneEinflussHaelt
<1> QED
  BY <1>1, <1>2, AnfrageHaelt DEF AutocloseBedienung

LEMMA AutocloseSchritt ==
  ASSUME AutocloseIInv, [AutocloseNext]_autocloseVars
  PROVE  AutocloseIInv'
<1>1. CASE UNCHANGED autocloseVars
  BY <1>1 DEF autocloseVars, AutocloseIInv, AutocloseTypeOK, Stimmt, WarnungHatAlter,
     FaelligBleibt, Gewarnt
<1>2. ASSUME NEW w \in AcWorker, Pass(w)
      PROVE  AutocloseIInv'
  <2>1. ASSUME Pruefen(w)
        PROVE  AutocloseIInv'
    BY <2>1, WarnenHaelt, SchliessenHaelt, UebergehenHaelt DEF Pruefen
  <2> QED
    BY <1>2, <2>1, PassBeginnenHaelt, WarnungSendenHaelt, PassEndeHaelt DEF Pass
<1> QED
  BY <1>1, <1>2, PassEndeHaelt, BedienungHaelt, FristHaelt DEF AutocloseNext

\* What the loop closes was old enough and warned.
LEMMA GeschlossenesIstFaellig ==
  ASSUME AutocloseIInv, NEW w \in AcWorker, NEW i \in Einsaetze, Schliesst(w, i), i \notin ueberholt
  PROVE  alter[i] >= Nach + Gnade /\ Gewarnt(i)
BY DEF Schliesst, Schliessen, AutocloseIInv, Stimmt, FaelligBleibt

\* autoclose.py, for any workers, incidents and times, with passes that die and closings that
\* fail: the loops close an incident only when the whole time and the grace period have passed
\* since it was opened or last kept open, and after a warning, unless a user's answer and what
\* a pass or the request had read of the incident crossed.
THEOREM AutocloseHaelt ==
  AutocloseSpec => []AutocloseTypeOK /\ VolleFrist /\ NurNachWarnung
<1> DEFINE Volle == \A w \in AcWorker, i \in Einsaetze :
             (Schliesst(w, i) /\ i \notin ueberholt) => alter[i] >= Nach + Gnade
           Warnung == \A w \in AcWorker, i \in Einsaetze :
             (Schliesst(w, i) /\ i \notin ueberholt)
               => \/ gewarnt[i] # "nein"
                  \/ \E v \in AcWorker : pruefLauf[v] # None /\ i \in pruefLauf[v].warnen
<1>1. AutocloseInit => AutocloseIInv
  BY AutocloseAmAnfang
<1>2. AutocloseIInv /\ [AutocloseNext]_autocloseVars => AutocloseIInv'
  BY AutocloseSchritt
<1>3. AutocloseIInv => [Volle]_autocloseVars
  BY GeschlossenesIstFaellig
<1>4. AutocloseIInv => [Warnung]_autocloseVars
  BY GeschlossenesIstFaellig DEF Gewarnt
<1>5. AutocloseIInv => AutocloseTypeOK
  BY DEF AutocloseIInv
<1>6. (VolleFrist <=> [][Volle]_autocloseVars) /\ (NurNachWarnung <=> [][Warnung]_autocloseVars)
  BY DEF VolleFrist, NurNachWarnung
<1> HIDE DEF Volle, Warnung
<1>7. AutocloseSpec => []AutocloseTypeOK /\ [][Volle]_autocloseVars /\ [][Warnung]_autocloseVars
  BY <1>1, <1>2, <1>3, <1>4, <1>5, PTL DEF AutocloseSpec
<1> QED
  BY <1>6, <1>7

-----------------------------------------------------------------------------
(* Reminders *)

ErinPassZeilen ==
  [stand : {"schlaeft", "markiert", "meldet"}, markiert : SUBSET Eintraege,
   rest : SUBSET (Eintraege \X Nat)]

ErinTypen ==
  /\ laufend \in Betriebe
  /\ faellig \in [Eintraege -> {None, "spaeter", "jetzt"}]
  /\ gezeigt \in [Eintraege -> BOOLEAN]
  /\ pass \in [Workers -> ErinPassZeilen]
  /\ gemeldet \in [Eintraege -> Nat]
  /\ verloren \subseteq Eintraege
  /\ termine \in [Eintraege -> Nat]

\* A worker that does not run rests, and nobody holds a due date an item is to have yet.
PassPasst(w) ==
  /\ w \notin laufend \/ pass[w].stand = "schlaeft" => pass[w].rest = {}
  /\ w \notin laufend => pass[w].stand = "schlaeft"
  /\ \A r \in pass[w].rest : r[1] \in pass[w].markiert /\ r[2] <= termine[r[1]]

\* What is not marked was not told, and who has read it has not committed yet.
UngezeigtesIstNeu(i) ==
  ~gezeigt[i] => /\ gemeldet[i] = 0
                 /\ \A w \in InArbeit(i) : pass[w].stand = "markiert"

\* With one worker nothing changes between its look and its commit.
AlleinMarkiert(w) ==
  Cardinality(laufend) = 1 /\ pass[w].stand = "markiert" =>
    /\ \A i \in pass[w].markiert : ~gezeigt[i]
    /\ \A r \in pass[w].rest : r[2] = termine[r[1]]

\* The inductive invariant.
ErinIInv ==
  /\ ErinTypen
  /\ \A w \in Workers : PassPasst(w) /\ AlleinMarkiert(w)
  /\ \A i \in Eintraege : UngezeigtesIstNeu(i)
  /\ GezeigtHeisstGemeldet
  /\ HoechstensEinmalJeWorker

LEMMA ErinEndlich ==
  ASSUME ErinIInv
  PROVE  /\ IsFiniteSet(laufend) /\ Cardinality(laufend) \in Nat
         /\ \A i : /\ InArbeit(i) \subseteq laufend /\ IsFiniteSet(InArbeit(i))
                   /\ Cardinality(InArbeit(i)) \in Nat
                   /\ Cardinality(InArbeit(i)) <= Cardinality(laufend)
<1>1. laufend \subseteq Workers /\ IsFiniteSet(laufend)
  BY ErinAssumption, FS_Subset DEF ErinIInv, ErinTypen, Betriebe
<1>2. \A i : InArbeit(i) \subseteq laufend BY DEF InArbeit, ErinIInv, PassPasst
<1> QED BY <1>1, <1>2, FS_Subset, FS_CardinalityType

\* One running worker is the only one that can be at something.
LEMMA NurEiner ==
  ASSUME ErinIInv, Cardinality(laufend) = 1, NEW w \in Workers, NEW x \in Workers,
         pass[w].stand # "schlaeft", x \in laufend
  PROVE  w = x
<1>1. w \in laufend BY DEF ErinIInv, PassPasst
<1>2. IsFiniteSet(laufend) BY ErinEndlich
<1>3. PICK y : laufend = {y} BY <1>2, FS_Singleton
<1> QED BY <1>1, <1>3

LEMMA ErinInitIInv == ErinInit => ErinIInv
<1> SUFFICES ASSUME ErinInit PROVE ErinIInv OBVIOUS
<1>1. /\ laufend \in Betriebe /\ faellig \in [Eintraege -> {None, "spaeter", "jetzt"}]
      /\ gezeigt = [i \in Eintraege |-> FALSE] /\ pass = [w \in Workers |-> Schlafend]
      /\ gemeldet = [i \in Eintraege |-> 0] /\ verloren = {}
      /\ termine = [i \in Eintraege |-> 0]
  BY DEF ErinInit
<1>2. Schlafend \in ErinPassZeilen /\ Schlafend.rest = {} /\ Schlafend.stand = "schlaeft"
  BY DEF Schlafend, ErinPassZeilen
<1>3. ErinTypen BY <1>1, <1>2 DEF ErinTypen
<1>4. \A w \in Workers : PassPasst(w) /\ AlleinMarkiert(w)
  BY <1>1, <1>2 DEF PassPasst, AlleinMarkiert
<1>5. \A i \in Eintraege : InArbeit(i) = {} BY <1>1, <1>2 DEF InArbeit
<1>6. \A i \in Eintraege : UngezeigtesIstNeu(i) BY <1>1, <1>5 DEF UngezeigtesIstNeu
<1>7. GezeigtHeisstGemeldet BY <1>1 DEF GezeigtHeisstGemeldet
<1>8. HoechstensEinmalJeWorker
  <2>1. IsFiniteSet(laufend) BY <1>1, ErinAssumption, FS_Subset DEF Betriebe
  <2>2. Cardinality({}) = 0 /\ Cardinality(laufend) \in Nat
    BY <2>1, FS_EmptySet, FS_CardinalityType
  <2> QED BY <1>1, <1>5, <2>2 DEF HoechstensEinmalJeWorker
<1> QED BY <1>3, <1>4, <1>6, <1>7, <1>8 DEF ErinIInv

\* Steps that touch neither marks nor due dates nor the loops.
LEMMA ErinUnberuehrt ==
  ASSUME ErinIInv, UNCHANGED <<laufend, gezeigt, pass, gemeldet, verloren, termine>>,
         faellig' \in [Eintraege -> {None, "spaeter", "jetzt"}]
  PROVE  ErinIInv'
<1>1. \A i : InArbeit(i)' = InArbeit(i) BY DEF InArbeit
<1> QED
  BY <1>1 DEF ErinIInv, ErinTypen, PassPasst, AlleinMarkiert, UngezeigtesIstNeu,
              GezeigtHeisstGemeldet, HoechstensEinmalJeWorker

LEMMA TerminSetzenErhaelt ==
  ASSUME ErinIInv, NEW i \in Eintraege, TerminSetzen(i)
  PROVE  ErinIInv'
<1>1. /\ \E w \in laufend : pass[w].stand # "markiert"
      /\ faellig' = [faellig EXCEPT ![i] = "spaeter"]
      /\ gezeigt' = [gezeigt EXCEPT ![i] = FALSE]
      /\ termine' = [termine EXCEPT ![i] = termine[i] + 1]
      /\ gemeldet' = [gemeldet EXCEPT ![i] = 0]
      /\ verloren' = verloren \ {i}
      /\ laufend' = laufend /\ pass' = pass
  BY DEF TerminSetzen, Bedienbar, NeuZuMelden
<1>2. ErinTypen BY DEF ErinIInv
<1>3. ErinTypen' BY <1>1, <1>2 DEF ErinTypen
<1>4. \A j \in Eintraege : termine'[j] = IF j = i THEN termine[i] + 1 ELSE termine[j]
  BY <1>1, <1>2 DEF ErinTypen
<1>5. \A w \in Workers : \A r \in pass[w].rest : r[1] \in Eintraege /\ r[2] \in Nat
  BY <1>2 DEF ErinTypen, ErinPassZeilen
<1>6. \A w \in Workers : PassPasst(w)'
  <2> SUFFICES ASSUME NEW w \in Workers PROVE PassPasst(w)' OBVIOUS
  <2>1. PassPasst(w) BY DEF ErinIInv
  <2>2. ASSUME NEW r \in pass[w].rest PROVE r[1] \in pass[w].markiert /\ r[2] <= termine'[r[1]]
    <3>1. /\ r[1] \in Eintraege /\ r[2] \in Nat /\ termine[r[1]] \in Nat
          /\ r[1] \in pass[w].markiert /\ r[2] <= termine[r[1]]
      BY <1>2, <1>5, <2>1 DEF PassPasst, ErinTypen
    <3> QED BY <1>4, <3>1
  <2> QED BY <1>1, <2>1, <2>2 DEF PassPasst
<1>7. Cardinality(laufend) = 1 => \A w \in Workers : pass[w].stand # "markiert"
  BY <1>1, <1>2, NurEiner DEF ErinTypen, Betriebe
<1>8. \A w \in Workers : AlleinMarkiert(w)' BY <1>1, <1>7 DEF AlleinMarkiert
<1>9. InArbeit(i)' = {}
  <2> SUFFICES ASSUME NEW w \in Workers, <<i, termine'[i]>> \in pass[w].rest PROVE FALSE
    BY <1>1 DEF InArbeit
  <2>1. termine'[i] <= termine[i] BY DEF ErinIInv, PassPasst
  <2> QED BY <1>2, <1>4, <2>1 DEF ErinTypen
<1>10. \A j \in Eintraege \ {i} :
         /\ InArbeit(j)' = InArbeit(j) /\ gezeigt'[j] = gezeigt[j]
         /\ gemeldet'[j] = gemeldet[j] /\ (j \in verloren' <=> j \in verloren)
  BY <1>1, <1>2, <1>4 DEF InArbeit, ErinTypen
<1>11. ~gezeigt'[i] /\ gemeldet'[i] = 0 BY <1>1, <1>2 DEF ErinTypen
<1>12. \A j \in Eintraege : UngezeigtesIstNeu(j)'
  BY <1>1, <1>9, <1>10, <1>11 DEF UngezeigtesIstNeu, ErinIInv
<1>13. GezeigtHeisstGemeldet'
  BY <1>1, <1>10, <1>11 DEF GezeigtHeisstGemeldet, ErinIInv
<1>14. HoechstensEinmalJeWorker'
  <2>1. Cardinality({}) = 0 /\ Cardinality(laufend) \in Nat BY ErinEndlich, FS_EmptySet
  <2>2. Cardinality(InArbeit(i)') = 0 BY <1>9, <2>1
  <2>3. gemeldet'[i] + Cardinality(InArbeit(i)') <= Cardinality(laufend)
    BY <1>11, <2>1, <2>2
  <2>4. \A j \in Eintraege \ {i} :
          gemeldet'[j] + Cardinality(InArbeit(j)') <= Cardinality(laufend)
    BY <1>10 DEF HoechstensEinmalJeWorker, ErinIInv
  <2> QED BY <1>1, <2>3, <2>4 DEF HoechstensEinmalJeWorker
<1> QED BY <1>3, <1>6, <1>8, <1>12, <1>13, <1>14 DEF ErinIInv

LEMMA FaelligLesenErhaelt ==
  ASSUME ErinIInv, NEW w \in Workers, FaelligLesen(w)
  PROVE  ErinIInv'
<1> DEFINE due == {i \in Faellige : aktiv[i]}
           rest == {<<i, termine[i]>> : i \in due}
           neu == [stand |-> "markiert", markiert |-> Faellige, rest |-> rest]
<1>1. /\ w \in laufend /\ pass[w].stand = "schlaeft" /\ pass' = [pass EXCEPT ![w] = neu]
      /\ laufend' = laufend /\ faellig' = faellig /\ gezeigt' = gezeigt /\ gemeldet' = gemeldet
      /\ verloren' = verloren /\ termine' = termine
  BY DEF FaelligLesen
<1>2. ErinTypen BY DEF ErinIInv
<1>3. \A i \in Faellige : i \in Eintraege /\ ~gezeigt[i] BY DEF Faellige
<1>4. \A r \in rest : r \in Eintraege \X Nat /\ r[1] \in Faellige /\ r[2] = termine[r[1]]
  BY <1>2, <1>3 DEF ErinTypen
<1>5. \A i, k : <<i, k>> \in rest => i \in Faellige BY <1>4
<1> HIDE DEF rest
<1>6. /\ neu \in ErinPassZeilen /\ neu.stand = "markiert" /\ neu.markiert = Faellige
      /\ neu.rest = rest
  BY <1>3, <1>4 DEF ErinPassZeilen
<1> HIDE DEF neu
<1>7. ErinTypen' BY <1>1, <1>2, <1>6 DEF ErinTypen
<1>8. \A x \in Workers : pass'[x] = IF x = w THEN neu ELSE pass[x]
  BY <1>1, <1>2 DEF ErinTypen
<1>9. \A i \in Eintraege : termine[i] <= termine[i] BY <1>2 DEF ErinTypen
<1>10. \A x \in Workers : PassPasst(x)'
  BY <1>1, <1>3, <1>4, <1>6, <1>8, <1>9 DEF ErinIInv, PassPasst
<1>11. \A x \in Workers : AlleinMarkiert(x)'
  BY <1>1, <1>3, <1>4, <1>6, <1>8 DEF ErinIInv, AlleinMarkiert
<1>12. pass[w].rest = {} BY <1>1 DEF ErinIInv, PassPasst
<1>13. ASSUME NEW i \in Eintraege
       PROVE  /\ w \notin InArbeit(i)
              /\ InArbeit(i)' \subseteq InArbeit(i) \cup {w}
              /\ InArbeit(i) \subseteq InArbeit(i)'
              /\ gezeigt[i] => InArbeit(i)' = InArbeit(i)
  BY <1>1, <1>3, <1>5, <1>6, <1>8, <1>12 DEF InArbeit
<1>14. \A i \in Eintraege : UngezeigtesIstNeu(i)'
  BY <1>1, <1>6, <1>8, <1>13 DEF UngezeigtesIstNeu, ErinIInv, InArbeit
<1>15. GezeigtHeisstGemeldet' BY <1>1, <1>13 DEF GezeigtHeisstGemeldet, ErinIInv
<1>16. ASSUME NEW i \in Eintraege
       PROVE  gemeldet'[i] + Cardinality(InArbeit(i)') <= Cardinality(laufend')
  <2>1. CASE gezeigt[i] BY <1>1, <1>13, <2>1 DEF ErinIInv, HoechstensEinmalJeWorker
  <2>2. CASE ~gezeigt[i]
    <3>1. gemeldet[i] = 0 BY <2>2 DEF ErinIInv, UngezeigtesIstNeu
    <3>2. InArbeit(i)' \subseteq laufend BY <1>1, <1>13, ErinEndlich
    <3>3. /\ Cardinality(InArbeit(i)') <= Cardinality(laufend)
          /\ Cardinality(InArbeit(i)') \in Nat
      BY <3>2, ErinEndlich, FS_Subset, FS_CardinalityType
    <3> QED BY <1>1, <3>1, <3>3
  <2> QED BY <1>2, <2>1, <2>2 DEF ErinTypen
<1>17. HoechstensEinmalJeWorker' BY <1>16 DEF HoechstensEinmalJeWorker
<1> QED BY <1>7, <1>10, <1>11, <1>14, <1>15, <1>17 DEF ErinIInv

LEMMA MarkenSchreibenErhaelt ==
  ASSUME ErinIInv, NEW w \in Workers, MarkenSchreiben(w)
  PROVE  ErinIInv'
<1> DEFINE neu == [pass[w] EXCEPT !.stand = "meldet"]
           erste == {r[1] : r \in pass[w].rest}
<1>1. /\ pass[w].stand = "markiert" /\ pass' = [pass EXCEPT ![w] = neu]
      /\ gezeigt' = [i \in Eintraege |-> gezeigt[i] \/ i \in pass[w].markiert]
      /\ verloren' = verloren \cup (pass[w].markiert \ erste)
      /\ laufend' = laufend /\ faellig' = faellig /\ gemeldet' = gemeldet
      /\ termine' = termine
  BY DEF MarkenSchreiben
<1>2. ErinTypen BY DEF ErinIInv
<1>3. pass[w] \in ErinPassZeilen BY <1>2 DEF ErinTypen
<1>4. /\ neu \in ErinPassZeilen /\ neu.stand = "meldet" /\ neu.markiert = pass[w].markiert
      /\ neu.rest = pass[w].rest
  BY <1>3 DEF ErinPassZeilen
<1>5. pass[w].markiert \subseteq Eintraege BY <1>3 DEF ErinPassZeilen
<1> HIDE DEF neu
<1>6. gezeigt' \in [Eintraege -> BOOLEAN] BY <1>1
<1>7. \A i \in Eintraege : gezeigt'[i] <=> (gezeigt[i] \/ i \in pass[w].markiert) BY <1>1
<1>8. ErinTypen'
  BY <1>1, <1>2, <1>4, <1>5, <1>6 DEF ErinTypen
<1>9. \A x \in Workers : pass'[x] = IF x = w THEN neu ELSE pass[x]
  BY <1>1, <1>2 DEF ErinTypen
<1>10. \A x \in Workers : PassPasst(x)' BY <1>1, <1>4, <1>9 DEF ErinIInv, PassPasst
<1>11. Cardinality(laufend) = 1 => \A x \in Workers \ {w} : pass[x].stand = "schlaeft"
  BY <1>1, NurEiner DEF ErinIInv, PassPasst
<1>12. \A x \in Workers : AlleinMarkiert(x)'
  BY <1>1, <1>4, <1>9, <1>11 DEF AlleinMarkiert
<1>13. \A i : InArbeit(i)' = InArbeit(i) BY <1>1, <1>4, <1>9 DEF InArbeit
<1>14. \A i \in Eintraege : UngezeigtesIstNeu(i)'
  <2> SUFFICES ASSUME NEW i \in Eintraege, ~gezeigt'[i]
               PROVE  gemeldet'[i] = 0 /\ \A x \in InArbeit(i) : pass'[x].stand = "markiert"
    BY <1>13 DEF UngezeigtesIstNeu
  <2>1. ~gezeigt[i] /\ i \notin pass[w].markiert BY <1>7
  <2>2. w \notin InArbeit(i) BY <2>1 DEF InArbeit, ErinIInv, PassPasst
  <2> QED BY <1>1, <1>9, <2>1, <2>2 DEF ErinIInv, UngezeigtesIstNeu, InArbeit
<1>15. GezeigtHeisstGemeldet'
  <2> SUFFICES ASSUME NEW i \in Eintraege, Cardinality(laufend) = 1, gezeigt'[i]
               PROVE  gemeldet[i] > 0 \/ InArbeit(i) # {} \/ i \in verloren'
    BY <1>1, <1>13 DEF GezeigtHeisstGemeldet
  <2>1. CASE gezeigt[i] BY <1>1, <2>1 DEF ErinIInv, GezeigtHeisstGemeldet
  <2>2. CASE i \in pass[w].markiert /\ i \notin erste BY <1>1, <2>2
  <2>3. CASE i \in erste
    <3>1. PICK r \in pass[w].rest : r[1] = i BY <2>3
    <3>2. r[2] = termine[i] BY <1>1, <3>1 DEF ErinIInv, AlleinMarkiert
    <3>3. r = <<i, termine[i]>> BY <1>3, <3>1, <3>2 DEF ErinPassZeilen
    <3> QED BY <3>3 DEF InArbeit
  <2> QED BY <1>7, <2>1, <2>2, <2>3
<1>16. HoechstensEinmalJeWorker' BY <1>1, <1>13 DEF ErinIInv, HoechstensEinmalJeWorker
<1> QED BY <1>8, <1>10, <1>12, <1>14, <1>15, <1>16 DEF ErinIInv

\* A worker forgets what it had in hand or a part of it.
LEMMA WenigerInArbeit ==
  ASSUME ErinIInv, NEW w \in Workers, NEW neu \in ErinPassZeilen, pass' = [pass EXCEPT ![w] = neu],
         laufend' = laufend /\ gezeigt' = gezeigt /\ termine' = termine,
         neu.rest \subseteq pass[w].rest, neu.markiert = pass[w].markiert \/ neu.rest = {},
         (neu.stand = pass[w].stand /\ neu.stand = "meldet") \/ neu = Schlafend
  PROVE  /\ \A x \in Workers : PassPasst(x)' /\ AlleinMarkiert(x)'
         /\ pass' \in [Workers -> ErinPassZeilen]
         /\ \A i : InArbeit(i)' = IF <<i, termine[i]>> \in neu.rest THEN InArbeit(i)
                                 ELSE InArbeit(i) \ {w}
<1>1. ErinTypen BY DEF ErinIInv
<1>2. \A x \in Workers : pass'[x] = IF x = w THEN neu ELSE pass[x] BY <1>1 DEF ErinTypen
<1>3. Schlafend.stand = "schlaeft" /\ Schlafend.rest = {} BY DEF Schlafend
<1>4. \A x \in Workers : PassPasst(x)' BY <1>2, <1>3 DEF ErinIInv, PassPasst
<1>5. \A x \in Workers : AlleinMarkiert(x)' BY <1>2, <1>3 DEF ErinIInv, AlleinMarkiert
<1>6. ASSUME NEW i
      PROVE  InArbeit(i)' = IF <<i, termine[i]>> \in neu.rest THEN InArbeit(i)
                            ELSE InArbeit(i) \ {w}
  BY <1>2 DEF InArbeit
<1>7. pass' \in [Workers -> ErinPassZeilen] BY <1>1 DEF ErinTypen
<1> QED BY <1>4, <1>5, <1>6, <1>7

LEMMA MeldenErhaelt ==
  ASSUME ErinIInv, NEW w \in Workers, Melden(w)
  PROVE  ErinIInv'
<1>1. /\ pass[w].stand = "meldet" /\ ErinTypen /\ pass[w] \in ErinPassZeilen
      /\ laufend' = laufend /\ faellig' = faellig /\ gezeigt' = gezeigt /\ verloren' = verloren
      /\ termine' = termine
  BY DEF Melden, ErinIInv, ErinTypen
<1>2. CASE pass[w].rest = {} /\ pass' = [pass EXCEPT ![w] = Schlafend] /\ UNCHANGED gemeldet
  <2>1. Schlafend \in ErinPassZeilen /\ Schlafend.rest = {} BY DEF Schlafend, ErinPassZeilen
  <2>2. /\ \A x \in Workers : PassPasst(x)' /\ AlleinMarkiert(x)'
        /\ pass' \in [Workers -> ErinPassZeilen]
        /\ \A i : InArbeit(i)' = InArbeit(i)
    <3>1. \A i : InArbeit(i) \ {w} = InArbeit(i) BY <1>2 DEF InArbeit
    <3>2. \A i : <<i, termine[i]>> \notin Schlafend.rest BY <2>1
    <3>3. Schlafend.rest \subseteq pass[w].rest BY <2>1
    <3> QED BY <1>1, <1>2, <2>1, <3>1, <3>2, <3>3, WenigerInArbeit
  <2>3. \A x \in Workers : x # w => pass'[x] = pass[x] BY <1>1, <1>2 DEF ErinTypen
  <2>4. \A i \in Eintraege : UngezeigtesIstNeu(i)'
    BY <1>1, <1>2, <2>2, <2>3 DEF ErinIInv, UngezeigtesIstNeu, InArbeit
  <2>5. GezeigtHeisstGemeldet' /\ HoechstensEinmalJeWorker'
    BY <1>1, <1>2, <2>2 DEF ErinIInv, GezeigtHeisstGemeldet, HoechstensEinmalJeWorker
  <2>6. ErinTypen' BY <1>1, <1>2, <2>2 DEF ErinTypen
  <2> QED BY <2>2, <2>4, <2>5, <2>6 DEF ErinIInv
<1>3. ASSUME NEW r \in pass[w].rest,
             pass' = [pass EXCEPT ![w].rest = RestNach(@, r)],
             gemeldet' = IF r[2] = termine[r[1]]
                           THEN [gemeldet EXCEPT ![r[1]] = @ + 1] ELSE gemeldet
      PROVE  ErinIInv'
  <2> DEFINE neu == [pass[w] EXCEPT !.rest = pass[w].rest \ {r}]
  <2>1. pass' = [pass EXCEPT ![w] = neu] BY <1>3 DEF RestNach
  <2>2. /\ neu \in ErinPassZeilen /\ neu.rest = pass[w].rest \ {r} /\ neu.stand = "meldet"
        /\ neu.markiert = pass[w].markiert
    BY <1>1 DEF ErinPassZeilen
  <2> HIDE DEF neu
  <2>3. /\ \A x \in Workers : PassPasst(x)' /\ AlleinMarkiert(x)'
        /\ pass' \in [Workers -> ErinPassZeilen]
        /\ \A i : InArbeit(i)' = IF <<i, termine[i]>> \in neu.rest THEN InArbeit(i)
                                ELSE InArbeit(i) \ {w}
    BY <1>1, <2>1, <2>2, WenigerInArbeit
  <2>4. r \in Eintraege \X Nat /\ r = <<r[1], r[2]>> /\ r[1] \in Eintraege
    BY <1>1, <1>3 DEF ErinPassZeilen
  <2>5. \A i : w \in InArbeit(i) <=> <<i, termine[i]>> \in pass[w].rest BY DEF InArbeit
  <2>6. \A x \in Workers : pass'[x].stand = pass[x].stand
    BY <1>1, <2>1, <2>2 DEF ErinTypen
  <2>7. CASE r[2] # termine[r[1]]
    <3>1. \A i : InArbeit(i)' = InArbeit(i)
      <4> SUFFICES ASSUME NEW i PROVE InArbeit(i)' = InArbeit(i) OBVIOUS
      <4>1. <<i, termine[i]>> # r BY <2>4, <2>7
      <4>2. CASE <<i, termine[i]>> \in neu.rest BY <2>3, <4>2
      <4>3. CASE <<i, termine[i]>> \notin neu.rest
        <5>1. w \notin InArbeit(i) BY <2>2, <2>5, <4>1, <4>3
        <5> QED BY <2>3, <4>3, <5>1
      <4> QED BY <4>2, <4>3
    <3>2. gemeldet' = gemeldet BY <1>3, <2>7
    <3>3. \A i \in Eintraege : UngezeigtesIstNeu(i)'
      BY <1>1, <2>6, <3>1, <3>2 DEF ErinIInv, UngezeigtesIstNeu, InArbeit
    <3>4. GezeigtHeisstGemeldet' /\ HoechstensEinmalJeWorker'
      BY <1>1, <3>1, <3>2 DEF ErinIInv, GezeigtHeisstGemeldet, HoechstensEinmalJeWorker
    <3>5. ErinTypen' BY <1>1, <2>3, <3>2 DEF ErinTypen
    <3> QED BY <2>3, <3>3, <3>4, <3>5 DEF ErinIInv
  <2>8. CASE r[2] = termine[r[1]]
    <3> DEFINE i == r[1]
    <3>1. /\ i \in Eintraege /\ r = <<i, termine[i]>> /\ gemeldet[i] \in Nat
          /\ gemeldet' = [gemeldet EXCEPT ![i] = gemeldet[i] + 1]
      BY <1>1, <1>3, <2>4, <2>8 DEF ErinTypen
    <3> HIDE DEF i
    <3>2. w \in InArbeit(i) /\ InArbeit(i)' = InArbeit(i) \ {w}
      BY <1>3, <2>2, <2>3, <2>5, <3>1
    <3>3. \A j \in Eintraege \ {i} : InArbeit(j)' = InArbeit(j)
      <4> SUFFICES ASSUME NEW j \in Eintraege \ {i} PROVE InArbeit(j)' = InArbeit(j) OBVIOUS
      <4>1. <<j, termine[j]>> # r BY <3>1
      <4>2. CASE <<j, termine[j]>> \in neu.rest BY <2>3, <4>2
      <4>3. CASE <<j, termine[j]>> \notin neu.rest
        <5>1. w \notin InArbeit(j) BY <2>2, <2>5, <4>1, <4>3
        <5> QED BY <2>3, <4>3, <5>1
      <4> QED BY <4>2, <4>3
    <3>4. gezeigt[i] BY <1>1, <3>1, <3>2 DEF ErinIInv, UngezeigtesIstNeu
    <3>5. ErinTypen' BY <1>1, <2>3, <3>1 DEF ErinTypen
    <3>6. /\ gemeldet'[i] = gemeldet[i] + 1
          /\ \A j \in Eintraege \ {i} : gemeldet'[j] = gemeldet[j]
      BY <1>1, <3>1 DEF ErinTypen
    <3>7. \A j \in Eintraege : UngezeigtesIstNeu(j)'
      BY <1>1, <2>6, <3>3, <3>4, <3>6 DEF ErinIInv, UngezeigtesIstNeu, InArbeit
    <3>8. GezeigtHeisstGemeldet'
      BY <1>1, <3>1, <3>3, <3>6 DEF ErinIInv, GezeigtHeisstGemeldet
    <3>9. HoechstensEinmalJeWorker'
      <4>1. /\ Cardinality(InArbeit(i) \ {w}) = Cardinality(InArbeit(i)) - 1
            /\ Cardinality(InArbeit(i)) \in Nat
        BY <3>2, ErinEndlich, FS_RemoveElement
      <4>2. gemeldet[i] + Cardinality(InArbeit(i)) <= Cardinality(laufend)
        BY <3>1 DEF ErinIInv, HoechstensEinmalJeWorker
      <4>3. gemeldet'[i] + Cardinality(InArbeit(i)') <= Cardinality(laufend')
        BY <1>1, <3>1, <3>2, <3>6, <4>1, <4>2, ErinEndlich
      <4> QED BY <1>1, <3>3, <3>6, <4>3 DEF ErinIInv, HoechstensEinmalJeWorker
    <3> QED BY <2>3, <3>5, <3>7, <3>8, <3>9 DEF ErinIInv
  <2> QED BY <2>7, <2>8
<1> QED BY <1>2, <1>3 DEF Melden

LEMMA AbbruchErhaelt ==
  ASSUME ErinIInv, NEW w \in Workers, Abbruch(w)
  PROVE  ErinIInv'
<1>1. /\ w \in laufend /\ pass[w].stand # "schlaeft" /\ pass' = [pass EXCEPT ![w] = Schlafend]
      /\ laufend' = laufend /\ faellig' = faellig /\ gezeigt' = gezeigt /\ gemeldet' = gemeldet
      /\ termine' = termine
      /\ verloren' = IF pass[w].stand = "meldet"
                       THEN verloren \cup {i \in Eintraege : <<i, termine[i]>> \in pass[w].rest}
                       ELSE verloren
      /\ ErinTypen
  BY DEF Abbruch, ErinIInv
<1>2. Schlafend \in ErinPassZeilen /\ Schlafend.rest = {} BY DEF Schlafend, ErinPassZeilen
<1>3. /\ \A x \in Workers : PassPasst(x)' /\ AlleinMarkiert(x)'
      /\ pass' \in [Workers -> ErinPassZeilen]
      /\ \A i : InArbeit(i)' = InArbeit(i) \ {w}
  <2>1. \A i : <<i, termine[i]>> \notin Schlafend.rest BY <1>2
  <2>2. Schlafend.rest \subseteq pass[w].rest BY <1>2
  <2> QED BY <1>1, <1>2, <2>1, <2>2, WenigerInArbeit
<1>4. \A x \in Workers : x # w => pass'[x] = pass[x] BY <1>1 DEF ErinTypen
<1>5. verloren \subseteq verloren' /\ verloren' \subseteq Eintraege BY <1>1 DEF ErinTypen
<1>6. ErinTypen' BY <1>1, <1>3, <1>5 DEF ErinTypen
<1>7. \A i \in Eintraege : UngezeigtesIstNeu(i)'
  BY <1>1, <1>3, <1>4 DEF ErinIInv, UngezeigtesIstNeu, InArbeit
<1>8. GezeigtHeisstGemeldet'
  <2> SUFFICES ASSUME NEW i \in Eintraege, Cardinality(laufend) = 1, gezeigt[i]
               PROVE  gemeldet[i] > 0 \/ InArbeit(i)' # {} \/ i \in verloren'
    BY <1>1 DEF GezeigtHeisstGemeldet
  <2>1. gemeldet[i] > 0 \/ InArbeit(i) # {} \/ i \in verloren
    BY DEF ErinIInv, GezeigtHeisstGemeldet
  <2>2. CASE w \notin InArbeit(i) BY <1>3, <1>5, <2>1, <2>2
  <2>3. CASE w \in InArbeit(i)
    <3>1. <<i, termine[i]>> \in pass[w].rest BY <2>3 DEF InArbeit
    <3>2. <<i, termine[i]>>[1] \in pass[w].markiert BY <3>1 DEF ErinIInv, PassPasst
    <3>3. pass[w].stand # "markiert" BY <3>2 DEF ErinIInv, AlleinMarkiert
    <3>4. pass[w].stand = "meldet" BY <1>1, <3>3 DEF ErinTypen, ErinPassZeilen
    <3> QED BY <1>1, <3>1, <3>4
  <2> QED BY <2>2, <2>3
<1>9. HoechstensEinmalJeWorker'
  <2> SUFFICES ASSUME NEW i \in Eintraege
               PROVE  gemeldet[i] + Cardinality(InArbeit(i)') <= Cardinality(laufend)
    BY <1>1 DEF HoechstensEinmalJeWorker
  <2>1. gemeldet[i] + Cardinality(InArbeit(i)) <= Cardinality(laufend)
    BY DEF ErinIInv, HoechstensEinmalJeWorker
  <2>2. InArbeit(i)' \subseteq InArbeit(i) BY <1>3
  <2>3. /\ Cardinality(InArbeit(i)') <= Cardinality(InArbeit(i))
        /\ Cardinality(InArbeit(i)') \in Nat
    BY <2>2, ErinEndlich, FS_Subset, FS_CardinalityType
  <2>4. gemeldet[i] \in Nat BY <1>1 DEF ErinTypen
  <2> QED BY <2>1, <2>3, <2>4, ErinEndlich
<1> QED BY <1>3, <1>6, <1>7, <1>8, <1>9 DEF ErinIInv

LEMMA ErinSchritt == ErinIInv /\ [ErinNext]_erinVars => ErinIInv'
<1> SUFFICES ASSUME ErinIInv, [ErinNext]_erinVars PROVE ErinIInv' OBVIOUS
<1>1. faellig \in [Eintraege -> {None, "spaeter", "jetzt"}] BY DEF ErinIInv, ErinTypen
<1>2. ASSUME NEW i \in Eintraege,
             TerminLoeschen(i) \/ FertigSetzen(i) \/ StatusWechseln(i) \/ ZeitVergeht(i)
      PROVE  ErinIInv'
  <2>1. UNCHANGED <<laufend, gezeigt, pass, gemeldet, verloren, termine>>
    BY <1>2 DEF TerminLoeschen, FertigSetzen, StatusWechseln, ZeitVergeht
  <2>2. faellig' \in [Eintraege -> {None, "spaeter", "jetzt"}]
    BY <1>1, <1>2 DEF TerminLoeschen, FertigSetzen, StatusWechseln, ZeitVergeht
  <2> QED BY <2>1, <2>2, ErinUnberuehrt
<1>3. CASE UNCHANGED erinVars BY <1>1, <1>3, ErinUnberuehrt DEF erinVars
<1> QED
  BY <1>2, <1>3, TerminSetzenErhaelt, FaelligLesenErhaelt, MarkenSchreibenErhaelt,
     MeldenErhaelt, AbbruchErhaelt
  DEF ErinNext, Durchgang

LEMMA ErinTypenGenuegen == ErinIInv => ErinTypeOK
BY DEF ErinIInv, ErinTypen, ErinPassZeilen, PassPasst, ErinTypeOK

\* task_reminder.py, for any number of items and workers: for one due date nobody tells an
\* item more often than there are workers; with one worker what is marked was told, is about
\* to be or was lost with the worker.
THEOREM ErinnerungHaelt ==
  ErinSpec => []ErinTypeOK /\ []GezeigtHeisstGemeldet /\ []HoechstensEinmalJeWorker
<1>1. ErinIInv => GezeigtHeisstGemeldet /\ HoechstensEinmalJeWorker BY DEF ErinIInv
<1> QED BY ErinInitIInv, ErinSchritt, ErinTypenGenuegen, <1>1, PTL DEF ErinSpec

-----------------------------------------------------------------------------
(* Breathing apparatus *)

\* What was told is remembered, or is among what the pass under way found and is not told
\* again by it.
GehoertIstBekannt ==
  IF lauf = None THEN gehoert \subseteq gesendet
  ELSE gehoert \subseteq lauf.aktiv /\ gehoert \cap lauf.rest = {}

\* The inductive invariant.
AtemschutzIInv ==
  /\ AtemschutzTypeOK
  /\ lauf \in LaufZeilen \cup {None}
  /\ GehoertIstBekannt

Waechterlos == UNCHANGED <<gesendet, lauf, gehoert>>

LEMMA MaximalPositiv == Maximal \in Nat /\ Maximal > 0 /\ None \notin 0..Maximal
BY DrittelAssumption, AtemschutzNoneAssumption DEF Maximal

\* Routes and time leave the watchdog alone: their types are all there is to show.
LEMMA OhneWaechter ==
  ASSUME AtemschutzIInv, Waechterlos,
         laeuft' \in BOOLEAN, imEinsatz' \in BOOLEAN, tief' \in BOOLEAN,
         seit' \in 0..Maximal \cup {None},
         truppMeldung' # None => seit' # None /\ truppMeldung' \in 0..seit',
         quittung' \in [Arten -> {None, "vorher", "seither"}]
  PROVE  AtemschutzIInv'
BY DEF AtemschutzIInv, AtemschutzTypeOK, GehoertIstBekannt, Waechterlos

LEMMA AelterGut ==
  ASSUME NEW n \in 0..Maximal \cup {None}
  PROVE  /\ Aelter(n) \in 0..Maximal \cup {None}
         /\ Aelter(n) = None <=> n = None
         /\ n # None => Aelter(n) >= n /\ n \in 0..Maximal /\ Aelter(n) \in 0..Maximal
BY MaximalPositiv DEF Aelter

LEMMA BedienungErhaelt ==
  ASSUME AtemschutzIInv, TruppBedienung \/ TruppZeitVergeht
  PROVE  AtemschutzIInv' /\ Waechterlos
<1>1. /\ laeuft \in BOOLEAN /\ imEinsatz \in BOOLEAN /\ tief \in BOOLEAN
      /\ seit \in 0..Maximal \cup {None}
      /\ truppMeldung # None => seit # None /\ truppMeldung \in 0..seit
      /\ quittung \in [Arten -> {None, "vorher", "seither"}]
  BY DEF AtemschutzIInv, AtemschutzTypeOK
<1>2. 0 \in 0..Maximal /\ 0 # None BY MaximalPositiv
<1>3. Waechterlos
  BY DEF TruppBedienung, TruppZeitVergeht, Starten, StatusSetzen, LogPressure, UpdateMeldung,
         AckWarning, EinsatzSchliessen, EinsatzWiederoeffnen, waechter, Waechterlos
<1>4. ASSUME Starten PROVE AtemschutzIInv'
  <2>1. /\ imEinsatz' = TRUE /\ seit' = 0 /\ truppMeldung' = None
        /\ quittung' = [k \in Arten |-> IF quittung[k] = None THEN None ELSE "vorher"]
        /\ laeuft' = laeuft /\ tief' = tief
    BY <1>4 DEF Starten
  <2>2. quittung' \in [Arten -> {None, "vorher", "seither"}] BY <2>1
  <2>3. imEinsatz' \in BOOLEAN BY <2>1
  <2> QED BY <1>1, <1>2, <1>3, <2>1, <2>2, <2>3, OhneWaechter
<1>5. ASSUME NEW b \in BOOLEAN, StatusSetzen(b) PROVE AtemschutzIInv'
  BY <1>1, <1>3, <1>5, OhneWaechter DEF StatusSetzen
<1>6. ASSUME Gemeldet, seit' = seit
      PROVE  /\ truppMeldung' # None => seit' # None /\ truppMeldung' \in 0..seit'
             /\ quittung' \in [Arten -> {None, "vorher", "seither"}]
  <2>1. /\ truppMeldung' = IF seit = None THEN None ELSE 0
        /\ quittung' = [quittung EXCEPT !["one_third"] = None]
    BY <1>6 DEF Gemeldet
  <2>2. quittung' \in [Arten -> {None, "vorher", "seither"}] BY <1>1, <2>1
  <2>3. seit # None => 0 \in 0..seit BY <1>1, MaximalPositiv
  <2> QED BY <1>6, <2>1, <2>2, <2>3
<1>7. ASSUME NEW b \in BOOLEAN, LogPressure(b) PROVE AtemschutzIInv'
  <2>1. /\ tief' = (tief \/ b) /\ Gemeldet
        /\ laeuft' = laeuft /\ imEinsatz' = imEinsatz /\ seit' = seit
    BY <1>7 DEF LogPressure
  <2>2. tief' \in BOOLEAN BY <2>1
  <2> QED BY <1>1, <1>3, <1>6, <2>1, <2>2, OhneWaechter
<1>8. ASSUME UpdateMeldung PROVE AtemschutzIInv'
  <2>1. /\ Gemeldet /\ tief' = tief
        /\ laeuft' = laeuft /\ imEinsatz' = imEinsatz /\ seit' = seit
    BY <1>8 DEF UpdateMeldung
  <2> QED BY <1>1, <1>3, <1>6, <2>1, OhneWaechter
<1>9. ASSUME NEW k \in Arten, AckWarning(k) PROVE AtemschutzIInv'
  BY <1>1, <1>3, <1>9, OhneWaechter DEF AckWarning
<1>10. ASSUME EinsatzSchliessen \/ EinsatzWiederoeffnen PROVE AtemschutzIInv'
  BY <1>1, <1>3, <1>10, OhneWaechter DEF EinsatzSchliessen, EinsatzWiederoeffnen, trupp
<1>11. ASSUME TruppZeitVergeht PROVE AtemschutzIInv'
  <2>1. /\ seit' = Aelter(seit) /\ truppMeldung' = Aelter(truppMeldung)
        /\ laeuft' = laeuft /\ imEinsatz' = imEinsatz /\ tief' = tief /\ quittung' = quittung
    BY <1>11 DEF TruppZeitVergeht
  <2>2. seit' \in 0..Maximal \cup {None} BY <1>1, <2>1, AelterGut
  <2>3. truppMeldung' # None => seit' # None /\ truppMeldung' \in 0..seit'
    BY <1>1, <2>1, MaximalPositiv DEF Aelter
  <2> QED BY <1>1, <1>3, <2>1, <2>2, <2>3, OhneWaechter
<1> QED
  BY <1>3, <1>4, <1>5, <1>7, <1>8, <1>9, <1>10, <1>11 DEF TruppBedienung

LEMMA WaechterErhaelt ==
  ASSUME AtemschutzIInv, Watchdog \/ Neustart
  PROVE  AtemschutzIInv' /\ UNCHANGED trupp
<1>1. UNCHANGED trupp /\ laeuft' = laeuft
  BY DEF Watchdog, TruppLesen, Senden, Merken, Neustart
<1>2. /\ imEinsatz' = imEinsatz /\ seit' = seit /\ truppMeldung' = truppMeldung
      /\ tief' = tief /\ quittung' = quittung
  BY <1>1 DEF trupp
<1>3. /\ AtemschutzTypeOK /\ GehoertIstBekannt /\ lauf \in LaufZeilen \cup {None}
      /\ gesendet \subseteq Arten /\ gehoert \subseteq Arten
  BY DEF AtemschutzIInv, AtemschutzTypeOK
<1>4. ASSUME gesendet' \subseteq Arten, gehoert' \subseteq Arten,
             lauf' \in LaufZeilen \cup {None},
             lauf' # None => lauf'.aktiv \subseteq Arten /\ lauf'.rest \subseteq lauf'.aktiv,
             GehoertIstBekannt'
      PROVE  AtemschutzIInv'
  BY <1>1, <1>2, <1>3, <1>4 DEF AtemschutzIInv, AtemschutzTypeOK
<1>5. Warnungen \subseteq Arten BY DEF Warnungen
<1>6. ASSUME TruppLesen PROVE AtemschutzIInv'
  <2>1. lauf = None /\ gehoert' = gehoert \cap Warnungen /\ gehoert \subseteq gesendet
    BY <1>3, <1>6 DEF TruppLesen, GehoertIstBekannt
  <2>2. CASE imEinsatz
    <3> DEFINE neu == [aktiv |-> Warnungen, rest |-> Warnungen \ gesendet]
    <3>1. lauf' = neu /\ gesendet' = gesendet
      BY <1>6, <2>2 DEF TruppLesen, NeueWarnungen
    <3>2. neu \in LaufZeilen /\ neu.aktiv = Warnungen /\ neu.rest = Warnungen \ gesendet
      BY <1>5 DEF LaufZeilen
    <3> HIDE DEF neu
    <3>3. neu # None BY <3>2, AtemschutzNoneAssumption
    <3>4. GehoertIstBekannt' BY <2>1, <3>1, <3>2, <3>3 DEF GehoertIstBekannt
    <3> QED BY <1>3, <1>4, <1>5, <2>1, <3>1, <3>2, <3>4
  <2>3. CASE ~imEinsatz
    <3>1. gesendet' = {} /\ lauf' = None BY <1>6, <2>1, <2>3 DEF TruppLesen
    <3>2. Warnungen = {} BY <2>3 DEF Warnungen, MaxExceeded, MaxErreicht, OneThirdDue
    <3>3. GehoertIstBekannt' BY <2>1, <3>1, <3>2 DEF GehoertIstBekannt
    <3> QED BY <1>4, <2>1, <3>1, <3>2, <3>3
  <2> QED BY <2>2, <2>3
<1>7. ASSUME NEW k \in Arten, Senden(k) PROVE AtemschutzIInv'
  <2> DEFINE neu == [lauf EXCEPT !.rest = lauf.rest \ {k}]
  <2>1. /\ lauf # None /\ k \in lauf.rest /\ lauf' = neu /\ gehoert' = gehoert \cup {k}
        /\ gesendet' = gesendet
    BY <1>7 DEF Senden
  <2>2. /\ lauf \in LaufZeilen /\ lauf.rest \subseteq lauf.aktiv /\ lauf.aktiv \subseteq Arten
        /\ gehoert \subseteq lauf.aktiv /\ gehoert \cap lauf.rest = {}
    BY <1>3, <2>1 DEF GehoertIstBekannt, AtemschutzTypeOK
  <2>3. neu \in LaufZeilen /\ neu.aktiv = lauf.aktiv /\ neu.rest = lauf.rest \ {k}
    BY <2>2 DEF LaufZeilen
  <2> HIDE DEF neu
  <2>4. neu # None BY <2>3, AtemschutzNoneAssumption
  <2>5. GehoertIstBekannt' BY <2>1, <2>2, <2>3, <2>4 DEF GehoertIstBekannt
  <2> QED BY <1>3, <1>4, <2>1, <2>2, <2>3, <2>5
<1>8. ASSUME Merken PROVE AtemschutzIInv'
  <2>1. lauf # None /\ gesendet' = lauf.aktiv /\ lauf' = None /\ gehoert' = gehoert
    BY <1>8 DEF Merken, SichMerken
  <2>2. gehoert \subseteq lauf.aktiv /\ lauf.aktiv \subseteq Arten
    BY <1>3, <2>1 DEF GehoertIstBekannt, AtemschutzTypeOK
  <2>3. GehoertIstBekannt' BY <2>1, <2>2 DEF GehoertIstBekannt
  <2> QED BY <1>3, <1>4, <2>1, <2>2, <2>3
<1>9. ASSUME Neustart PROVE AtemschutzIInv'
  <2>1. lauf' = None /\ gesendet' = {} /\ gehoert' = {} BY <1>9 DEF Neustart
  <2> QED BY <1>4, <2>1 DEF GehoertIstBekannt
<1> QED BY <1>1, <1>6, <1>7, <1>8, <1>9 DEF Watchdog

LEMMA AtemschutzInitIInv == AtemschutzInit => AtemschutzIInv
BY DEF AtemschutzInit, AtemschutzIInv, AtemschutzTypeOK, GehoertIstBekannt

LEMMA AtemschutzSchritt == AtemschutzIInv /\ [AtemschutzNext]_atemschutzVars => AtemschutzIInv'
<1>1. ASSUME AtemschutzIInv, UNCHANGED atemschutzVars PROVE AtemschutzIInv'
  BY <1>1 DEF atemschutzVars, AtemschutzIInv, AtemschutzTypeOK, GehoertIstBekannt
<1> QED BY <1>1, BedienungErhaelt, WaechterErhaelt DEF AtemschutzNext

\* The withdrawal pressure and the maximum time stay due whatever else is done.
LEMMA DringendesBleibt ==
  ASSUME AtemschutzIInv, AtemschutzNext, NEW k \in {"withdraw", "max_time"},
         k \in Warnungen, k \notin Warnungen'
  PROVE  quittung'[k] # quittung[k] \/ ~imEinsatz' \/ (seit' = 0 /\ seit # 0)
<1>1. /\ seit \in 0..Maximal \cup {None}
      /\ quittung \in [Arten -> {None, "vorher", "seither"}]
  BY DEF AtemschutzIInv, AtemschutzTypeOK
<1>2. k \in Arten /\ imEinsatz /\ seit # None /\ quittung[k] = None
  BY DEF Arten, Warnungen, WithdrawDue, MaxExceeded, MaxErreicht
<1>3. SUFFICES ASSUME quittung'[k] = quittung[k], imEinsatz', seit' # 0 \/ seit = 0
               PROVE  FALSE
  OBVIOUS
<1>4. ASSUME tief => tief', seit' # None, seit <= seit' PROVE FALSE
  <2>1. CASE k = "withdraw"
    <3>1. Startdruck /\ tief BY <2>1 DEF Warnungen, WithdrawDue
    <3> QED BY <1>2, <1>3, <1>4, <2>1, <3>1 DEF Warnungen, WithdrawDue
  <2>2. CASE k = "max_time"
    <3>1. Geplant /\ seit >= Maximal BY <2>2 DEF Warnungen, MaxExceeded, MaxErreicht
    <3>2. seit' >= Maximal BY <1>1, <1>2, <1>4, <3>1, MaximalPositiv
    <3> QED BY <1>2, <1>3, <1>4, <2>2, <3>1, <3>2 DEF Warnungen, MaxExceeded, MaxErreicht
  <2> QED BY <2>1, <2>2
<1>5. seit <= seit BY <1>1, <1>2
<1>6. CASE Starten
  <2>1. seit' = 0 /\ tief' = tief BY <1>6 DEF Starten
  <2>2. seit = 0 /\ 0 # None BY <1>3, <2>1, MaximalPositiv
  <2> QED BY <1>4, <1>5, <2>1, <2>2
<1>7. CASE seit' = seit /\ (tief => tief') BY <1>2, <1>4, <1>5, <1>7
<1>8. CASE TruppZeitVergeht
  <2>1. seit' = Aelter(seit) /\ tief' = tief BY <1>8 DEF TruppZeitVergeht
  <2> QED BY <1>1, <1>2, <1>4, <2>1, AelterGut
<1>9. ASSUME TruppBedienung, ~Starten PROVE seit' = seit /\ (tief => tief')
  <2>1. \A b : LogPressure(b) => seit' = seit /\ (tief => tief') BY Zenon DEF LogPressure
  <2>2. \/ \E b \in BOOLEAN : StatusSetzen(b) \/ LogPressure(b)
        \/ UpdateMeldung \/ \E x \in Arten : AckWarning(x)
        \/ EinsatzSchliessen \/ EinsatzWiederoeffnen
    BY <1>9 DEF TruppBedienung
  <2>3. \/ seit' = seit /\ tief' = tief
        \/ \E b \in BOOLEAN : LogPressure(b)
    BY <2>2 DEF StatusSetzen, UpdateMeldung, AckWarning, EinsatzSchliessen,
                EinsatzWiederoeffnen, trupp
  <2> QED BY <2>1, <2>3
<1>10. ASSUME Watchdog \/ Neustart PROVE seit' = seit /\ (tief => tief')
  BY <1>10, WaechterErhaelt DEF trupp
<1> QED BY <1>6, <1>7, <1>8, <1>9, <1>10 DEF AtemschutzNext

\* breathing_service.py, for every planned duration: the watchdog sends no warning again
\* while every pass finds it due, and an alarm lasts until it is acknowledged, the troop
\* leaves or is started anew.
THEOREM AtemschutzHaelt ==
  AtemschutzSpec => []AtemschutzTypeOK /\ NichtDoppelt /\ AlarmBleibt
<1> DEFINE NeuGesendet == \A k \in Arten : Senden(k) => k \notin gehoert
           Bleibt == \A k \in {"withdraw", "max_time"} :
                       (k \in Warnungen /\ k \notin Warnungen') =>
                         \/ quittung'[k] # quittung[k]
                         \/ ~imEinsatz'
                         \/ seit' = 0 /\ seit # 0
<1>1. AtemschutzIInv => AtemschutzTypeOK BY DEF AtemschutzIInv
<1>2. AtemschutzIInv /\ [AtemschutzNext]_atemschutzVars => [NeuGesendet]_atemschutzVars
  <2> SUFFICES ASSUME AtemschutzIInv, NEW k \in Arten, Senden(k) PROVE k \notin gehoert
    OBVIOUS
  <2> QED BY DEF AtemschutzIInv, GehoertIstBekannt, Senden
<1>3. AtemschutzIInv /\ [AtemschutzNext]_atemschutzVars => [Bleibt]_atemschutzVars
  BY DringendesBleibt
<1>4. (NichtDoppelt <=> [][NeuGesendet]_atemschutzVars) /\ (AlarmBleibt <=> [][Bleibt]_atemschutzVars)
  BY DEF NichtDoppelt, AlarmBleibt
<1> HIDE DEF NeuGesendet, Bleibt
<1> QED
  BY AtemschutzInitIInv, AtemschutzSchritt, <1>1, <1>2, <1>3, <1>4, PTL DEF AtemschutzSpec
=============================================================================
