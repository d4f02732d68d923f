--------------------- MODULE LagemeldungZweiWorkerProof ---------------------
(* The bound on duplicate orders, for any number of workers.                *)
EXTENDS LagemeldungZweiWorker, FiniteSetTheorems, TLAPS

\* HoechstensJeWorker is inductive with the types of the orders and of what the
\* open scans will write.
ZWTypen ==
  /\ offen \in [Stellen -> Nat]
  /\ scan \in [Worker -> [auftrag : SUBSET Stellen, uhr : SUBSET Stellen]]

ZWIInv == ZWTypen /\ HoechstensJeWorker

\* The service functions at the end of a handler open no order.
LEMMA DienstOeffnetNichts ==
  ASSUME offen \in [Stellen -> Nat], NEW s \in Stellen,
         \/ EnsureTimer(s)
         \/ ClearTimer(s)
         \/ StopOhneRessource(s)
         \/ RegisterLagemeldung(s)
         \/ UNCHANGED <<uhr, offen, erledigt>>
  PROVE  /\ offen' \in [Stellen -> Nat]
         /\ \A t \in Stellen : offen'[t] <= offen[t]
BY DEF EnsureTimer, ClearTimer, StopOhneRessource, RegisterLagemeldung,
       AuftraegeSchliessen

\* No handler opens an order; only scans do.
LEMMA HandlerOeffnetNichts ==
  ASSUME offen \in [Stellen -> Nat], Handler
  PROVE  /\ offen' \in [Stellen -> Nat]
         /\ \A t \in Stellen : offen'[t] <= offen[t]
<1>1. ASSUME NEW s \in Stellen,
             \/ \E p \in Phasen : SitePhaseChange(s, p)
             \/ SitePrioChange(s) \/ SiteLogAdd(s) \/ FristLaeuftAb(s)
      PROVE  /\ offen' \in [Stellen -> Nat]
             /\ \A t \in Stellen : offen'[t] <= offen[t]
  <2>1. CASE (\E p \in Phasen : SitePhaseChange(s, p)) \/ SiteLogAdd(s)
    BY <2>1, DienstOeffnetNichts DEF SitePhaseChange, SiteLogAdd
  <2>2. CASE SitePrioChange(s) \/ FristLaeuftAb(s)
    BY <2>2 DEF SitePrioChange, FristLaeuftAb
  <2> QED
    BY <1>1, <2>1, <2>2
<1>2. ASSUME NEW s \in Stellen, Abhaken(s)
      PROVE  /\ offen' \in [Stellen -> Nat]
             /\ \A t \in Stellen : offen'[t] <= offen[t]
  <2>1. offen' = [offen EXCEPT ![s] = offen[s] - 1] /\ offen[s] > 0
    BY <1>2 DEF Abhaken, FunkjournalHandled
  <2> QED
    BY <2>1
<1>3. ASSUME NEW e \in Einheiten, NEW s \in Stellen, EinheitAnStelle(e, s)
      PROVE  /\ offen' \in [Stellen -> Nat]
             /\ \A t \in Stellen : offen'[t] <= offen[t]
  BY <1>3, DienstOeffnetNichts DEF EinheitAnStelle, SiteEinheitDisponieren,
     kreisVars, SiteEinheitVorOrt, SiteEinheitAbziehen, SiteEinheitFreigeben
<1>4. CASE LageBeenden \/ LageWiederoeffnen
  BY <1>4 DEF LageBeenden, LageWiederoeffnen
<1> QED
  BY <1>1, <1>2, <1>3, <1>4 DEF Handler

\* A scan that begins adds its orders to sites without any.
LEMMA LesenHaelt ==
  ASSUME ZWIInv, NEW w \in Worker, ScanLesen(w)
  PROVE  ZWIInv'
<1> USE DEF ZWIInv, ZWTypen
<1>1. ZWTypen'
  BY DEF ScanLesen, lmVars, kreisVars, NeuerAuftrag, NeueUhr
<1>2. ASSUME NEW s \in Stellen
      PROVE  offen'[s] + Cardinality(Schreibt(s)') <= Cardinality(Worker)
  <2>1. offen'[s] = offen[s]
    BY DEF ScanLesen, lmVars, kreisVars
  <2>2. Schreibt(s)' \subseteq Worker
    BY DEF Schreibt
  <2>3. CASE s \in NeuerAuftrag
    <3>1. offen[s] = 0
      BY <2>3 DEF NeuerAuftrag
    <3>2. /\ Cardinality(Schreibt(s)') \in Nat
          /\ Cardinality(Schreibt(s)') <= Cardinality(Worker)
      BY <2>2, WorkerAssumption, FS_Subset, FS_CardinalityType
    <3> QED
      BY <2>1, <3>1, <3>2
  <2>4. CASE s \notin NeuerAuftrag
    <3>1. Schreibt(s)' = Schreibt(s)
      BY <2>4 DEF Schreibt, ScanLesen, KeinScan
    <3> QED
      BY <2>1, <3>1 DEF HoechstensJeWorker
  <2> QED
    BY <2>3, <2>4
<1> QED
  BY <1>1, <1>2 DEF HoechstensJeWorker

\* A scan that commits turns what it was about to write into open orders.
LEMMA SchreibenHaelt ==
  ASSUME ZWIInv, NEW w \in Worker, ScanSchreiben(w)
  PROVE  ZWIInv'
<1> USE DEF ZWIInv, ZWTypen
<1>1. ZWTypen'
  BY DEF ScanSchreiben, KeinScan
<1>2. ASSUME NEW s \in Stellen
      PROVE  offen'[s] + Cardinality(Schreibt(s)') <= Cardinality(Worker)
  <2>1. Schreibt(s)' = Schreibt(s) \ {w}
    BY DEF Schreibt, ScanSchreiben, KeinScan
  <2>2. IsFiniteSet(Schreibt(s)) /\ Cardinality(Schreibt(s)) \in Nat
    <3>1. Schreibt(s) \subseteq Worker
      BY DEF Schreibt
    <3> QED
      BY <3>1, WorkerAssumption, FS_Subset, FS_CardinalityType
  <2>3. offen[s] + Cardinality(Schreibt(s)) <= Cardinality(Worker)
    BY DEF HoechstensJeWorker
  <2>4. CASE s \in scan[w].auftrag
    <3>1. Cardinality(Schreibt(s)') = Cardinality(Schreibt(s)) - 1
      BY <2>1, <2>2, <2>4, FS_RemoveElement DEF Schreibt
    <3>2. offen'[s] = offen[s] + 1
      BY <2>4 DEF ScanSchreiben
    <3> QED
      BY <2>2, <2>3, <3>1, <3>2
  <2>5. CASE s \notin scan[w].auftrag
    <3>1. Schreibt(s)' = Schreibt(s)
      BY <2>1, <2>5 DEF Schreibt
    <3>2. offen'[s] = offen[s]
      BY <2>5 DEF ScanSchreiben
    <3> QED
      BY <2>3, <3>1, <3>2
  <2> QED
    BY <2>4, <2>5
<1> QED
  BY <1>1, <1>2 DEF HoechstensJeWorker

\* A site never has more open orders than there are workers.
THEOREM AuftraegeBegrenzt == ZWSpec => []HoechstensJeWorker
<1>1. ZWInit => ZWIInv
  <2> SUFFICES ASSUME ZWInit
               PROVE  ZWIInv
    OBVIOUS
  <2>1. ZWTypen
    BY DEF ZWInit, LMInit, ZWTypen, KeinScan
  <2>2. ASSUME NEW s \in Stellen
        PROVE  offen[s] + Cardinality(Schreibt(s)) <= Cardinality(Worker)
    <3>1. Schreibt(s) = {}
      BY DEF ZWInit, Schreibt, KeinScan
    <3>2. offen[s] = 0
      BY DEF ZWInit, LMInit
    <3> QED
      BY <3>1, <3>2, WorkerAssumption, FS_EmptySet, FS_CardinalityType
  <2> QED
    BY <2>1, <2>2 DEF ZWIInv, HoechstensJeWorker
<1>2. ZWIInv /\ [ZWNext]_zwVars => ZWIInv'
  <2> SUFFICES ASSUME ZWIInv, [ZWNext]_zwVars
               PROVE  ZWIInv'
    OBVIOUS
  <2>1. CASE Handler /\ UNCHANGED scan
    <3>1. /\ offen' \in [Stellen -> Nat]
          /\ \A s \in Stellen : offen'[s] <= offen[s]
      BY <2>1, HandlerOeffnetNichts DEF ZWIInv, ZWTypen
    <3>2. ASSUME NEW s \in Stellen
          PROVE  offen'[s] + Cardinality(Schreibt(s)') <= Cardinality(Worker)
      <4>1. Schreibt(s)' = Schreibt(s)
        BY <2>1 DEF Schreibt
      <4>2. Cardinality(Schreibt(s)) \in Nat /\ Cardinality(Worker) \in Nat
        <5>1. Schreibt(s) \subseteq Worker
          BY DEF Schreibt
        <5> QED
          BY <5>1, WorkerAssumption, FS_Subset, FS_CardinalityType
      <4> QED
        BY <3>1, <4>1, <4>2 DEF ZWIInv, ZWTypen, HoechstensJeWorker
    <3> QED
      BY <2>1, <3>1, <3>2 DEF ZWIInv, ZWTypen, HoechstensJeWorker
  <2>2. CASE \E w \in Worker : ScanLesen(w) \/ ScanSchreiben(w)
    BY <2>2, LesenHaelt, SchreibenHaelt
  <2>3. CASE UNCHANGED zwVars
    BY <2>3 DEF zwVars, lmVars, kreisVars, ZWIInv, ZWTypen, HoechstensJeWorker,
                Schreibt
  <2> QED
    BY <2>1, <2>2, <2>3 DEF ZWNext
<1> QED
  BY <1>1, <1>2, PTL DEF ZWSpec, ZWIInv
=============================================================================
