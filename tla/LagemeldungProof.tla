-------------------------- MODULE LagemeldungProof --------------------------
(***************************************************************************)
(* Proofs about Lagemeldung: it implements Disposition, so Disposition's   *)
(* invariants hold in it, and its columns keep their types.                *)
(***************************************************************************)
EXTENDS Lagemeldung, DispositionProof

\* A unit that is marked "vor Ort", assigned, withdrawn or released from the
\* site board does one operation of Disposition.
LEMMA EinheitAnStelleStep ==
  ASSUME NEW e \in Einheiten, NEW s \in Stellen, EinheitAnStelle(e, s)
  PROVE  Next
<1>1. DispatchSchritt(e, s) \/ EinheitSchritt(e)
  BY DEF EinheitAnStelle, SiteEinheitDisponieren, SiteEinheitVorOrt,
         SiteEinheitAbziehen, SiteEinheitFreigeben, DispatchSchritt,
         EinheitSchritt
<1> QED
  BY <1>1 DEF Next

\* The handlers of a site that are about a resource: assigning a vehicle takes
\* its unit along, releasing it sends the unit to the pool.
LEMMA RessourceStep ==
  ASSUME TypeOK, NEW s \in Stellen, NEW r \in Ressourcen,
         SiteResourceAssign(s, r) \/ SiteResourceRelease(s, r)
  PROVE  Next \/ UNCHANGED dispVars
<1>1. CASE r \in vorhanden
  <2>1. r \in Einheiten
    BY <1>1 DEF TypeOK
  <2>2. AssignToSite(r, s) \/ MoveToPool(r) \/ UNCHANGED dispVars
    BY <1>1 DEF SiteResourceAssign, SiteResourceRelease
  <2> QED
    BY <2>1, <2>2 DEF Next, DispatchSchritt, EinheitSchritt
<1>2. CASE r \notin vorhanden
  BY <1>2 DEF SiteResourceAssign, SiteResourceRelease
<1> QED
  BY <1>1, <1>2

\* Every step of the control loop is a step of Disposition or leaves units,
\* dispatches and sections alone.
LEMMA LMStep ==
  ASSUME TypeOK, [LMNext]_lmVars
  PROVE  [Next]_dispVars
<1>1. CASE UNCHANGED lmVars
  BY <1>1 DEF lmVars
<1>2. ASSUME NEW s \in Stellen, StelleSchritt(s)
      PROVE  Next \/ UNCHANGED dispVars
  <2>1. CASE \E r \in Ressourcen : SiteResourceAssign(s, r) \/ SiteResourceRelease(s, r)
    BY <2>1, RessourceStep
  <2>2. CASE \E p \in Phasen : SitePhaseChange(s, p)
    BY <2>2 DEF SitePhaseChange
  <2>3. CASE SitePrioChange(s) \/ SiteLogAdd(s) \/ FunkjournalHandled(s) \/ FristLaeuftAb(s)
    BY <2>3 DEF SitePrioChange, SiteLogAdd, FunkjournalHandled, FristLaeuftAb
  <2> QED
    BY <1>2, <2>1, <2>2, <2>3 DEF StelleSchritt
<1>3. CASE \E e \in Einheiten, s \in Stellen : EinheitAnStelle(e, s)
  BY <1>3, EinheitAnStelleStep
<1>4. CASE \E e \in Einheiten : LageEinheitRoute(e)
  BY <1>4 DEF LageEinheitRoute, Next
<1>5. CASE LageSchritt
  BY <1>5 DEF LageSchritt, LageSektorRoute, LageBeenden, LageWiederoeffnen,
              EinstellungenSpeichern, Next
<1>6. CASE ScanAndCreate
  BY <1>6 DEF ScanAndCreate
<1> QED
  BY <1>1, <1>2, <1>3, <1>4, <1>5, <1>6 DEF LMNext

\* The control loop acts on units, dispatches and sections only through the
\* operations of the resource service: it implements Disposition.
THEOREM LagemeldungIstDisposition == LMSafetySpec => DispositionSpec
<1>1. LMInit => Init
  BY DEF LMInit
<1>2. IInv /\ [LMNext]_lmVars => [Next]_dispVars
  BY LMStep DEF IInv
<1>3. LMInit => IInv
  BY <1>1, InitIInv
<1>4. IInv /\ [LMNext]_lmVars => IInv'
  BY <1>2, NextIInv
<1> QED
  BY <1>1, <1>2, <1>3, <1>4, PTL DEF LMSafetySpec, DispositionSpec, Spec

-----------------------------------------------------------------------------
(* The columns of the control loop *)

KreisTypen ==
  /\ lage \in {"active", "closed"}
  /\ phase \in [Stellen -> Phasen]
  /\ uhr \in [Stellen -> {"aus", "laeuft", "faellig"}]
  /\ offen \in [Stellen -> 0..MaxOffen]
  /\ erledigt \in [Stellen -> BOOLEAN]
  /\ zuweisung \in [Stellen -> [Ressourcen -> Zuweisung]]
  /\ intervall \in BOOLEAN
  /\ autoAuftrag \in BOOLEAN

\* The service functions the handlers end with keep timer and orders typed.
LEMMA UhrTyp ==
  ASSUME KreisTypen, NEW s \in Stellen,
         \/ EnsureTimer(s)
         \/ ClearTimer(s)
         \/ StopOhneRessource(s)
         \/ RegisterLagemeldung(s)
         \/ UNCHANGED <<uhr, offen, erledigt>>
  PROVE  /\ uhr' \in [Stellen -> {"aus", "laeuft", "faellig"}]
         /\ offen' \in [Stellen -> 0..MaxOffen]
         /\ erledigt' \in [Stellen -> BOOLEAN]
<1> USE MaxOffenAssumption DEF KreisTypen
<1>1. CASE EnsureTimer(s)
  BY <1>1 DEF EnsureTimer
<1>2. CASE ClearTimer(s)
  BY <1>2 DEF ClearTimer, AuftraegeSchliessen
<1>3. CASE RegisterLagemeldung(s)
  BY <1>3 DEF RegisterLagemeldung, AuftraegeSchliessen, NeueFrist
<1> QED
  BY <1>1, <1>2, <1>3 DEF StopOhneRessource

\* The handlers of one site.
LEMMA StelleTyp ==
  ASSUME KreisTypen, NEW s \in Stellen, StelleSchritt(s)
  PROVE  KreisTypen'
<1>1. CASE \E p \in Phasen : SitePhaseChange(s, p)
  <2>1. /\ uhr' \in [Stellen -> {"aus", "laeuft", "faellig"}]
        /\ offen' \in [Stellen -> 0..MaxOffen]
        /\ erledigt' \in [Stellen -> BOOLEAN]
    BY <1>1, UhrTyp DEF SitePhaseChange
  <2> QED
    BY <1>1, <2>1 DEF SitePhaseChange, KreisTypen
<1>2. CASE SitePrioChange(s)
  BY <1>2 DEF SitePrioChange, NeueFrist, KreisTypen
<1>3. CASE SiteLogAdd(s)
  <2>1. /\ uhr' \in [Stellen -> {"aus", "laeuft", "faellig"}]
        /\ offen' \in [Stellen -> 0..MaxOffen]
        /\ erledigt' \in [Stellen -> BOOLEAN]
    BY <1>3, UhrTyp DEF SiteLogAdd
  <2> QED
    BY <1>3, <2>1 DEF SiteLogAdd, KreisTypen
<1>4. CASE FunkjournalHandled(s)
  <2>1. PICK o \in 0..MaxOffen, rest \in BOOLEAN :
          /\ offen' = [offen EXCEPT ![s] = o]
          /\ erledigt' = [erledigt EXCEPT ![s] = rest]
    <3>1. offen[s] \in 0..MaxOffen
      BY DEF KreisTypen
    <3>2. CASE offen[s] > 0 /\ offen' = [offen EXCEPT ![s] = @ - 1]
               /\ erledigt' = [erledigt EXCEPT ![s] = TRUE]
      <4>1. offen[s] - 1 \in 0..MaxOffen
        BY <3>1, <3>2, MaxOffenAssumption
      <4> QED
        BY <3>2, <4>1
    <3>3. CASE /\ offen[s] < MaxOffen /\ offen' = [offen EXCEPT ![s] = @ + 1]
               /\ \E rest \in BOOLEAN : erledigt' = [erledigt EXCEPT ![s] = rest]
      <4>1. offen[s] + 1 \in 0..MaxOffen
        BY <3>1, <3>3, MaxOffenAssumption
      <4> QED
        BY <3>3, <4>1
    <3> QED
      BY <1>4, <3>2, <3>3 DEF FunkjournalHandled
  <2>2. offen' \in [Stellen -> 0..MaxOffen] /\ erledigt' \in [Stellen -> BOOLEAN]
    BY <2>1 DEF KreisTypen
  <2> QED
    BY <1>4, <2>2 DEF FunkjournalHandled, KreisTypen
<1>5. CASE FristLaeuftAb(s)
  BY <1>5 DEF FristLaeuftAb, KreisTypen
<1>6. ASSUME NEW r \in Ressourcen, SiteResourceAssign(s, r) \/ SiteResourceRelease(s, r)
      PROVE  KreisTypen'
  <2>1. /\ uhr' \in [Stellen -> {"aus", "laeuft", "faellig"}]
        /\ offen' \in [Stellen -> 0..MaxOffen]
        /\ erledigt' \in [Stellen -> BOOLEAN]
    BY <1>6, UhrTyp DEF SiteResourceAssign, SiteResourceRelease
  <2>2. zuweisung' \in [Stellen -> [Ressourcen -> Zuweisung]]
    <3>1. PICK z \in Zuweisung : zuweisung' = [zuweisung EXCEPT ![s][r] = z]
      <4>1. zuweisung[s][r] \in Zuweisung
        BY DEF KreisTypen
      <4>2. CASE SiteResourceAssign(s, r)
        <5>1. [zuweisung[s][r] EXCEPT !.aktiv = TRUE] \in Zuweisung
          BY <4>1 DEF Zuweisung
        <5>2. zuweisung' = [zuweisung EXCEPT
                              ![s][r] = [zuweisung[s][r] EXCEPT !.aktiv = TRUE]]
          BY <4>2 DEF SiteResourceAssign
        <5> QED
          BY <5>1, <5>2
      <4>3. CASE SiteResourceRelease(s, r)
        <5>1. [aktiv |-> FALSE, freigegeben |-> TRUE] \in Zuweisung
          BY DEF Zuweisung
        <5>2. zuweisung = [zuweisung EXCEPT ![s][r] = zuweisung[s][r]]
          BY DEF KreisTypen
        <5> QED
          BY <4>1, <4>3, <5>1, <5>2 DEF SiteResourceRelease
      <4> QED
        BY <1>6, <4>2, <4>3
    <3> QED
      BY <3>1 DEF KreisTypen
  <2> QED
    BY <1>6, <2>1, <2>2 DEF SiteResourceAssign, SiteResourceRelease, KreisTypen
<1> QED
  BY <1>1, <1>2, <1>3, <1>4, <1>5, <1>6 DEF StelleSchritt

\* The handlers of a unit at a site.
LEMMA EinheitAnStelleTyp ==
  ASSUME KreisTypen, NEW e \in Einheiten, NEW s \in Stellen, EinheitAnStelle(e, s)
  PROVE  KreisTypen'
<1>1. /\ uhr' \in [Stellen -> {"aus", "laeuft", "faellig"}]
      /\ offen' \in [Stellen -> 0..MaxOffen]
      /\ erledigt' \in [Stellen -> BOOLEAN]
  BY UhrTyp DEF EinheitAnStelle, SiteEinheitDisponieren, SiteEinheitVorOrt,
                SiteEinheitAbziehen, SiteEinheitFreigeben, kreisVars
<1> QED
  BY <1>1 DEF EinheitAnStelle, SiteEinheitDisponieren, SiteEinheitVorOrt,
              SiteEinheitAbziehen, SiteEinheitFreigeben, kreisVars, KreisTypen

\* Every step.
LEMMA KreisTypenStep ==
  ASSUME KreisTypen, [LMNext]_lmVars
  PROVE  KreisTypen'
<1>1. CASE UNCHANGED lmVars
  BY <1>1 DEF lmVars, kreisVars, KreisTypen
<1>2. CASE \E s \in Stellen : StelleSchritt(s)
  BY <1>2, StelleTyp
<1>3. CASE \E e \in Einheiten, s \in Stellen : EinheitAnStelle(e, s)
  BY <1>3, EinheitAnStelleTyp
<1>4. CASE \E e \in Einheiten : LageEinheitRoute(e)
  BY <1>4 DEF LageEinheitRoute, kreisVars, KreisTypen
<1>5. CASE LageSektorRoute \/ LageBeenden \/ LageWiederoeffnen
  BY <1>5 DEF LageSektorRoute, LageBeenden, LageWiederoeffnen, kreisVars, KreisTypen
<1>6. CASE \E i, a, nachziehen \in BOOLEAN : EinstellungenSpeichern(i, a, nachziehen)
  BY <1>6 DEF EinstellungenSpeichern, KreisTypen
<1>7. CASE ScanAndCreate
  BY <1>7, MaxOffenAssumption DEF ScanAndCreate, NeuerAuftrag, KreisTypen
<1> QED
  BY <1>1, <1>2, <1>3, <1>4, <1>5, <1>6, <1>7 DEF LMNext, LageSchritt

\* Sites, journal orders, assignments and settings keep their types.
THEOREM LagemeldungTyp == LMSafetySpec => []LMTypeOK
<1>1. LMInit => KreisTypen
  BY PhasenAssumption, MaxOffenAssumption DEF LMInit, KreisTypen, Zuweisung
<1>2. KreisTypen /\ [LMNext]_lmVars => KreisTypen'
  BY KreisTypenStep
<1>3. LMSafetySpec => []TypeOK
  BY LagemeldungIstDisposition, DispositionTyp DEF DispositionSpec
<1>4. TypeOK /\ KreisTypen => LMTypeOK
  BY DEF LMTypeOK, KreisTypen
<1> QED
  BY <1>1, <1>2, <1>3, <1>4, PTL DEF LMSafetySpec

\* No unit is on site at two sites, whatever the site board, the resource
\* overview and the reminder loop do.
THEOREM LagemeldungVorOrtEindeutig == LMSafetySpec => []VorOrtEindeutig
  BY LagemeldungIstDisposition, VorOrtImmerEindeutig DEF DispositionSpec

-----------------------------------------------------------------------------
(* The control loop implements Regelkreis. *)

\* One site as Regelkreis!Next sees it.
SchrittVon(s) ==
  \/ Kreis!Start(s) \/ Kreis!Ablauf(s) \/ Kreis!Auftrag(s)
  \/ Kreis!MeldungOderEnde(s) \/ Kreis!Neustart(s) \/ Kreis!Quittung(s)
  \/ Kreis!Ruhe(s)

\* What the service functions do to one site is one step of it; the other sites
\* rest.
LEMMA UhrKreis ==
  ASSUME KreisTypen, NEW s \in Stellen,
         \/ EnsureTimer(s)
         \/ ClearTimer(s)
         \/ StopOhneRessource(s)
         \/ RegisterLagemeldung(s)
         \/ UNCHANGED <<uhr, offen, erledigt>>
  PROVE  \A t \in Stellen : SchrittVon(t)
<1> USE DEF KreisTypen, SchrittVon
<1>1. CASE EnsureTimer(s)
  BY <1>1 DEF EnsureTimer, Kreis!Start, Kreis!Ruhe, Kreis!AuftraegeBleiben
<1>2. CASE ClearTimer(s)
  <2>1. Kreis!MeldungOderEnde(s)
    BY <1>2 DEF ClearTimer, AuftraegeSchliessen, Kreis!MeldungOderEnde
  <2>2. \A t \in Stellen \ {s} : Kreis!Ruhe(t)
    BY <1>2 DEF ClearTimer, AuftraegeSchliessen, Kreis!Ruhe, Kreis!AuftraegeBleiben
  <2> QED
    BY <2>1, <2>2
<1>3. CASE RegisterLagemeldung(s)
  <2>1. Kreis!MeldungOderEnde(s)
    BY <1>3 DEF RegisterLagemeldung, AuftraegeSchliessen, NeueFrist,
                Kreis!MeldungOderEnde
  <2>2. \A t \in Stellen \ {s} : Kreis!Ruhe(t)
    BY <1>3 DEF RegisterLagemeldung, AuftraegeSchliessen, Kreis!Ruhe,
                Kreis!AuftraegeBleiben
  <2> QED
    BY <2>1, <2>2
<1>4. CASE UNCHANGED <<uhr, offen, erledigt>>
  BY <1>4 DEF Kreis!Ruhe, Kreis!AuftraegeBleiben
<1> QED
  BY <1>1, <1>2, <1>3, <1>4 DEF StopOhneRessource

\* The handlers of one site, and the passing of time.
LEMMA StelleKreis ==
  ASSUME KreisTypen, NEW s \in Stellen, StelleSchritt(s)
  PROVE  \A t \in Stellen : SchrittVon(t)
<1>1. CASE \E p \in Phasen : SitePhaseChange(s, p)
  BY <1>1, UhrKreis DEF SitePhaseChange
<1>2. CASE SitePrioChange(s)
  <2>1. Kreis!Neustart(s)
    BY <1>2 DEF SitePrioChange, NeueFrist, KreisTypen, Kreis!Neustart,
                Kreis!AuftraegeBleiben
  <2>2. \A t \in Stellen \ {s} : Kreis!Ruhe(t)
    BY <1>2 DEF SitePrioChange, KreisTypen, Kreis!Ruhe, Kreis!AuftraegeBleiben
  <2> QED
    BY <2>1, <2>2 DEF SchrittVon
<1>3. CASE SiteLogAdd(s)
  BY <1>3, UhrKreis DEF SiteLogAdd
<1>4. CASE FunkjournalHandled(s)
  <2>1. Kreis!Quittung(s)
    BY <1>4 DEF FunkjournalHandled, KreisTypen, Kreis!Quittung
  <2>2. \A t \in Stellen \ {s} : Kreis!Ruhe(t)
    BY <1>4 DEF FunkjournalHandled, KreisTypen, Kreis!Ruhe, Kreis!AuftraegeBleiben
  <2> QED
    BY <2>1, <2>2 DEF SchrittVon
<1>5. CASE FristLaeuftAb(s)
  <2>1. Kreis!Ablauf(s)
    BY <1>5 DEF FristLaeuftAb, KreisTypen, Kreis!Ablauf, Kreis!AuftraegeBleiben
  <2>2. \A t \in Stellen \ {s} : Kreis!Ruhe(t)
    BY <1>5 DEF FristLaeuftAb, KreisTypen, Kreis!Ruhe, Kreis!AuftraegeBleiben
  <2> QED
    BY <2>1, <2>2 DEF SchrittVon
<1>6. CASE \E r \in Ressourcen : SiteResourceAssign(s, r) \/ SiteResourceRelease(s, r)
  BY <1>6, UhrKreis DEF SiteResourceAssign, SiteResourceRelease
<1> QED
  BY <1>1, <1>2, <1>3, <1>4, <1>5, <1>6 DEF StelleSchritt

\* A scan: an order for the overdue sites, a timer for the sites without one.
LEMMA ScanKreis ==
  ASSUME KreisTypen, ScanAndCreate, NEW s \in Stellen
  PROVE  SchrittVon(s)
<1>1. CASE s \in NeuerAuftrag
  <2>1. /\ uhr'[s] = uhr[s] /\ uhr[s] = "faellig"
        /\ offen[s] = 0 /\ offen'[s] = 1 /\ erledigt'[s] = erledigt[s]
    BY <1>1 DEF ScanAndCreate, NeuerAuftrag, NeueUhr, UhrFehlt, Ueberfaellig,
                KreisTypen
  <2>2. s \in {t \in Stellen : Pflicht(t)}
    BY <1>1 DEF NeuerAuftrag, Ueberfaellig, Pflicht
  <2> QED
    BY <2>1, <2>2 DEF SchrittVon, Kreis!Auftrag
<1>2. CASE s \in NeueUhr
  <2>1. /\ uhr[s] = "aus" /\ uhr'[s] = "laeuft"
        /\ offen'[s] = offen[s] /\ erledigt'[s] = erledigt[s]
    BY <1>2 DEF ScanAndCreate, NeuerAuftrag, NeueUhr, UhrFehlt, Ueberfaellig,
                KreisTypen
  <2> QED
    BY <2>1 DEF SchrittVon, Kreis!Start, Kreis!AuftraegeBleiben
<1>3. CASE s \notin NeuerAuftrag /\ s \notin NeueUhr
  BY <1>3 DEF ScanAndCreate, SchrittVon, Kreis!Ruhe, Kreis!AuftraegeBleiben
<1> QED
  BY <1>1, <1>2, <1>3

\* Every step of the handlers, the settings, the scan and time is a step the
\* abstract loop may take.
LEMMA KreisStep ==
  ASSUME KreisTypen, [LMNext]_lmVars
  PROVE  Kreis!Next
<1>1. CASE UNCHANGED lmVars
  BY <1>1 DEF lmVars, kreisVars, Kreis!Next, Kreis!Ruhe, Kreis!AuftraegeBleiben
<1>2. CASE \E s \in Stellen : StelleSchritt(s)
  BY <1>2, StelleKreis DEF Kreis!Next, SchrittVon
<1>3. ASSUME NEW e \in Einheiten, NEW s \in Stellen, EinheitAnStelle(e, s)
      PROVE  Kreis!Next
  <2>1. \A t \in Stellen : SchrittVon(t)
    BY <1>3, UhrKreis DEF EinheitAnStelle, SiteEinheitDisponieren, kreisVars,
                SiteEinheitVorOrt, SiteEinheitAbziehen, SiteEinheitFreigeben
  <2> QED
    BY <2>1 DEF Kreis!Next, SchrittVon
<1>4. CASE (\E e \in Einheiten : LageEinheitRoute(e)) \/ LageSektorRoute
           \/ LageBeenden \/ LageWiederoeffnen
  BY <1>4 DEF LageEinheitRoute, LageSektorRoute, LageBeenden, LageWiederoeffnen,
              kreisVars, Kreis!Next, Kreis!Ruhe, Kreis!AuftraegeBleiben
<1>5. CASE \E i, a, nachziehen \in BOOLEAN : EinstellungenSpeichern(i, a, nachziehen)
  BY <1>5 DEF EinstellungenSpeichern, KreisTypen, Kreis!Next, Kreis!Start,
              Kreis!Ruhe, Kreis!AuftraegeBleiben
<1>6. CASE ScanAndCreate
  BY <1>6, ScanKreis DEF Kreis!Next, SchrittVon
<1> QED
  BY <1>1, <1>2, <1>3, <1>4, <1>5, <1>6 DEF LMNext, LageSchritt

\* The handlers, the reminder loop and the settings implement the abstract
\* control loop: an order comes only from an overdue timer of a site that owes
\* a report, never beside an open one, and only a report, the end of the duty,
\* another priority or a check mark ends what is due.
THEOREM LagemeldungIstRegelkreis == LMSafetySpec => RegelkreisSchritte
<1>1. LMInit => KreisTypen /\ Kreis!Init
  BY PhasenAssumption, MaxOffenAssumption
  DEF LMInit, KreisTypen, Zuweisung, Kreis!Init
<1>2. KreisTypen /\ [LMNext]_lmVars => KreisTypen'
  BY KreisTypenStep
<1>3. KreisTypen /\ [LMNext]_lmVars => [Kreis!Next]_Kreis!vars
  BY KreisStep
<1> QED
  BY <1>1, <1>2, <1>3, PTL DEF LMSafetySpec, RegelkreisSchritte, Kreis!Schritte
=============================================================================
