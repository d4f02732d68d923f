-------------------------- MODULE DispositionProof --------------------------
(* Safety of Disposition for every set of units, sites and sections.        *)
EXTENDS Disposition, TLAPS

\* The inductive invariant. VorOrtEindeutig is inductive with the types alone;
\* StandortBelegt needs it: a step that makes a unit "vor Ort" elsewhere must
\* know there was one such site only, the one its row pointed to.
IInv == TypeOK /\ VorOrtEindeutig /\ StandortBelegt /\ KeineVerwaistenVerweise

\* The initial state, all units in the pool, satisfies the invariant.
LEMMA InitIInv == Init => IInv
  BY FahrzeugeAssumption, NoneAssumption
  DEF Init, IInv, TypeOK, VorOrtEindeutig, StandortBelegt,
      KeineVerwaistenVerweise, Einheit, NeueEinheit, OhneDispatch,
      EinheitStatus, DispatchStatus

\* A step of the pool: add, delete, status, section, back to the pool.
LEMMA EinheitStep ==
  ASSUME IInv, NEW e \in Einheiten, EinheitSchritt(e)
  PROVE  IInv'
<1> USE NoneAssumption DEF IInv, TypeOK, Einheit, EinheitStatus, DispatchStatus, siteVars
<1>1. CASE AddResource(e)
  BY <1>1 DEF AddResource, NeueEinheit, VorOrtEindeutig, StandortBelegt,
              KeineVerwaistenVerweise
<1>2. CASE DeleteResource(e)
  BY <1>2 DEF DeleteResource, NeueEinheit, VorOrtEindeutig, StandortBelegt,
              KeineVerwaistenVerweise
<1>3. CASE MoveToPool(e)
  BY <1>3 DEF MoveToPool, EinheitImPool, VorOrtEindeutig, StandortBelegt,
              KeineVerwaistenVerweise
<1>4. ASSUME NEW st \in EinheitStatus, StatusRoute(e, st)
      PROVE  IInv'
  <2>1. CASE MoveToPool(e)
    BY <2>1, <1>3
  <2>2. CASE SetStatus(e, st)
    <3>1. SektorNachStatus(e, st) \in sektoren \cup {None}
      BY DEF SektorNachStatus, KeineVerwaistenVerweise
    <3>2. SektorNachStatus(e, st) \in Sektoren \cup {None}
      BY <3>1
    <3> QED
      BY <2>2, <3>1, <3>2 DEF SetStatus, VorOrtEindeutig, StandortBelegt,
                              KeineVerwaistenVerweise
  <2> QED
    BY <1>4, <2>1, <2>2 DEF StatusRoute
<1>5. ASSUME NEW k \in Sektoren, AssignToSector(e, k)
      PROVE  IInv'
  BY <1>5 DEF AssignToSector, Gebunden, VorOrtEindeutig, StandortBelegt,
              KeineVerwaistenVerweise
<1> QED
  BY <1>1, <1>2, <1>3, <1>4, <1>5 DEF EinheitSchritt

\* The state a unit is in after it was marked "vor Ort" with every other
\* "vor Ort" dispatch withdrawn: one site, and the row points to it.
LEMMA VerlegtStep ==
  ASSUME IInv, NEW e \in Einheiten, NEW s \in Stellen,
         ResolveVorOrtConflict(e, s)
  PROVE  IInv'
<1> USE NoneAssumption DEF IInv, TypeOK, Einheit, EinheitStatus, DispatchStatus, siteVars
<1>1. DispatchVorOrt(e, s) \in [Stellen -> DispatchStatus]
  BY DEF DispatchVorOrt
<1>2. \A t \in Stellen : DispatchVorOrt(e, s)[t] = "vor_ort" <=> t = s
  BY DEF DispatchVorOrt
<1>3. EinheitVorOrt(e, s) \in Einheit
  BY DEF EinheitVorOrt, Gebunden
<1>4. TypeOK'
  BY <1>1, <1>3 DEF ResolveVorOrtConflict
<1>5. VorOrtEindeutig' /\ StandortBelegt'
  BY <1>2, <1>1 DEF ResolveVorOrtConflict, VorOrtEindeutig, StandortBelegt,
                    EinheitVorOrt
<1>6. KeineVerwaistenVerweise'
  BY DEF ResolveVorOrtConflict, KeineVerwaistenVerweise, EinheitVorOrt
<1> QED
  BY <1>4, <1>5, <1>6

\* So does a unit that is committed, if it was in the pool.
LEMMA GebundenTyp ==
  ASSUME NEW u \in Einheit
  PROVE  [u EXCEPT !.status = Gebunden(@)] \in Einheit
  BY DEF Einheit, EinheitStatus, Gebunden

\* A row that points to another site is still a row of a unit.
LEMMA VersetztTyp ==
  ASSUME NEW u \in Einheit, NEW x \in Stellen \cup {None}
  PROVE  [u EXCEPT !.stelle = x] \in Einheit
  BY DEF Einheit

\* So is a row that was moved to another section, or to none.
LEMMA UmgehaengtTyp ==
  ASSUME NEW u \in Einheit, NEW x \in Sektoren \cup {None}
  PROVE  [u EXCEPT !.sektor = x] \in Einheit
  BY DEF Einheit

\* A step of a dispatch: alarmed, on site, relocated, withdrawn.
LEMMA DispatchStep ==
  ASSUME IInv, NEW e \in Einheiten, NEW s \in Stellen, DispatchSchritt(e, s)
  PROVE  IInv'
<1> USE NoneAssumption DEF IInv, TypeOK, Einheit, EinheitStatus, DispatchStatus, siteVars
<1>1. CASE DispatchToSite(e, s)
  <2>1. TypeOK'
    <3>1. [einheit[e] EXCEPT !.status = Gebunden(@)] \in Einheit
      BY GebundenTyp
    <3>2. dispatch' \in [Einheiten -> [Stellen -> DispatchStatus]]
      BY <1>1 DEF DispatchToSite
    <3>3. einheit' \in [Einheiten -> Einheit]
      BY <1>1, <3>1 DEF DispatchToSite
    <3> QED
      BY <1>1, <3>2, <3>3 DEF DispatchToSite
  <2>2. VorOrtEindeutig'
    BY <1>1 DEF DispatchToSite, VorOrtEindeutig
  <2>3. StandortBelegt'
    BY <1>1 DEF DispatchToSite, StandortBelegt, Aktiv
  <2>4. KeineVerwaistenVerweise'
    BY <1>1 DEF DispatchToSite, KeineVerwaistenVerweise
  <2> QED
    BY <2>1, <2>2, <2>3, <2>4
<1>2. CASE SetVorOrt(e, s)
  <2>1. TypeOK'
    BY <1>2 DEF SetVorOrt, EinheitVorOrt, Gebunden
  <2>2. VorOrtEindeutig' /\ StandortBelegt'
    BY <1>2 DEF SetVorOrt, Konflikt, EinheitVorOrt, VorOrtEindeutig,
                StandortBelegt
  <2>3. KeineVerwaistenVerweise'
    BY <1>2 DEF SetVorOrt, EinheitVorOrt, KeineVerwaistenVerweise
  <2> QED
    BY <2>1, <2>2, <2>3
<1>3. CASE ResolveVorOrtConflict(e, s)
  BY <1>3, VerlegtStep
<1>4. CASE AssignToSite(e, s)
  BY <1>4, VerlegtStep DEF AssignToSite
<1>5. CASE Withdraw(e, s)
  <2>1. TypeOK'
    <3>1. dispatch' \in [Einheiten -> [Stellen -> DispatchStatus]]
      <4>1. [dispatch[e] EXCEPT ![s] = "abgezogen"] \in [Stellen -> DispatchStatus]
        OBVIOUS
      <4> QED
        BY <1>5, <4>1 DEF Withdraw
    <3>2. einheit' \in [Einheiten -> Einheit]
      <4>1. \A x \in Stellen \cup {None} : [einheit[e] EXCEPT !.stelle = x] \in Einheit
        BY VersetztTyp
      <4>2. (IF einheit[e].stelle = s THEN None ELSE einheit[e].stelle)
              \in Stellen \cup {None}
        OBVIOUS
      <4> QED
        BY <1>5, <4>1, <4>2 DEF Withdraw
    <3> QED
      BY <1>5, <3>1, <3>2 DEF Withdraw
  <2>2. VorOrtEindeutig' /\ StandortBelegt'
    BY <1>5 DEF Withdraw, VorOrtEindeutig, StandortBelegt
  <2>3. KeineVerwaistenVerweise'
    BY <1>5 DEF Withdraw, KeineVerwaistenVerweise
  <2> QED
    BY <2>1, <2>2, <2>3
<1> QED
  BY <1>1, <1>2, <1>3, <1>4, <1>5 DEF DispatchSchritt

\* A step of the sections never touches a dispatch or a unit's site.
LEMMA SektorStep ==
  ASSUME IInv, SektorSchritt
  PROVE  IInv'
<1> USE NoneAssumption DEF IInv, TypeOK, Einheit, EinheitStatus, DispatchStatus, siteVars
<1>1. ASSUME NEW k \in Sektoren, SektorAnlegen(k)
      PROVE  IInv'
  BY <1>1 DEF SektorAnlegen, VorOrtEindeutig, StandortBelegt,
              KeineVerwaistenVerweise
<1>2. ASSUME NEW k \in Sektoren, SektorLoeschen(k)
      PROVE  IInv'
  <2>1. TypeOK'
    <3>1. \A e \in Einheiten : [einheit[e] EXCEPT !.sektor = None] \in Einheit
      BY UmgehaengtTyp
    <3>2. einheit' \in [Einheiten -> Einheit]
      BY <1>2, <3>1 DEF SektorLoeschen
    <3>3. sektor' \in [Stellen -> Sektoren \cup {None}]
      BY <1>2 DEF SektorLoeschen
    <3> QED
      BY <1>2, <3>2, <3>3 DEF SektorLoeschen
  <2>2. VorOrtEindeutig' /\ StandortBelegt'
    BY <1>2 DEF SektorLoeschen, VorOrtEindeutig, StandortBelegt
  <2>3. KeineVerwaistenVerweise'
    BY <1>2 DEF SektorLoeschen, KeineVerwaistenVerweise
  <2> QED
    BY <2>1, <2>2, <2>3
<1>3. ASSUME NEW s \in Stellen, NEW k \in Sektoren \cup {None},
             SiteSektorAssign(s, k)
      PROVE  IInv'
  <2>1. TypeOK'
    <3>1. \A u \in Einheiten : [einheit[u] EXCEPT !.sektor = k] \in Einheit
      BY UmgehaengtTyp
    <3>2. einheit' \in [Einheiten -> Einheit]
      BY <1>3, <3>1 DEF SiteSektorAssign
    <3>3. sektor' \in [Stellen -> Sektoren \cup {None}]
      BY <1>3 DEF SiteSektorAssign
    <3>4. modus' \in [Stellen -> {"auto", "manual"}]
      BY <1>3 DEF SiteSektorAssign
    <3> QED
      BY <1>3, <3>2, <3>3, <3>4 DEF SiteSektorAssign
  <2>2. VorOrtEindeutig' /\ StandortBelegt'
    BY <1>3 DEF SiteSektorAssign, VorOrtEindeutig, StandortBelegt
  <2>3. KeineVerwaistenVerweise'
    BY <1>3 DEF SiteSektorAssign, KeineVerwaistenVerweise
  <2> QED
    BY <2>1, <2>2, <2>3
<1>4. ASSUME NEW s \in Stellen, SiteGeortet(s)
      PROVE  IInv'
  <2>1. PICK k \in Sektoren \cup {None} : SitePinSave(s, k) \/ AlarmAnreichern(s, k)
    BY <1>4 DEF SiteGeortet
  <2>2. k \in sektoren \cup {None}
    BY <2>1 DEF SitePinSave, AlarmAnreichern, KeineVerwaistenVerweise
  <2>3. /\ UNCHANGED <<vorhanden, einheit, dispatch, sektoren, modus>>
        /\ sektor' = [sektor EXCEPT ![s] = k]
        /\ anreicherung' \subseteq anreicherung
    BY <2>1 DEF SitePinSave, AlarmAnreichern
  <2>4. TypeOK' /\ VorOrtEindeutig' /\ StandortBelegt'
    BY <2>3 DEF VorOrtEindeutig, StandortBelegt
  <2>5. KeineVerwaistenVerweise'
    BY <2>2, <2>3 DEF KeineVerwaistenVerweise
  <2> QED
    BY <2>4, <2>5
<1>5. ASSUME NEW neu \in [Stellen -> Sektoren \cup {None}], NEW erzwungen \in BOOLEAN,
             NEW letzte \in [Einheiten -> Umgehaengt(neu)],
             GeometrieGeaendert(neu, letzte, erzwungen)
      PROVE  IInv'
  <2>1. TypeOK'
    <3>1. \A u \in Einheiten : \A x \in Sektoren \cup {None} :
            [einheit[u] EXCEPT !.sektor = x] \in Einheit
      BY UmgehaengtTyp
    <3>2. \A u \in Einheiten : neu[letzte[u]] \in Sektoren \cup {None}
      BY DEF Umgehaengt
    <3>3. einheit' \in [Einheiten -> Einheit]
      BY <1>5, <3>1, <3>2 DEF GeometrieGeaendert
    <3>4. sektor' \in [Stellen -> Sektoren \cup {None}]
      BY <1>5 DEF GeometrieGeaendert
    <3> QED
      BY <1>5, <3>3, <3>4 DEF GeometrieGeaendert
  <2>2. VorOrtEindeutig' /\ StandortBelegt'
    BY <1>5 DEF GeometrieGeaendert, VorOrtEindeutig, StandortBelegt
  <2>3. KeineVerwaistenVerweise'
    <3>1. \A x \in Stellen : neu[x] \in sektoren \cup {None}
      BY <1>5 DEF GeometrieGeaendert
    <3>2. \A u \in Einheiten : Folgt(u, neu) # {} => letzte[u] \in Stellen
      BY DEF Umgehaengt
    <3>3. /\ UNCHANGED <<vorhanden, dispatch, sektoren>>
          /\ sektor' = neu
      BY <1>5 DEF GeometrieGeaendert
    <3>4. \A u \in Einheiten : einheit'[u].sektor \in {einheit[u].sektor} \cup {neu[x] : x \in Stellen}
      BY <1>5, <3>2 DEF GeometrieGeaendert
    <3> QED
      BY <3>1, <3>3, <3>4 DEF KeineVerwaistenVerweise
  <2> QED
    BY <2>1, <2>2, <2>3
<1> QED
  BY <1>1, <1>2, <1>3, <1>4, <1>5 DEF SektorSchritt

\* Every step, and every step that changes nothing, keeps the invariant.
LEMMA NextIInv == IInv /\ [Next]_dispVars => IInv'
<1> SUFFICES ASSUME IInv, [Next]_dispVars
             PROVE  IInv'
  OBVIOUS
<1>1. CASE \E e \in Einheiten : EinheitSchritt(e)
  BY <1>1, EinheitStep
<1>2. CASE \E e \in Einheiten, s \in Stellen : DispatchSchritt(e, s)
  BY <1>2, DispatchStep
<1>3. CASE SektorSchritt
  BY <1>3, SektorStep
<1>4. CASE UNCHANGED dispVars
  BY <1>4 DEF dispVars, siteVars, IInv, TypeOK, VorOrtEindeutig, StandortBelegt,
              KeineVerwaistenVerweise
<1> QED
  BY <1>1, <1>2, <1>3, <1>4 DEF Next

\* The rows of units, dispatches and sections keep their types.
THEOREM DispositionTyp == Spec => []TypeOK
<1>1. Spec => []IInv
  BY InitIInv, NextIInv, PTL DEF Spec
<1>2. IInv => TypeOK
  BY DEF IInv
<1> QED
  BY <1>1, <1>2, PTL

\* A unit is on site at one site at most, however many units and sites.
THEOREM VorOrtImmerEindeutig == Spec => []VorOrtEindeutig
<1>1. Spec => []IInv
  BY InitIInv, NextIInv, PTL DEF Spec
<1>2. IInv => VorOrtEindeutig
  BY DEF IInv
<1> QED
  BY <1>1, <1>2, PTL

\* A unit's row points only to a site where its dispatch says it is on site.
THEOREM StandortImmerBelegt == Spec => []StandortBelegt
<1>1. Spec => []IInv
  BY InitIInv, NextIInv, PTL DEF Spec
<1>2. IInv => StandortBelegt
  BY DEF IInv
<1> QED
  BY <1>1, <1>2, PTL

\* Deleted sections and units leave no reference behind.
THEOREM VerweiseImmerGueltig == Spec => []KeineVerwaistenVerweise
<1>1. Spec => []IInv
  BY InitIInv, NextIInv, PTL DEF Spec
<1>2. IInv => KeineVerwaistenVerweise
  BY DEF IInv
<1> QED
  BY <1>1, <1>2, PTL

\* A unit that stays listed where it stands: an action on a unit alone, its own
\* or another's, never separates it from the section of its site.
LEMMA EinheitBleibtEinig ==
  ASSUME IInv, NEW u \in Einheiten, EinheitSchritt(u),
         NEW e \in vorhanden, Einig(e)
  PROVE  Einig(e)'
<1> USE NoneAssumption DEF IInv, TypeOK, Einheit, Einig, siteVars
<1>1. e \in Einheiten
  OBVIOUS
<1>2. CASE AddResource(u)
  BY <1>1, <1>2 DEF AddResource
<1>3. CASE DeleteResource(u)
  BY <1>1, <1>3 DEF DeleteResource, NeueEinheit
<1>4. CASE MoveToPool(u)
  BY <1>1, <1>4 DEF MoveToPool, EinheitImPool
<1>5. ASSUME NEW st \in EinheitStatus, StatusRoute(u, st)
      PROVE  Einig(e)'
  <2>1. CASE SetStatus(u, st)
    BY <1>1, <2>1 DEF SetStatus, SektorNachStatus
  <2> QED
    BY <1>4, <1>5, <2>1 DEF StatusRoute
<1>6. ASSUME NEW k \in Sektoren, AssignToSector(u, k)
      PROVE  Einig(e)'
  BY <1>1, <1>6 DEF AssignToSector
<1> QED
  BY <1>2, <1>3, <1>4, <1>5, <1>6 DEF EinheitSchritt

\* Neither does a dispatch: who is marked "vor Ort" is listed under that site's
\* section, who is withdrawn from the site it stands at stands nowhere.
LEMMA DispatchBleibtEinig ==
  ASSUME IInv, NEW u \in Einheiten, NEW s \in Stellen, DispatchSchritt(u, s),
         NEW e \in vorhanden, Einig(e)
  PROVE  Einig(e)'
<1> USE NoneAssumption DEF IInv, TypeOK, Einheit, Einig, siteVars
<1>1. e \in Einheiten
  OBVIOUS
<1>2. CASE DispatchToSite(u, s)
  BY <1>1, <1>2 DEF DispatchToSite
<1>3. CASE SetVorOrt(u, s)
  BY <1>1, <1>3 DEF SetVorOrt, EinheitVorOrt
<1>4. CASE ResolveVorOrtConflict(u, s)
  BY <1>1, <1>4 DEF ResolveVorOrtConflict, EinheitVorOrt
<1>5. CASE Withdraw(u, s)
  BY <1>1, <1>5 DEF Withdraw
<1> QED
  BY <1>2, <1>3, <1>4, <1>5 DEF DispatchSchritt, AssignToSite

\* Of the steps of the sections only the location of a site does: a unit dispatched
\* nowhere else follows the site it stands at, and no other.
LEMMA SektorBleibtEinig ==
  ASSUME IInv, SektorSchritt, NEW e \in vorhanden, Einig(e), NurHier(e)',
         \A s \in Stellen : ~SiteGeortet(s)
  PROVE  Einig(e)'
<1> USE NoneAssumption DEF IInv, TypeOK, Einheit, Einig, siteVars
<1>1. e \in Einheiten
  OBVIOUS
<1>2. ASSUME NEW k \in Sektoren, SektorAnlegen(k)
      PROVE  Einig(e)'
  BY <1>2 DEF SektorAnlegen
<1>3. ASSUME NEW k \in Sektoren, SektorLoeschen(k)
      PROVE  Einig(e)'
  <2>1. /\ einheit'[e].stelle = einheit[e].stelle
        /\ einheit'[e].sektor = IF einheit[e].sektor = k THEN None
                                                       ELSE einheit[e].sektor
    BY <1>1, <1>3 DEF SektorLoeschen
  <2>2. \A s \in Stellen : sektor'[s] = IF sektor[s] = k THEN None ELSE sektor[s]
    BY <1>3 DEF SektorLoeschen
  <2>3. einheit[e].stelle \in Stellen \cup {None}
    BY <1>1
  <2> QED
    BY <2>1, <2>2, <2>3
<1>4. ASSUME NEW s \in Stellen, NEW k \in Sektoren \cup {None},
             SiteSektorAssign(s, k)
      PROVE  Einig(e)'
  <2>1. einheit[e].stelle \in Stellen \cup {None}
    BY <1>1
  <2>2. einheit'[e].stelle = einheit[e].stelle
    BY <1>1, <1>4 DEF SiteSektorAssign
  <2>3. CASE e \in Betroffen(s)
    <3>1. einheit'[e].sektor = k
      BY <1>1, <1>4, <2>3 DEF SiteSektorAssign
    <3>2. einheit[e].stelle = s
      BY <1>4, <2>2, <2>3 DEF SiteSektorAssign, Betroffen, NurHier, Aktiv
    <3>3. sektor'[s] = k
      BY <1>4 DEF SiteSektorAssign
    <3> QED
      BY <2>2, <3>1, <3>2, <3>3
  <2>4. CASE e \notin Betroffen(s)
    <3>1. einheit'[e].sektor = einheit[e].sektor
      BY <1>1, <1>4, <2>4 DEF SiteSektorAssign
    <3>2. einheit[e].stelle # s
      BY <2>4 DEF Betroffen
    <3>3. \A t \in Stellen \ {s} : sektor'[t] = sektor[t]
      BY <1>4 DEF SiteSektorAssign
    <3> QED
      BY <2>1, <2>2, <3>1, <3>2, <3>3
  <2> QED
    BY <2>3, <2>4
<1>5. ASSUME NEW neu \in [Stellen -> Sektoren \cup {None}], NEW erzwungen \in BOOLEAN,
             NEW letzte \in [Einheiten -> Umgehaengt(neu)],
             GeometrieGeaendert(neu, letzte, erzwungen)
      PROVE  Einig(e)'
  <2>1. einheit[e].stelle \in Stellen \cup {None}
    BY <1>1
  <2>2. einheit'[e].stelle = einheit[e].stelle
    BY <1>1, <1>5 DEF GeometrieGeaendert
  <2>3. \A s \in Stellen : e \in Betroffen(s) => einheit[e].stelle = s
    BY <1>5, <2>2 DEF GeometrieGeaendert, Betroffen, NurHier, Aktiv
  <2>4. sektor' = neu
    BY <1>5 DEF GeometrieGeaendert
  <2>5. CASE Folgt(e, neu) # {}
    <3>1. einheit'[e].sektor = neu[letzte[e]]
      BY <1>1, <1>5, <2>5 DEF GeometrieGeaendert
    <3>2. letzte[e] \in Folgt(e, neu)
      BY <1>1, <1>5, <2>5 DEF GeometrieGeaendert
    <3>3. einheit[e].stelle = letzte[e]
      BY <2>3, <3>2 DEF Folgt, Umgehaengt
    <3> QED
      BY <2>2, <2>4, <3>1, <3>3
  <2>6. CASE Folgt(e, neu) = {}
    <3>1. einheit'[e].sektor = einheit[e].sektor
      BY <1>1, <1>5, <2>6 DEF GeometrieGeaendert
    <3>2. einheit[e].stelle # None => neu[einheit[e].stelle] = sektor[einheit[e].stelle]
      BY <2>1, <2>6 DEF Folgt, Umgehaengt, Betroffen
    <3> QED
      BY <2>2, <2>4, <3>1, <3>2
  <2> QED
    BY <2>5, <2>6
<1>6. \A s \in Stellen : ~SiteGeortet(s)
  OBVIOUS
<1> HIDE DEF IInv, TypeOK, Einheit, Einig
<1> QED
  BY <1>2, <1>3, <1>4, <1>5, <1>6 DEF SektorSchritt

\* A unit is separated from the section of the site it stands at only when the site
\* is located: by a pin, or by the background task of the alarm it was entered by.
THEOREM OrtungAlleinTrenntSektor == Spec => NurOrtungTrenntSektor
<1> DEFINE Trennt == \A e \in vorhanden :
             Einig(e) /\ ~Einig(e)' /\ NurHier(e)'
               => \E s \in Stellen : SiteGeortet(s)
<1>1. Spec => []IInv
  BY InitIInv, NextIInv, PTL DEF Spec
<1>2. IInv /\ [Next]_dispVars => [Trennt]_dispVars
  <2> SUFFICES ASSUME IInv, Next, NEW e \in vorhanden,
                      Einig(e), ~Einig(e)', NurHier(e)'
               PROVE  \E s \in Stellen : SiteGeortet(s)
    OBVIOUS
  <2>1. ~ \E u \in Einheiten : EinheitSchritt(u)
    BY EinheitBleibtEinig
  <2>2. ~ \E u \in Einheiten, s \in Stellen : DispatchSchritt(u, s)
    BY DispatchBleibtEinig
  <2> QED
    BY <2>1, <2>2, SektorBleibtEinig DEF Next
<1> QED
  BY <1>1, <1>2, PTL DEF Spec, NurOrtungTrenntSektor
=============================================================================
