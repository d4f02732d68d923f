----------------------- MODULE LagemeldungZweiWorker -----------------------
(***************************************************************************)
(* The reminder loop of Lagemeldung in every worker process: app/main.py   *)
(* starts gsl_lagemeldung_reminder_loop in the lifespan of each of the two *)
(* gunicorn workers, without a lock or a leader. A scan of one worker      *)
(* reads, and commits what it decided after the requests and scans the     *)
(* other worker committed meanwhile. Handlers stay single steps.           *)
(*                                                                         *)
(* Reopening an order by hand and the resource overview are left to        *)
(* Lagemeldung.                                                            *)
(***************************************************************************)
EXTENDS Lagemeldung

CONSTANT Worker   \* the worker processes

ASSUME WorkerAssumption == IsFiniteSet(Worker)

VARIABLE scan     \* what the scan a worker has open will write

zwVars == <<lmVars, scan>>

KeinScan == [auftrag |-> {}, uhr |-> {}]

\* Sites in the order list of some open scan, per site the workers.
Schreibt(s) == {w \in Worker : s \in scan[w].auftrag}

-----------------------------------------------------------------------------

\* Both queries of _scan_and_create and the checks between them.
ScanLesen(w) ==
  /\ scan[w] = KeinScan
  /\ NeuerAuftrag \cup NeueUhr # {}
  /\ scan' = [scan EXCEPT ![w] = [auftrag |-> NeuerAuftrag, uhr |-> NeueUhr]]
  /\ UNCHANGED lmVars

\* The commit: an INSERT per order, an UPDATE per started timer.
ScanSchreiben(w) ==
  /\ scan[w] # KeinScan
  /\ offen' = [s \in Stellen |->
                 IF s \in scan[w].auftrag THEN offen[s] + 1 ELSE offen[s]]
  /\ uhr' = [s \in Stellen |-> IF s \in scan[w].uhr THEN "laeuft" ELSE uhr[s]]
  /\ scan' = [scan EXCEPT ![w] = KeinScan]
  /\ UNCHANGED <<dispVars, lage, phase, erledigt, zuweisung, intervall,
                 autoAuftrag>>

\* The check mark of the journal on an open order.
Abhaken(s) ==
  /\ FunkjournalHandled(s)
  /\ offen'[s] < offen[s]

Handler ==
  \/ \E s \in Stellen :
       \/ \E p \in Phasen : SitePhaseChange(s, p)
       \/ SitePrioChange(s) \/ SiteLogAdd(s) \/ Abhaken(s) \/ FristLaeuftAb(s)
  \/ \E e \in Einheiten, s \in Stellen : EinheitAnStelle(e, s)
  \/ LageBeenden \/ LageWiederoeffnen

ZWInit == LMInit /\ scan = [w \in Worker |-> KeinScan]

ZWNext ==
  \/ Handler /\ UNCHANGED scan
  \/ \E w \in Worker : ScanLesen(w) \/ ScanSchreiben(w)

Scan(w) == ScanLesen(w) \/ ScanSchreiben(w)

\* Each worker's loop goes on by itself, every 45 s.
ZWSpec == ZWInit /\ [][ZWNext]_zwVars /\ \A w \in Worker : WF_zwVars(Scan(w))

-----------------------------------------------------------------------------
(* Properties *)

\* However scans and reports overlap, a site never has more open orders than
\* there are workers, the ones about to be written included: every open scan
\* with an order for a site began while the site had none.
HoechstensJeWorker == \A s \in Stellen : offen[s] + Cardinality(Schreibt(s)) <= Cardinality(Worker)

\* A second loop costs duplicates, never an order: the promise of Regelkreis.
ZWVersprechen == RegelkreisVersprechen

\* gsl_lagemeldung_reminder.py: while an automatic order is open, no new one is
\* created.
Dedup == [][\A s \in Stellen : offen'[s] > offen[s] => offen[s] = 0]_zwVars
=============================================================================
