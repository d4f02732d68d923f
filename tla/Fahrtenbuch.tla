---------------------------- MODULE Fahrtenbuch ----------------------------
(***************************************************************************)
(* The trips of a vehicle and its counter, and the report of a damage that *)
(* was entered with a trip.                                                *)
(*                                                                         *)
(* Source: app/services/fahrtenbuch_service.py, schaden_service.py,        *)
(* app/routers/ui_fahrtenbuch.py, ui_fahrtenbuch_admin.py.                 *)
(*                                                                         *)
(* One vehicle with one of its three counters (km, hours, winch), which    *)
(* are treated alike. A request is a transaction over the snapshot of its  *)
(* first read. A correction awaits its form after that, so that others     *)
(* commit in between, in one worker too; the session does not flush before *)
(* a query (autoflush=False), so that a query does not see what the        *)
(* transaction has changed.                                                *)
(***************************************************************************)
EXTENDS Basis, Integers, FiniteSetsExt

CONSTANTS
  Fahrten,       \* trips
  Staende,       \* readings of the counter, from 0
  WarnSchwelle,  \* warn_schwelle_km: a longer trip has to be confirmed
  FahrtUmfaenge, \* bounds: workers, trips, readings, and whether damages are entered
  MaxHandgriffe, \* bound: corrections of the counter by hand and repeated reports
  MaxNeustart    \* bound: restarts of a worker

Kanaele == {"mail", "teams"}

\* A row of fahrt, a transaction that is open, and a report of melde_schaden at work.
FahrtZeilen == [status : {"aktiv", "storniert", "ersetzt"}, stand : Staende \cup {None},
                schaden : BOOLEAN, delta : Int,
                original : Fahrten \cup {None}, ersatz : Fahrten \cup {None}]
FahrtTransaktionen == [art : {"neu", "korrektur", "storno"}, fahrt : Fahrten \cup {None},
                       neu : Fahrten \cup {None}, stand : Staende \cup {None},
                       schaden : BOOLEAN, bestand : [Fahrten -> FahrtZeilen \cup {None}],
                       zaehler : Staende]
SchadenMeldungen == [worker : Workers, fahrt : Fahrten, rest : SUBSET Kanaele,
                     fertig : SUBSET (Kanaele \X {"gesendet", "fehler"})]

ASSUME FahrtenAssumption ==
  /\ FahrtUmfaenge \subseteq [worker : SUBSET Workers, fahrten : Nat,
                             staende : SUBSET (Staende \cup {None}), schaden : BOOLEAN]
  /\ Staende \subseteq Nat /\ 0 \in Staende /\ None \notin Staende /\ None \notin Fahrten
  /\ None \notin FahrtZeilen /\ None \notin FahrtTransaktionen

VARIABLES
  fUmfang,    \* the bounds of this run
  fahrt,      \* fahrt: None, or status, reading, delta and its chain of corrections
  zaehler,    \* km_aktuell of the vehicle
  fTx,        \* per open request: the transaction between its read and its commit
  vermerk,    \* fahrt_benachrichtigung: the channels a damage was noted for
  fTask,      \* melde_schaden at work: worker, trip, channels that are left and
              \* those that are done but not committed
  schadenVerloren,  \* history: reports a restart cut off
  handgesetzt, storniertWurde,  \* history: the counter was set by hand, a trip cancelled
  fUeberholt, \* history: a request has written after what it had read was changed
  handgriffe, neustarts         \* bounds

fahrtenVars == <<fUmfang, fahrt, zaehler, fTx, vermerk, fTask, schadenVerloren, handgesetzt,
                 storniertWurde, fUeberholt, handgriffe, neustarts>>

FahrtFrei(w) == w \in fUmfang.worker /\ fTx[w] = None

Vergeben == {f \in Fahrten : fahrt[f] # None}
              \cup {fTx[w].neu : w \in {w \in Workers : fTx[w] # None}}

\* The next id; those of an open transaction are taken.
NeueFahrt(f) == f \in 1..fUmfang.fahrten /\ f \notin Vergeben /\ 1..(f - 1) \subseteq Vergeben

AktiveStaende(bestand) ==
  {bestand[f].stand : f \in {f \in Fahrten : bestand[f] # None /\ bestand[f].status = "aktiv"}}
    \ {None}

-----------------------------------------------------------------------------
(* Trips *)

\* pruefe_zaehler and the warning a user has to confirm (422 otherwise)
PruefeZaehler(stand, bestaetigt) ==
  \A s \in {stand} \ {None} : s >= zaehler /\ (s > zaehler + WarnSchwelle => bestaetigt)

\* The transactions of trips: what they have read and checked.
Gelesen(w, art, f, neu, stand, schaden) ==
  fTx' = [fTx EXCEPT ![w] =
    [art |-> art, fahrt |-> f, neu |-> neu, stand |-> stand, schaden |-> schaden,
     bestand |-> fahrt, zaehler |-> zaehler]]

NurGelesen == UNCHANGED <<fUmfang, fahrt, zaehler, vermerk, fTask, schadenVerloren, handgesetzt,
                          storniertWurde, fUeberholt, handgriffe, neustarts>>

\* erstelle_fahrt for fahrtenbuch_speichern; a trip without a reading leaves the counter.
Erfassen(w, neu, stand, bestaetigt, schaden) ==
  /\ FahrtFrei(w) /\ NeueFahrt(neu) /\ PruefeZaehler(stand, bestaetigt)
  /\ schaden => fUmfang.schaden
  /\ Gelesen(w, "neu", None, neu, stand, schaden)
  /\ NurGelesen

\* fahrt_korrektur_speichern reads the trip and awaits the form; korrigiere_fahrt goes on
\* with that snapshot: any trip, whatever its status (the page offers it for active
\* ones). The reading is checked against a counter
\* that contains the trip to be corrected.
Korrigieren(w, f, neu, stand, bestaetigt, schaden) ==
  /\ FahrtFrei(w) /\ fahrt[f] # None /\ NeueFahrt(neu) /\ PruefeZaehler(stand, bestaetigt)
  /\ schaden => fUmfang.schaden
  /\ Gelesen(w, "korrektur", f, neu, stand, schaden)
  /\ NurGelesen

\* fahrt_storno
Stornieren(w, f) ==
  /\ FahrtFrei(w) /\ fahrt[f] # None /\ fahrt[f].status = "aktiv"
  /\ Gelesen(w, "storno", f, None, None, FALSE)
  /\ NurGelesen

Neu(t) == [status |-> "aktiv", stand |-> t.stand, schaden |-> t.schaden,
           delta |-> IF t.stand = None THEN 0 ELSE t.stand - t.zaehler,
           original |-> t.fahrt, ersatz |-> None]

\* Nobody has changed what a transaction has read.
FahrtAktuell(t) == t.bestand = fahrt /\ t.zaehler = zaehler

UeberholungVermerkt(t) == fUeberholt' = (fUeberholt \/ ~FahrtAktuell(t))

\* The counter is only written if it differs from what was read.
ZaehlerNach(t, wert) == IF wert = t.zaehler THEN zaehler ELSE wert

FahrtFestgeschrieben(w) ==
  LET t == fTx[w] IN
  /\ t # None /\ t.art = "neu"
  /\ fahrt' = [fahrt EXCEPT ![t.neu] = Neu(t)]
  /\ zaehler' = IF t.stand = None THEN zaehler ELSE ZaehlerNach(t, t.stand)
  /\ fTask' = IF t.schaden
                THEN fTask \cup {[worker |-> w, fahrt |-> t.neu, rest |-> Kanaele, fertig |-> {}]}
                ELSE fTask
  /\ UeberholungVermerkt(t)
  /\ fTx' = [fTx EXCEPT ![w] = None]
  /\ UNCHANGED <<fUmfang, vermerk, schadenVerloren, handgesetzt, storniertWurde, handgriffe,
                 neustarts>>

\* Mutant: the new trip does not name the one it corrects.
OhneOriginal(t) == [Neu(t) EXCEPT !.original = None]

NeuZuOriginal(t) == Neu(t)

\* A damage that is entered with a correction is not reported.
KorrekturFestgeschrieben(w) ==
  LET t == fTx[w] IN
  /\ t # None /\ t.art = "korrektur"
  /\ fahrt' = [fahrt EXCEPT ![t.neu] = NeuZuOriginal(t),
                 ![t.fahrt].status = IF t.bestand[t.fahrt].status = "ersetzt" THEN @ ELSE "ersetzt",
                 ![t.fahrt].ersatz = t.neu]
  /\ zaehler' = IF t.stand = None THEN zaehler ELSE ZaehlerNach(t, t.stand)
  /\ UeberholungVermerkt(t)
  /\ fTx' = [fTx EXCEPT ![w] = None]
  /\ UNCHANGED <<fUmfang, vermerk, fTask, schadenVerloren, handgesetzt, storniertWurde,
                 handgriffe, neustarts>>

\* recompute_zaehlerstand: nothing was flushed, so that the trip that is being
\* cancelled still counts.
HoechsterAktiver(t) ==
  LET S == AktiveStaende(t.bestand) IN IF S = {} THEN t.zaehler ELSE Max(S)

\* storniere_fahrt
StornoFestgeschrieben(w) ==
  LET t == fTx[w] IN
  /\ t # None /\ t.art = "storno"
  /\ fahrt' = [fahrt EXCEPT ![t.fahrt].status = "storniert"]
  /\ zaehler' = ZaehlerNach(t, HoechsterAktiver(t))
  /\ storniertWurde' = TRUE /\ UeberholungVermerkt(t)
  /\ fTx' = [fTx EXCEPT ![w] = None]
  /\ UNCHANGED <<fUmfang, vermerk, fTask, schadenVerloren, handgesetzt, handgriffe, neustarts>>

\* zaehler_korrektur, stammdaten_korrektur_zaehler: one statement
ZaehlerVonHand(w, wert) ==
  /\ FahrtFrei(w) /\ handgriffe < MaxHandgriffe /\ wert # zaehler
  /\ zaehler' = wert /\ handgesetzt' = TRUE /\ handgriffe' = handgriffe + 1
  /\ UNCHANGED <<fUmfang, fahrt, fTx, vermerk, fTask, schadenVerloren, storniertWurde,
                 fUeberholt, neustarts>>

-----------------------------------------------------------------------------
(* Reports of damages *)

\* schaden_retry of the administration
SchadenRetry(w, f) ==
  /\ FahrtFrei(w) /\ fUmfang.schaden /\ fahrt[f] # None /\ handgriffe < MaxHandgriffe
  /\ \A t \in fTask : t.fahrt # f
  /\ fTask' = fTask \cup {[worker |-> w, fahrt |-> f, rest |-> Kanaele, fertig |-> {}]}
  /\ handgriffe' = handgriffe + 1
  /\ UNCHANGED <<fUmfang, fahrt, zaehler, fTx, vermerk, schadenVerloren, handgesetzt,
                 storniertWurde, fUeberholt, neustarts>>

\* Mutant: a mail that fails leaves melde_schaden, and nothing is committed.
AbbruchBeiFehler(t) == fTask \ {t}

\* The mail server's error is caught and noted.
FehlerVermerkt(t) == (fTask \ {t}) \cup {[t EXCEPT !.rest = @ \ {"mail"},
                                                  !.fertig = @ \cup {<<"mail", "fehler">>}]}

\* melde_schaden: both channels are awaited in turn.
MailGesendet(t) ==
  /\ t \in fTask /\ "mail" \in t.rest
  /\ \/ fTask' = (fTask \ {t}) \cup {[t EXCEPT !.rest = @ \ {"mail"},
                                              !.fertig = @ \cup {<<"mail", "gesendet">>}]}
     \/ fTask' = FehlerVermerkt(t)
  /\ UNCHANGED <<fUmfang, fahrt, zaehler, fTx, vermerk, schadenVerloren, handgesetzt,
                 storniertWurde, fUeberholt, handgriffe, neustarts>>

\* post_teams_karte answers whether it worked; then the rows are committed.
TeamsUndFestschreiben(t) ==
  /\ t \in fTask /\ t.rest = {"teams"}
  /\ \E ok \in {"gesendet", "fehler"} :
       vermerk' = [vermerk EXCEPT ![t.fahrt] = @ \cup t.fertig \cup {<<"teams", ok>>}]
  /\ fTask' = fTask \ {t}
  /\ UNCHANGED <<fUmfang, fahrt, zaehler, fTx, schadenVerloren, handgesetzt, storniertWurde,
                 fUeberholt, handgriffe, neustarts>>

\* A worker is restarted: its requests are rolled back, the background tasks of them
\* and of earlier ones are lost.
FahrtNeustart(W) ==
  /\ W \subseteq fUmfang.worker /\ W # {} /\ neustarts < MaxNeustart
  /\ fTx' = [w \in Workers |-> IF w \in W THEN None ELSE fTx[w]]
  /\ schadenVerloren' = schadenVerloren \cup {t.fahrt : t \in {t \in fTask : t.worker \in W}}
  /\ fTask' = {t \in fTask : t.worker \notin W}
  /\ neustarts' = neustarts + 1
  /\ UNCHANGED <<fUmfang, fahrt, zaehler, vermerk, handgesetzt, storniertWurde, fUeberholt,
                 handgriffe>>

-----------------------------------------------------------------------------

FahrtenInit ==
  /\ fUmfang \in FahrtUmfaenge
  /\ fahrt = [f \in Fahrten |-> None]
  /\ zaehler = 0
  /\ fTx = [w \in Workers |-> None]
  /\ vermerk = [f \in Fahrten |-> {}]
  /\ fTask = {} /\ schadenVerloren = {}
  /\ handgesetzt = FALSE /\ storniertWurde = FALSE /\ fUeberholt = FALSE
  /\ handgriffe = 0 /\ neustarts = 0

FahrtFestschreiben(w) ==
  FahrtFestgeschrieben(w) \/ KorrekturFestgeschrieben(w) \/ StornoFestgeschrieben(w)

SchadenMelden(f) ==
  \E t \in {t \in fTask : t.fahrt = f} : MailGesendet(t) \/ TeamsUndFestschreiben(t)

FahrtenNext ==
  \/ \E w \in Workers :
       \/ \E neu \in Fahrten, stand \in fUmfang.staende, bestaetigt, schaden \in BOOLEAN :
            \/ Erfassen(w, neu, stand, bestaetigt, schaden)
            \/ \E f \in Fahrten : Korrigieren(w, f, neu, stand, bestaetigt, schaden)
       \/ \E f \in Fahrten : Stornieren(w, f) \/ SchadenRetry(w, f)
       \/ FahrtFestschreiben(w)
       \/ \E wert \in fUmfang.staende \ {None} : ZaehlerVonHand(w, wert)
  \/ \E W \in SUBSET Workers : FahrtNeustart(W)
  \/ \E f \in Fahrten : SchadenMelden(f)

FahrtenSpec ==
  /\ FahrtenInit /\ [][FahrtenNext]_fahrtenVars
  /\ \A f \in Fahrten : WF_fahrtenVars(SchadenMelden(f))

-----------------------------------------------------------------------------
(* Properties *)

FahrtenTypeOK ==
  /\ fahrt \in [Fahrten -> FahrtZeilen \cup {None}] /\ zaehler \in Staende
  /\ vermerk \in [Fahrten -> SUBSET (Kanaele \X {"gesendet", "fehler"})]
  /\ fTask \subseteq SchadenMeldungen

\* Unless the counter is set by hand, or a request writes after what it had read was
\* changed, no active trip lies above it, whatever is entered, corrected and cancelled.
AktiveBisZumZaehler ==
  (~fUeberholt /\ ~handgesetzt) => \A s \in AktiveStaende(fahrt) : s <= zaehler

\* What the counter ran through on a trip that has a reading.
Strecke(f) ==
  IF fahrt[f] = None \/ fahrt[f].stand = None THEN {}
  ELSE (fahrt[f].stand - fahrt[f].delta + 1)..fahrt[f].stand

\* The distances of the trips, the corrected ones too, add up to the counter, as long as
\* none is cancelled, nobody sets it by hand and no request writes after what it had read
\* was changed: each kilometre it shows was driven on one trip and on one only.
JederKilometerEinmal ==
  (~fUeberholt /\ ~handgesetzt /\ ~storniertWurde) =>
    /\ 1..zaehler = UNION {Strecke(f) : f \in Fahrten}
    /\ \A f, g \in Fahrten : f # g => Strecke(f) \cap Strecke(g) = {}

\* A trip that was replaced leads to another that names it, even when it was
\* corrected twice or by two requests at once.
ErsetzteHabenNachfolger ==
  \A f \in Fahrten : (fahrt[f] # None /\ fahrt[f].status = "ersetzt") =>
    /\ fahrt[f].ersatz # None
    /\ fahrt[fahrt[f].ersatz] # None /\ fahrt[fahrt[f].ersatz].original = f

\* A damage that was entered with a trip is noted for both channels sooner or
\* later, whether they work or not, unless the worker is restarted before.
SchadenWirdVermerkt ==
  \A f \in Fahrten :
    (\E t \in fTask : t.fahrt = f) ~>
      (f \in schadenVerloren \/ {k[1] : k \in vermerk[f]} = Kanaele)

\* What the trip book promises: counter, distances and corrections fit together, whatever
\* is entered, corrected and cancelled in between.
FahrtenVersprechen ==
  /\ FahrtenTypeOK
  /\ AktiveBisZumZaehler
  /\ JederKilometerEinmal
  /\ ErsetzteHabenNachfolger
=============================================================================
