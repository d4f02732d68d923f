------------------------ MODULE DispositionParallel ------------------------
(***************************************************************************)
(* The dispatches of one unit when requests overlap. A request reads inside *)
(* one database transaction and writes at its commit; neither the code nor *)
(* a constraint of the table excludes the commit of another one in between,*)
(* at the other worker (gunicorn -w 2, deploy/einsatzleiter.service) or at *)
(* the same one, since _resolve_current_org queries the database, and so   *)
(* fixes what the request sees, before its handler is called. A commit     *)
(* that is not overtaken is a step of Disposition, see UngestoerteSchritte.*)
(*                                                                         *)
(* Dispatch rows are kept one by one here, because two transactions can    *)
(* leave two active rows for the same site. The ORM writes only columns    *)
(* whose value differs from the one it read.                               *)
(***************************************************************************)
EXTENDS Basis, Naturals, Sequences, FiniteSets

CONSTANTS
  ParWorker,   \* who may have a request open: the worker processes and their threads
  Stellen,     \* sites of the incident
  MaxZeilen    \* bound: dispatch rows of the unit

ASSUME MaxZeilenAssumption == MaxZeilen \in Nat
ASSUME ParWorkerAssumption == IsFiniteSet(ParWorker)
ASSUME NoneAssumption == None \notin Stellen

VARIABLES
  zeilen,    \* einheit_site_dispatch, in the order of insertion
  einheit,   \* the unit's status and incident_site_id
  arbeit     \* what each one's open transaction is going to write

parVars == <<zeilen, einheit, arbeit>>

Zeile == [stelle : Stellen, vorOrt : BOOLEAN, abgezogen : BOOLEAN]
EinheitZeile == [status : {"bereitgestellt", "im_einsatz"},
                 stelle : Stellen \cup {None}]

\* The routes einheit-disponieren, einheit-vor-ort without and with
\* confirmation, einheit-abziehen.
AnStelle == {"disponieren", "vor_ort", "verlegen", "abziehen"}

-----------------------------------------------------------------------------
(* The queries of resource_service. *)

AktiveZeilen(s) == {i \in DOMAIN zeilen : zeilen[i].stelle = s /\ ~zeilen[i].abgezogen}

VorOrtZeilen == {i \in DOMAIN zeilen : zeilen[i].vorOrt /\ ~zeilen[i].abgezogen}

Konflikte(s) == {i \in VorOrtZeilen : zeilen[i].stelle # s}

\* Mutant: set_vor_ort_at_site does not look for a conflict.
OhneKonfliktPruefung(op, s) ==
  CASE op = "disponieren" -> AktiveZeilen(s) = {}
    [] op = "abziehen"    -> AktiveZeilen(s) # {}
    [] OTHER              -> TRUE

\* The checks that end a handler before it writes.
Zulaessig(op, s) ==
  CASE op = "disponieren" -> AktiveZeilen(s) = {}
    [] op = "vor_ort"     -> Konflikte(s) = {}
    [] op = "verlegen"    -> TRUE
    [] op = "abziehen"    -> AktiveZeilen(s) # {}

\* The rows resolve_vor_ort_conflict withdraws.
Abzuziehen(op, s) == IF op = "verlegen" THEN Konflikte(s) ELSE {}

\* The transactions a handler can have open after its reads: the row .first()
\* found (0: none), the rows to withdraw, the unit's columns as read.
TxGelesen(op, s) ==
  {[op |-> op, stelle |-> s, zeile |-> z, abzug |-> Abzuziehen(op, s),
    einheit |-> einheit] :
     z \in IF AktiveZeilen(s) = {} THEN {0} ELSE AktiveZeilen(s)}

\* Whether the transaction inserts a row, marks one as on site.
NeueZeile(a) == a.zeile = 0 /\ a.op # "pool"
MeldetVorOrt(a) == a.op \in {"vor_ort", "verlegen"}

\* The bound leaves room for the rows that open transactions will insert.
Einfuegende == {w \in ParWorker : arbeit[w] # None /\ NeueZeile(arbeit[w])}
Platz == Len(zeilen) + Cardinality(Einfuegende) < MaxZeilen

-----------------------------------------------------------------------------

TxLesen(w, op, s) ==
  /\ arbeit[w] = None
  /\ Zulaessig(op, s)
  /\ \E a \in TxGelesen(op, s) : /\ NeueZeile(a) => Platz
                              /\ arbeit' = [arbeit EXCEPT ![w] = a]
  /\ UNCHANGED <<zeilen, einheit>>

\* move_to_pool reads the unit only.
TxLesenPool(w) ==
  /\ arbeit[w] = None
  /\ arbeit' = [arbeit EXCEPT ![w] = [op |-> "pool", stelle |-> None, zeile |-> 0,
                                     abzug |-> {}, einheit |-> einheit]]
  /\ UNCHANGED <<zeilen, einheit>>

\* The known rows after the commit: vor_ort_at is set on the row that was
\* found, withdrawn_at on the row "abziehen" found and on the conflicts.
Aktualisiert(a) ==
  [i \in DOMAIN zeilen |->
     [zeilen[i] EXCEPT !.vorOrt = @ \/ (i = a.zeile /\ MeldetVorOrt(a)),
                       !.abgezogen = @ \/ i \in a.abzug
                                       \/ (i = a.zeile /\ a.op = "abziehen")]]

Eingefuegt(a) ==
  IF NeueZeile(a)
  THEN <<[stelle |-> a.stelle, vorOrt |-> MeldetVorOrt(a), abgezogen |-> FALSE]>>
  ELSE <<>>

\* The unit as the handler wants it, from the columns it read.
Gewollt(a) ==
  [status |-> CASE a.op = "pool"     -> "bereitgestellt"
                [] a.op = "abziehen" -> a.einheit.status
                [] OTHER             -> "im_einsatz",
   stelle |-> CASE MeldetVorOrt(a) -> a.stelle
                [] a.op = "pool" -> None
                [] a.op = "abziehen" /\ a.einheit.stelle = a.stelle -> None
                [] OTHER -> a.einheit.stelle]

\* The UPDATE names only the columns that changed.
TxGeschrieben(a) ==
  [status |-> IF Gewollt(a).status # a.einheit.status
              THEN Gewollt(a).status ELSE einheit.status,
   stelle |-> IF Gewollt(a).stelle # a.einheit.stelle
              THEN Gewollt(a).stelle ELSE einheit.stelle]

TxSchreiben(w) ==
  /\ arbeit[w] # None
  /\ zeilen' = Aktualisiert(arbeit[w]) \o Eingefuegt(arbeit[w])
  /\ einheit' = TxGeschrieben(arbeit[w])
  /\ arbeit' = [arbeit EXCEPT ![w] = None]

-----------------------------------------------------------------------------

ParInit ==
  /\ zeilen = <<>>
  /\ einheit = [status |-> "bereitgestellt", stelle |-> None]
  /\ arbeit = [w \in ParWorker |-> None]

ParNext ==
  \/ \E w \in ParWorker : TxSchreiben(w)
  \/ \E w \in ParWorker, op \in AnStelle, s \in Stellen : TxLesen(w, op, s)
  \/ \E w \in ParWorker : TxLesenPool(w)

ParSpec == ParInit /\ [][ParNext]_parVars

-----------------------------------------------------------------------------
(* Properties *)

\* Rows, unit and open transactions keep their types.
ParTypeOK ==
  /\ zeilen \in Seq(Zeile) /\ Len(zeilen) <= MaxZeilen
  /\ einheit \in EinheitZeile
  /\ \A w \in ParWorker : arbeit[w] # None =>
       /\ arbeit[w].op \in AnStelle \cup {"pool"}
       /\ arbeit[w].op \in AnStelle => arbeit[w].stelle \in Stellen
       /\ arbeit[w].zeile \in 0..Len(zeilen)
       /\ arbeit[w].abzug \subseteq DOMAIN zeilen
       /\ arbeit[w].einheit \in EinheitZeile

\* No other request committed a change to what w has read.
Aktuell(w) ==
  /\ arbeit[w] \in TxGelesen(arbeit[w].op, arbeit[w].stelle)
  /\ arbeit[w].op = "pool" \/ Zulaessig(arbeit[w].op, arbeit[w].stelle)

\* Whatever rows racing workers left, a confirmed relocation that is not itself
\* overtaken puts the unit on site at the chosen site and nowhere else.
VerlegungBereinigt ==
  [][\A w \in ParWorker :
       TxSchreiben(w) /\ arbeit[w].op = "verlegen" /\ Aktuell(w) =>
         \A i \in VorOrtZeilen' : zeilen'[i].stelle = arbeit[w].stelle]_parVars

\* The dispatch of Disposition a site's rows stand for.
DispatchVon(s) ==
  CASE \E i \in VorOrtZeilen : zeilen[i].stelle = s -> "vor_ort"
    [] AktiveZeilen(s) # {} /\ AktiveZeilen(s) \cap VorOrtZeilen = {} -> "disponiert"
    [] AktiveZeilen(s) = {} /\ \E i \in DOMAIN zeilen : zeilen[i].stelle = s -> "abgezogen"
    [] OTHER -> "keine"

D == INSTANCE Disposition WITH
       Einheiten <- {0}, Fahrzeuge <- {0}, Sektoren <- {},
       vorhanden <- {0},
       einheit <- [e \in {0} |-> [status |-> einheit.status, sektor |-> None,
                                  stelle |-> einheit.stelle]],
       dispatch <- [e \in {0} |-> [s \in Stellen |-> DispatchVon(s)]],
       sektoren <- {},
       sektor <- [s \in Stellen |-> None],
       modus <- [s \in Stellen |-> "auto"],
       anreicherung <- {}

\* Two active rows for a site are left by races only.
EineAktiveZeile == \A s \in Stellen : Cardinality(AktiveZeilen(s)) <= 1

\* The atomic steps of Disposition are what the handlers do: from rows no race has
\* doubled, a commit that was not overtaken is one step of Disposition.
UngestoerteSchritte ==
  [][\A w \in ParWorker :
       TxSchreiben(w) /\ Aktuell(w) /\ EineAktiveZeile => D!Next]_parVars

\* No commit was overtaken.
NieUeberholt == [][\A w \in ParWorker : TxSchreiben(w) => Aktuell(w)]_parVars

\* What the workers' transactions promise: a handler that is not overtaken is one
\* step of Disposition, and a confirmed relocation leaves one row on site.
ParVersprechen ==
  /\ []ParTypeOK
  /\ VerlegungBereinigt
  /\ UngestoerteSchritte
=============================================================================
