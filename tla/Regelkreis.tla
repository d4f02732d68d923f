----------------------------- MODULE Regelkreis -----------------------------
(***************************************************************************)
(* What the situation-report control loop promises each site, without the  *)
(* units, handlers and settings it is built from: a timer, the automatic   *)
(* orders that are open, and whether the site owes reports at all.         *)
(*                                                                         *)
(* Lage: the timer runs. Auftrag: it ran out, one order is written. Kon-   *)
(* trolle: a report restarts the timer and closes the order.               *)
(***************************************************************************)
EXTENDS Naturals

CONSTANT Stellen

VARIABLES
  uhr,      \* "aus", "laeuft" or "faellig", per site
  offen,    \* open automatic orders, per site
  erledigt, \* whether a site has automatic orders that are checked off
  pflicht   \* sites that owe reports; changes freely

AuftraegeBleiben(s) == offen'[s] = offen[s] /\ erledigt'[s] = erledigt[s]

\* The timer starts, and only on a site without one.
Start(s) == uhr[s] = "aus" /\ uhr'[s] = "laeuft" /\ AuftraegeBleiben(s)

\* Time passes.
Ablauf(s) == uhr[s] = "laeuft" /\ uhr'[s] = "faellig" /\ AuftraegeBleiben(s)

\* An order comes from an overdue timer of a site that owes a report, and never
\* beside an open one; the timer stays overdue until the report.
Auftrag(s) ==
  /\ s \in pflicht /\ uhr[s] = "faellig" /\ offen[s] = 0
  /\ uhr'[s] = "faellig" /\ offen'[s] = 1 /\ erledigt'[s] = erledigt[s]

\* A report, or the end of the duty: all open orders are checked off with it.
MeldungOderEnde(s) ==
  /\ uhr'[s] # "faellig" /\ offen'[s] = 0
  /\ erledigt'[s] = (erledigt[s] \/ offen[s] > 0)

\* Another priority restarts a timer that was set; open orders stay.
Neustart(s) == uhr[s] # "aus" /\ uhr'[s] # "faellig" /\ AuftraegeBleiben(s)

\* An open order is checked off in the journal, or a checked-off one reopened.
Quittung(s) ==
  /\ uhr'[s] = uhr[s]
  /\ \/ offen'[s] = offen[s] - 1 /\ erledigt'[s]
     \/ offen'[s] = offen[s] + 1 /\ erledigt[s]

Ruhe(s) == uhr'[s] = uhr[s] /\ AuftraegeBleiben(s)

\* The handling of one site leaves the others alone; a scan, time, and saving
\* the settings act on several.
Next ==
  \A s \in Stellen : \/ Start(s) \/ Ablauf(s) \/ Auftrag(s) \/ MeldungOderEnde(s)
                     \/ Neustart(s) \/ Quittung(s) \/ Ruhe(s)

Init ==
  /\ uhr = [s \in Stellen |-> "aus"]
  /\ offen = [s \in Stellen |-> 0]
  /\ erledigt = [s \in Stellen |-> FALSE]

vars == <<uhr, offen, erledigt, pflicht>>

\* The steps the loop may take.
Schritte == Init /\ [][Next]_vars

\* The promise: a site that owes a report and is overdue gets an order, unless
\* the report or the end of the duty comes first.
Versprechen ==
  \A s \in Stellen :
    (s \in pflicht /\ uhr[s] = "faellig")
      ~> (offen[s] > 0 \/ s \notin pflicht \/ uhr[s] # "faellig")
=============================================================================
