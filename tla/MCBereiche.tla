----------------------------- MODULE MCBereiche -----------------------------
(***************************************************************************)
(* The two watchdogs, of a troop under breathing apparatus and of the      *)
(* forgotten incidents, each on an instance of its own: "teil" is the one  *)
(* a behaviour is of, the other rests in an initial state, as they share   *)
(* no state.                                                               *)
(***************************************************************************)
EXTENDS Atemschutz, Autoclose, TLC

CONSTANTS w1, w2, i1, i2

VARIABLE teil

Teile == {"atemschutz", "autoclose", "autoclose2"}

\* Two incidents and one worker; two workers and one incident.
Umfang == IF teil = "autoclose2" THEN AcWorker ELSE {w1}

bereicheVars == <<teil, atemschutzVars, autocloseVars>>

-----------------------------------------------------------------------------

\* A service that is not the behaviour's has one initial state.
BereicheInit ==
  /\ teil \in Teile
  /\ AtemschutzInit
  /\ teil # "atemschutz" \/ enabled = FALSE
  /\ AutocloseInit
  /\ \A i \in Einsaetze :
       status[i] = (IF teil = "autoclose2" /\ i = i2 THEN "closed" ELSE "active")

\* With one worker there are two incidents, and users only close the second; with two workers
\* they do everything to the only one, at one of them.
UmfangBleibt ==
  \A w \in AcWorker :
    /\ w \notin Umfang => pruefLauf'[w] = None
    /\ anfrage'[w] # None =>
         IF teil = "autoclose2" THEN anfrage'[w].einsatz = i1
         ELSE anfrage'[w].einsatz = i2 /\ anfrage'[w].art = "abschliessen"
    /\ w # w1 => anfrage'[w] = None

BereicheNext ==
  \/ /\ teil = "atemschutz" /\ AtemschutzNext
     /\ UNCHANGED <<teil, autocloseVars>>
  \/ /\ teil # "atemschutz" /\ AutocloseNext /\ UmfangBleibt
     /\ UNCHANGED <<teil, atemschutzVars>>

\* No more than the fairness of the services' specifications: for the service a behaviour is
\* of, and for one of the workers.
BereicheSpec ==
  /\ BereicheInit /\ [][BereicheNext]_bereicheVars
  /\ WF_bereicheVars(\/ teil = "atemschutz" /\ Watchdog /\ UNCHANGED <<teil, autocloseVars>>
                     \/ teil # "atemschutz" /\ Pass(w1) /\ UNCHANGED <<teil, atemschutzVars>>)
  /\ WF_bereicheVars(teil # "atemschutz" /\ FristVergeht /\ UNCHANGED <<teil, atemschutzVars>>)
  /\ \A k \in Arten : SF_atemschutzVars(teil = "atemschutz" /\ Senden(k))
  /\ \A i \in Einsaetze : SF_autocloseVars(teil # "atemschutz" /\ Verarbeiten(w1, i))
=============================================================================
