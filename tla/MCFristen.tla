----------------------------- MODULE MCFristen ------------------------------
(***************************************************************************)
(* The services in which something must eventually happen, and the board,  *)
(* each on an instance of its own: "teil" is the service a behaviour is    *)
(* of, the others rest in an initial state, as they share no state with    *)
(* it.                                                                     *)
(***************************************************************************)
EXTENDS Erinnerung, SmsGateway, Verleih, Fahrtenbuch, Einsatzboard, Medien, TLC

CONSTANTS w1, w2, i1, i2, c1, c2, j1, g1, a1, a2, v1, t1, t2, m1, p1, d1, d2, d3

VARIABLE teil

Teile == {"erinnerung", "sms", "verleih", "fahrten", "board", "medien"}

fristenVars == <<teil, erinVars, smsVars, verleihVars, fahrtenVars, boardVars, medienVars>>

-----------------------------------------------------------------------------
(* Values of the constants *)

\* The reminders: two items due in one worker, one in two.
FaelligAmAnfang ==
  IF teil # "erinnerung" THEN laufend = {w1} /\ \A i \in Eintraege : faellig[i] = None
  ELSE faellig[i1] = "jetzt" /\ faellig[i2] = IF laufend = {w1} THEN "jetzt" ELSE None

\* The loans: articles and quantities, one loan and two, with and without an SMS; two
\* requests at once, of one worker and of two.
VerleihUmfang(w, z, a, p, g, s) ==
  [worker |-> w, zugleich |-> z, ausleihen |-> a, positionen |-> p, artikel |-> g, sms |-> s]

MCVerleihUmfaenge ==
  {VerleihUmfang({}, {w1, w2}, {a1, a2}, 2, {g1}, {FALSE}),
   VerleihUmfang({}, {w1, w2}, {a1}, 3, {None}, {FALSE}),
   VerleihUmfang({w1}, {w1}, {a1, a2}, 2, {None}, {TRUE}),
   VerleihUmfang({w1, w2}, {w1}, {a1}, 1, {None}, BOOLEAN)}

DreiPositionen == 1..3

\* The trips of a vehicle with damages.
FahrtUmfang(w, n, z, s) == [worker |-> w, fahrten |-> n, staende |-> z, schaden |-> s]

MCFahrtUmfaenge == {FahrtUmfang({w1}, 1, {1}, TRUE)}

\* The board: what one incident shows, where the cards go, what an old page holds.
Ausschnitt(k, s, a) == [karten |-> k, spalten |-> s, alt |-> a]

MCUmfaenge ==
  {Ausschnitt({v1}, {"dispatched", "active", "section"}, {}),
   Ausschnitt({v1, t1}, {"section", "tasks"}, {}),
   Ausschnitt({t1, t2}, {"tasks"}, {"tasks"}),
   Ausschnitt({t1, m1}, {"tasks", "messages"}, {"messages"}),
   Ausschnitt({v1, m1}, {"messages", "section"}, {}),
   Ausschnitt({v1, p1}, {"rescued"}, {})}

MCFahrzeuge == {v1}
MCAuftraege == {t1, t2}
MCMeldungen == {m1}
MCPersonen == {p1}
MCFolge == <<v1, t1, t2, m1, p1>>

\* Uploads along the routes, of one worker and of two, with a file of two units.
MedienUmfang(w, g, x, l) == [worker |-> w, wege |-> g, wer |-> x, loeschen |-> l]

MCMedienUmfaenge ==
  {MedienUmfang({w1}, {"auftrag", "stelle"}, {"eigene"}, FALSE),
   MedienUmfang({w1}, {"auftrag"}, {"eigene"}, TRUE),
   MedienUmfang({w1}, {"stelle"}, {"eigene"}, TRUE),
   MedienUmfang({w1}, {"meldung", "annahme", "flug"}, Hochladende, FALSE),
   MedienUmfang({w1, w2}, {"flug"}, {"eigene"}, TRUE),
   MedienUmfang({w1, w2}, {"journal", "flug"}, {"eigene"}, FALSE)}

MCGroesse == [f \in Dateien |-> IF f = d3 THEN 2 ELSE 1]

-----------------------------------------------------------------------------

\* A service that is not the behaviour's has one initial state.
FristenInit ==
  /\ teil \in Teile
  /\ ErinInit /\ FaelligAmAnfang
  /\ SmsInit
  /\ teil = "verleih" \/ vUmfang = CHOOSE u \in VerleihUmfaenge : TRUE
  /\ VerleihInit
  /\ teil = "fahrten" \/ fUmfang = CHOOSE u \in FahrtUmfaenge : TRUE
  /\ FahrtenInit
  /\ \/ teil = "board"
     \/ /\ umfang = CHOOSE u \in Umfaenge : TRUE
        /\ fzg = CHOOSE f \in MitFahrzeugen : TRUE
        /\ meldung = CHOOSE m \in MitMeldungen : TRUE
  /\ BoardInit
  /\ teil = "medien" \/ mdUmfang = CHOOSE u \in MedienUmfaenge : TRUE
  /\ MedienInit

FristenNext ==
  \/ /\ teil = "erinnerung" /\ ErinNext
     /\ UNCHANGED <<teil, smsVars, verleihVars, fahrtenVars, boardVars, medienVars>>
  \/ /\ teil = "sms" /\ SmsNext
     /\ UNCHANGED <<teil, erinVars, verleihVars, fahrtenVars, boardVars, medienVars>>
  \/ /\ teil = "verleih" /\ VerleihNext
     /\ UNCHANGED <<teil, erinVars, smsVars, fahrtenVars, boardVars, medienVars>>
  \/ /\ teil = "fahrten" /\ FahrtenNext
     /\ UNCHANGED <<teil, erinVars, smsVars, verleihVars, boardVars, medienVars>>
  \/ /\ teil = "board" /\ BoardNext
     /\ UNCHANGED <<teil, erinVars, smsVars, verleihVars, fahrtenVars, medienVars>>
  \/ /\ teil = "medien" /\ MedienNext
     /\ UNCHANGED <<teil, erinVars, smsVars, verleihVars, fahrtenVars, boardVars>>

\* The fairness of the services' specifications, for the service a behaviour is of.
FristenSpec ==
  /\ FristenInit /\ [][FristenNext]_fristenVars
  /\ \A w \in Workers : WF_erinVars(teil = "erinnerung" /\ Durchgang(w))
  /\ \A j \in SmsAuftraege : WF_smsVars(teil = "sms" /\ Fortgang(j))
  /\ \A w \in Workers : WF_verleihVars(teil = "verleih" /\ Durchlauf(w))
  /\ \A f \in Fahrten : WF_fahrtenVars(teil = "fahrten" /\ SchadenMelden(f))
  /\ \A u \in Anfragen : SF_medienVars(teil = "medien" /\ Gang(u))
=============================================================================
