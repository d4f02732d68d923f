---------------------------- MODULE Wetterwarnung ----------------------------
(***************************************************************************)
(* The weather alerts of an organisation: every worker's loop looks at the *)
(* weather, a rule turns it into a level, and the state machine of the     *)
(* rule decides whether to send a mail and a Teams card.                   *)
(*                                                                         *)
(* Source: app/services/weather_alert_loop.py, weather_alert_service.py,   *)
(* weather_alert_dispatch.py, weather_station_service.py and the cache of  *)
(* weather_service.py.                                                     *)
(*                                                                         *)
(* One rule: "sturm" (the gust of the station, or else the forecast),      *)
(* "gewitter" or "amtlich" (the official warnings, each with its hash).    *)
(* Measurements are a level; which values lead to it is left out. The      *)
(* first rule of a round reads its state in the snapshot that was taken    *)
(* before the weather was awaited.                                         *)
(***************************************************************************)
EXTENDS Basis, Naturals

CONSTANTS
  Warnungen,       \* the official warnings (hashes)
  WetterUmfaenge,  \* bounds: workers, rule, official warnings
  MaxAbsturz       \* bound: ends of a worker process

HystereseZyklen == 2

Warnstufen == {"none", "vorwarnung", "akut"}

\* What a rule finds, the row of weather_alert_state, and what a worker keeps of its round.
Ergebnisse == [stufe : Warnstufen, warnung : Warnungen \cup {None}]
Zustaende == [stufe : Warnstufen, zyklen : 0..HystereseZyklen, hash : Warnungen \cup {None}]
Runden == [phase : {"wetter", "senden"}, zustand : Zustaende \cup {None}, boe : BOOLEAN,
           ergebnis : Ergebnisse]

ASSUME WetterAssumption ==
  /\ WetterUmfaenge \subseteq [worker : SUBSET Workers, warnungen : SUBSET Warnungen,
                              regel : {"sturm", "gewitter", "amtlich"}]
  /\ None \notin Warnungen /\ None \notin Zustaende /\ None \notin Runden

VARIABLES
  wxUmfang,
  wetter,      \* what the weather services would answer: level and warning
  boe,         \* the last gust of the station is above the threshold
  bild,        \* per worker: its cache of the services' answer, or None
  zustand,     \* weather_alert_state, or None
  runde,       \* per worker: its round, or None
  abgestuerzt, \* bound
  seitAkut,    \* history: rounds since one has found "akut" (2: two or more)
  protokoll,   \* history: the level of the last alert
  gesehen,     \* history: the warnings that a finished round has found
  weitergeleitet     \* history, per warning: how often it was sent (2: twice or more)

wetterVars == <<wxUmfang, wetter, boe, bild, zustand, runde, abgestuerzt, seitAkut,
                protokoll, gesehen, weitergeleitet>>

Ruhig == [stufe |-> "none", warnung |-> None]

\* What the services may answer. A failed request for warnings is an empty list.
Antworten ==
  CASE wxUmfang.regel = "sturm" -> {Ruhig, [stufe |-> "vorwarnung", warnung |-> None]}
    [] wxUmfang.regel = "gewitter" ->
         {Ruhig} \cup [stufe : {"vorwarnung", "akut"}, warnung : wxUmfang.warnungen]
    [] OTHER -> {Ruhig} \cup [stufe : {"akut"}, warnung : wxUmfang.warnungen]

WetterWechselt ==
  /\ wetter' \in Antworten \ {wetter}
  /\ UNCHANGED <<wxUmfang, boe, bild, zustand, runde, abgestuerzt, seitAkut, protokoll,
                 gesehen, weitergeleitet>>

\* ingest: the station sends; when it falls silent its last values stay in use.
StationSendet ==
  /\ wxUmfang.regel = "sturm"
  /\ boe' = ~boe
  /\ UNCHANGED <<wxUmfang, wetter, bild, zustand, runde, abgestuerzt, seitAkut, protokoll,
                 gesehen, weitergeleitet>>

\* _cache_get: the answer is too old.
BildVerfaellt(w) ==
  /\ bild[w] # None
  /\ bild' = [bild EXCEPT ![w] = None]
  /\ UNCHANGED <<wxUmfang, wetter, boe, zustand, runde, abgestuerzt, seitAkut, protokoll,
                 gesehen, weitergeleitet>>

-----------------------------------------------------------------------------
(* The state machine of a rule *)

Gehalten(z, e) == z.stufe = "akut" /\ e.stufe # "akut" /\ z.zyklen + 1 < HystereseZyklen

\* Mutant: the count is not reset.
ZyklenLaufenWeiter(z, e) == IF Gehalten(z, e) THEN z.zyklen + 1 ELSE z.zyklen

ZyklenNach(z, e) ==
  CASE Gehalten(z, e) -> z.zyklen + 1
    [] e.stufe = "akut" -> 0
    [] OTHER -> z.zyklen

ZustandNach(z, e) ==
  [stufe  |-> IF Gehalten(z, e) THEN "akut" ELSE e.stufe,
   zyklen |-> ZyklenNach(z, e),
   hash   |-> IF e.warnung # None THEN e.warnung ELSE z.hash]

Bekannt(z, e) == e.warnung # None /\ e.warnung = z.hash

\* The switches vorwarnung, eskalation and cooldown_min of the rule make no
\* difference: a new level is sent in any case, the same level never.
NeueStufe(z, e) == e.stufe # "none" /\ e.stufe # z.stufe

WarnungMelden(z, e) == ~Gehalten(z, e) /\ ~Bekannt(z, e) /\ NeueStufe(z, e)

-----------------------------------------------------------------------------
(* A round of a worker *)

\* _process_org reads the rules and the station, and awaits the services.
RundeBeginnt(w) ==
  /\ w \in wxUmfang.worker /\ runde[w] = None
  /\ runde' = [runde EXCEPT ![w] = [phase |-> "wetter", zustand |-> zustand, boe |-> boe,
                                    ergebnis |-> Ruhig]]
  /\ UNCHANGED <<wxUmfang, wetter, boe, bild, zustand, abgestuerzt, seitAkut, protokoll,
                 gesehen, weitergeleitet>>

\* _eval_sturm asks the station first.
RegelErgebnis(b, antwort) ==
  IF wxUmfang.regel = "sturm" /\ b THEN [stufe |-> "akut", warnung |-> None] ELSE antwort

Unbekannt == [stufe |-> "none", zyklen |-> 0, hash |-> None]

\* The cached answer, or a new one, which is cached; a failure is like calm weather.
Auswertung(w, antwort) ==
  /\ bild' = [bild EXCEPT ![w] = antwort]
  /\ LET e == RegelErgebnis(runde[w].boe, antwort)
         z == IF runde[w].zustand = None THEN Unbekannt ELSE runde[w].zustand
         n == ZustandNach(z, e)
     IN \* two workers insert the row: the second one fails
        \/ /\ runde[w].zustand = None /\ zustand # None
           /\ runde' = [runde EXCEPT ![w] = None]
           /\ UNCHANGED <<zustand, seitAkut, gesehen>>
        \/ /\ ~(runde[w].zustand = None /\ zustand # None)
           /\ zustand' = IF zustand = None THEN n
                         ELSE [s \in DOMAIN n |-> IF n[s] = z[s] THEN zustand[s] ELSE n[s]]
           /\ runde' = [runde EXCEPT ![w] =
                          IF WarnungMelden(z, e) THEN [@ EXCEPT !.phase = "senden", !.ergebnis = e]
                          ELSE None]
           /\ seitAkut' = IF e.stufe = "akut" THEN 0 ELSE IF seitAkut = 2 THEN 2 ELSE seitAkut + 1
           /\ gesehen' = gesehen \cup ({e.warnung} \ {None})

RundeWertetAus(w) ==
  /\ runde[w] # None /\ runde[w].phase = "wetter"
  /\ \E antwort \in IF bild[w] # None THEN {bild[w]} ELSE {wetter, Ruhig} : Auswertung(w, antwort)
  /\ UNCHANGED <<wxUmfang, wetter, boe, abgestuerzt, protokoll, weitergeleitet>>

\* dispatch_alert: mail and Teams, and a line for each, whether it failed or not.
RundeSendet(w) ==
  /\ runde[w] # None /\ runde[w].phase = "senden"
  /\ protokoll' = runde[w].ergebnis.stufe
  /\ weitergeleitet' = [h \in Warnungen |->
                    IF h = runde[w].ergebnis.warnung /\ weitergeleitet[h] < 2 THEN weitergeleitet[h] + 1
                    ELSE weitergeleitet[h]]
  /\ runde' = [runde EXCEPT ![w] = None]
  /\ UNCHANGED <<wxUmfang, wetter, boe, bild, zustand, abgestuerzt, seitAkut, gesehen>>

\* The state is committed, the alert is not sent any more.
WarnungAbsturz(w) ==
  /\ abgestuerzt < MaxAbsturz /\ runde[w] # None
  /\ abgestuerzt' = abgestuerzt + 1
  /\ runde' = [runde EXCEPT ![w] = None]
  /\ bild' = [bild EXCEPT ![w] = None]
  /\ UNCHANGED <<wxUmfang, wetter, boe, zustand, seitAkut, protokoll, gesehen, weitergeleitet>>
-----------------------------------------------------------------------------

WetterInit ==
  /\ wxUmfang \in WetterUmfaenge
  /\ wetter = Ruhig /\ boe = FALSE
  /\ bild = [w \in Workers |-> None]
  /\ zustand = None
  /\ runde = [w \in Workers |-> None]
  /\ abgestuerzt = 0
  /\ seitAkut = 2 /\ protokoll = "none" /\ gesehen = {}
  /\ weitergeleitet = [h \in Warnungen |-> 0]

WetterNext ==
  \/ \E w \in Workers :
       \/ BildVerfaellt(w) \/ RundeBeginnt(w) \/ RundeWertetAus(w)
       \/ RundeSendet(w) \/ WarnungAbsturz(w)
  \/ WetterWechselt \/ StationSendet

WetterSpec == WetterInit /\ [][WetterNext]_wetterVars

-----------------------------------------------------------------------------
(* Properties *)

EinWetterWorker == \E w \in Workers : wxUmfang.worker = {w}

Ruhen == \A w \in Workers : runde[w] = None

WetterTypeOK ==
  /\ wetter \in Antworten /\ boe \in BOOLEAN
  /\ zustand \in Zustaende \cup {None}
  /\ seitAkut \in 0..2 /\ weitergeleitet \in [Warnungen -> 0..2]

\* "Hysterese: 'akut' erst verlassen wenn 2 Zyklen unter Schwelle", whatever level the
\* two rounds find, and after any number of alarms (one worker; two workers count the
\* rounds of both).
AkutHaeltZweiRunden ==
  (EinWetterWorker /\ seitAkut < HystereseZyklen) => zustand.stufe = "akut"

\* A level that is entered is sent: the last alert is of the level the rule is in
\* (rules without a hash, one worker; an alert that a crash swallows is not repeated,
\* as the state is committed before).
StufeWirdGemeldet ==
  (EinWetterWorker /\ wxUmfang.regel = "sturm" /\ abgestuerzt = 0 /\ Ruhen) =>
    (zustand # None => zustand.stufe \in {"none", protokoll})

\* Administration-Wetterwarnungen.md: "die gleiche Warnung wird nur einmal
\* weitergeleitet", through failed requests and crashes (one worker, and no other
\* warning in between).
GleicheWarnungEinmal ==
  (EinWetterWorker /\ wxUmfang.regel = "amtlich" /\ \E h \in Warnungen : wxUmfang.warnungen = {h})
    => \A h \in Warnungen : weitergeleitet[h] <= 1

\* What the alerts promise: each level that is entered is sent, an alarm outlasts one
\* calm round, and no official warning is repeated.
WetterVersprechen ==
  /\ WetterTypeOK
  /\ AkutHaeltZweiRunden
  /\ StufeWirdGemeldet
  /\ GleicheWarnungEinmal
=============================================================================
