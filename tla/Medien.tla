------------------------------- MODULE Medien -------------------------------
(***************************************************************************)
(* Uploaded files: the file on the disk, its row, and the counter of the   *)
(* bytes an organisation uses, which a quota bounds.                       *)
(*                                                                         *)
(* Source: app/services/storage_service.py, app/services/media_service.py, *)
(* app/services/lage_media_service.py and the routes that use them in      *)
(* ui_incident.py, ui_media.py, ui_major_incident.py and ui_uas.py.        *)
(*                                                                         *)
(* A route stores its files in one transaction. The first reservation      *)
(* locks the row of the counter until the commit, but the next file is     *)
(* awaited before that, and other requests of the worker run meanwhile: a  *)
(* reservation of theirs waits for the lock and stops the event loop, so   *)
(* that the holder cannot go on before the database gives the wait up.     *)
(* Thumbnails, types, sizes of single files and the conversion are left    *)
(* out; no route calls reconcile_storage.                                  *)
(***************************************************************************)
EXTENDS Basis, Naturals, FiniteSets

CONSTANTS
  Dateien,         \* the files
  Groesse,         \* the bytes of a stored file
  Quota,           \* storage_quota_bytes
  Anfragen,        \* bound: requests at once
  MedienUmfaenge   \* bounds: workers, routes, who uploads, what is deleted

\* Tasks; messages and persons; the journal; a site, a marker; the photo of a report
\* from the public that becomes a site; a flight.
Wege == {"auftrag", "meldung", "journal", "stelle", "annahme", "flug"}

Hochladende == {"eigene", "partner", "system"}

\* The row of a file, and a request between two of its steps.
DateiZeilen == [weg : Wege, wer : Hochladende]

AnfrageZeilen ==
  [worker : Workers, weg : Wege, wer : Hochladende, loeschen : BOOLEAN,
   rest : SUBSET Dateien, drin : SUBSET Dateien, wartet : Dateien \cup {None}]

ASSUME MedienAssumption ==
  /\ IsFiniteSet(Dateien) /\ Groesse \in [Dateien -> Nat \ {0}] /\ Quota \in Nat
  /\ MedienUmfaenge \subseteq [worker : SUBSET Workers, wege : SUBSET Wege,
                               wer : SUBSET Hochladende, loeschen : BOOLEAN]
  /\ None \notin Dateien \cup Anfragen /\ None \notin DateiZeilen /\ None \notin AnfrageZeilen

VARIABLES
  mdUmfang,
  datei,       \* the files on the disk
  zeile,       \* per file: its row, with the route and the uploader, or None
  belegt,      \* org_storage_usage.used_bytes of the organisation that leads
  sperre,      \* the request whose transaction has locked that row
  medAnfrage,  \* per request: the rest of its files and those it has entered
  doppelt      \* history: a file was released while another request was deleting it

medienVars == <<mdUmfang, datei, zeile, belegt, sperre, medAnfrage, doppelt>>

EinsatzWege == {"auftrag", "meldung"}

\* Several files in one form.
MehrereDateien == {"auftrag", "meldung", "journal"}

\* Which uploads the counter of the leading organisation is charged with: a
\* partner's own one, and for the system administrator's none, as both pass
\* their user's org_id; the routes of sites and flights pass the leading one.
Zaehlt(weg, wer) == weg \notin EinsatzWege \/ wer = "eigene"

\* Deleting releases the bytes of incident and flight files.
GibtFrei(weg) == weg \in EinsatzWege \cup {"flug"}

\* The bytes of some files, each numbered within its file.
Bytes(D) == Cardinality(UNION {{f} \X (1..Groesse[f]) : f \in D})

Laufend == {u \in Anfragen : medAnfrage[u] # None}

\* A statement that waits stops the event loop of its worker.
Steht(w) == \E u \in Laufend : medAnfrage[u].worker = w /\ medAnfrage[u].wartet # None

Gesperrt(u) == sperre \notin {None, u}

NeueDateien == {f \in Dateien : f \notin datei /\ zeile[f] = None /\
          \A u \in Laufend : f \notin medAnfrage[u].rest \cup medAnfrage[u].drin}

-----------------------------------------------------------------------------
(* Uploads *)

Hochladen(u, w, weg, wer, D) ==
  /\ u \notin Laufend /\ w \in mdUmfang.worker /\ ~Steht(w)
  /\ weg \in mdUmfang.wege /\ wer \in mdUmfang.wer
  /\ wer = "partner" => weg \in EinsatzWege
  /\ wer = "system" => weg # "flug"
  /\ D \subseteq NeueDateien /\ D # {}
  /\ Cardinality(D) = 1 \/ weg \in MehrereDateien
  /\ medAnfrage' = [medAnfrage EXCEPT ![u] =
       [worker |-> w, weg |-> weg, wer |-> wer, rest |-> D, drin |-> {}, wartet |-> None,
        loeschen |-> FALSE]]
  /\ UNCHANGED <<mdUmfang, doppelt, datei, zeile, belegt, sperre>>

\* A file has been read: it is written, then its bytes are to be reserved.
Ablegen(u, f) ==
  /\ u \in Laufend /\ ~medAnfrage[u].loeschen /\ f \in medAnfrage[u].rest
  /\ ~Steht(medAnfrage[u].worker)
  /\ datei' = datei \cup {f}
  /\ medAnfrage' = [medAnfrage EXCEPT ![u].wartet = f]
  /\ UNCHANGED <<mdUmfang, doppelt, zeile, belegt, sperre>>

\* The request ends without a commit; files it has written stay.
Zurueckrollen(u) ==
  /\ medAnfrage' = [medAnfrage EXCEPT ![u] = None]
  /\ sperre' = IF sperre = u THEN None ELSE sperre
  /\ UNCHANGED <<zeile, belegt>>

\* After the file that was waiting: the next one is awaited, or the commit.
WeiterMit(u, drin, haelt) ==
  LET a    == medAnfrage[u]
      rest == a.rest \ {a.wartet}
  IN IF rest # {}
     THEN /\ medAnfrage' = [medAnfrage EXCEPT
               ![u] = [a EXCEPT !.rest = rest, !.drin = drin, !.wartet = None]]
          /\ sperre' = IF haelt THEN u ELSE sperre
          /\ UNCHANGED <<zeile, belegt>>
     ELSE /\ zeile' = [f \in Dateien |->
               IF f \in drin THEN [weg |-> a.weg, wer |-> a.wer] ELSE zeile[f]]
          /\ belegt' = belegt + (IF Zaehlt(a.weg, a.wer) THEN Bytes(drin) ELSE 0)
          /\ medAnfrage' = [medAnfrage EXCEPT ![u] = None]
          /\ sperre' = IF sperre = u THEN None ELSE sperre

\* The condition of the UPDATE, in the request's transaction.
Passt(u) == belegt + Bytes(medAnfrage[u].drin \cup {medAnfrage[u].wartet}) <= Quota

\* A refused file is left out, or the refusal ends the request.
DuldetAblehnung == {"auftrag", "meldung", "annahme"}

\* An error of the database as well.
DuldetFehler == {"auftrag", "annahme"}

Reservieren(u) ==
  /\ u \in Laufend /\ medAnfrage[u].wartet # None /\ ~medAnfrage[u].loeschen
  /\ LET a     == medAnfrage[u]
         zaehlt == Zaehlt(a.weg, a.wer)
     IN /\ zaehlt => ~Gesperrt(u)
        /\ \/ /\ zaehlt => Passt(u)
              /\ WeiterMit(u, a.drin \cup {a.wartet}, zaehlt)
           \/ /\ zaehlt /\ ~Passt(u) /\ a.weg \in DuldetAblehnung
              /\ WeiterMit(u, a.drin, TRUE)
           \/ /\ zaehlt /\ ~Passt(u) /\ a.weg \notin DuldetAblehnung
              /\ Zurueckrollen(u)
  /\ UNCHANGED <<mdUmfang, doppelt, datei>>

\* Mutant: the route of the tasks tries the file again.
NachFristNochmal(u) ==
  IF medAnfrage[u].weg = "auftrag" /\ ~medAnfrage[u].loeschen
  THEN UNCHANGED <<medAnfrage, sperre, zeile, belegt>>
  ELSE Zurueckrollen(u)

\* The route of the tasks goes on without the file, and so does the acceptance of a
\* report: copy_citizen_photo_to_site only logs what goes wrong.
NachFrist(u) ==
  IF medAnfrage[u].weg \in DuldetFehler /\ ~medAnfrage[u].loeschen
  THEN WeiterMit(u, medAnfrage[u].drin, FALSE)
  ELSE Zurueckrollen(u)

\* innodb_lock_wait_timeout
Fristablauf(u) ==
  /\ u \in Laufend /\ medAnfrage[u].wartet # None /\ Gesperrt(u)
  /\ medAnfrage[u].loeschen \/ Zaehlt(medAnfrage[u].weg, medAnfrage[u].wer)
  /\ NachFrist(u)
  /\ UNCHANGED <<mdUmfang, doppelt, datei>>

-----------------------------------------------------------------------------
(* Deletions *)

\* A deletion has the row in its snapshot from the dependency on, which reads in a
\* thread of its own; its handler runs when the event loop is free.
Loeschen(u, w, f) ==
  /\ u \notin Laufend /\ w \in mdUmfang.worker /\ mdUmfang.loeschen
  /\ zeile[f] # None /\ GibtFrei(zeile[f].weg)
  /\ medAnfrage' = [medAnfrage EXCEPT ![u] =
       [worker |-> w, weg |-> zeile[f].weg, wer |-> zeile[f].wer, rest |-> {f}, drin |-> {},
        wartet |-> None, loeschen |-> TRUE]]
  /\ UNCHANGED <<mdUmfang, doppelt, datei, zeile, belegt, sperre>>

\* delete_media, delete_uas_medien: the files go first.
Entfernen(u, f) ==
  /\ u \in Laufend /\ medAnfrage[u].loeschen /\ f \in medAnfrage[u].rest
  /\ ~Steht(medAnfrage[u].worker)
  /\ datei' = datei \ {f}
  /\ medAnfrage' = [medAnfrage EXCEPT ![u].wartet = f]
  /\ UNCHANGED <<mdUmfang, doppelt, zeile, belegt, sperre>>

NachFreigabe(f) == IF belegt < Groesse[f] THEN 0 ELSE belegt - Groesse[f]

\* The release and the row, then the commit; a row already gone is no error.
Freigeben(u) ==
  /\ u \in Laufend /\ medAnfrage[u].loeschen /\ medAnfrage[u].wartet # None /\ ~Gesperrt(u)
  /\ belegt' = NachFreigabe(medAnfrage[u].wartet)
  /\ zeile' = [zeile EXCEPT ![medAnfrage[u].wartet] = None]
  /\ medAnfrage' = [medAnfrage EXCEPT ![u] = None]
  /\ doppelt' = (doppelt \/ \E v \in Laufend \ {u} :
       medAnfrage[v].loeschen /\ medAnfrage[v].rest = medAnfrage[u].rest)
  /\ UNCHANGED <<mdUmfang, datei, sperre>>

\* The photo of a site, or of a marker: nothing is released.
BildLoeschen(f) ==
  /\ mdUmfang.loeschen /\ zeile[f] # None /\ zeile[f].weg \in {"stelle", "annahme"}
  /\ datei' = datei \ {f} /\ zeile' = [zeile EXCEPT ![f] = None]
  /\ UNCHANGED <<mdUmfang, doppelt, belegt, sperre, medAnfrage>>

\* What the files belong to is deleted (a proposed task, a person, an entry of
\* the journal, a marker, an incident): the rows go along, nothing else does.
Mitgeloescht(D) ==
  /\ mdUmfang.loeschen /\ D # {} /\ \A f \in D : zeile[f] # None /\ zeile[f].weg # "flug"
  /\ zeile' = [f \in Dateien |-> IF f \in D THEN None ELSE zeile[f]]
  /\ UNCHANGED <<mdUmfang, doppelt, datei, belegt, sperre, medAnfrage>>

\* A worker dies: the database rolls its transactions back.
MedienAbsturz(w) ==
  /\ \E u \in Laufend : medAnfrage[u].worker = w
  /\ LET F == {u \in Laufend : medAnfrage[u].worker = w}
     IN /\ medAnfrage' = [u \in Anfragen |-> IF u \in F THEN None ELSE medAnfrage[u]]
        /\ sperre' = IF sperre \in F THEN None ELSE sperre
  /\ UNCHANGED <<mdUmfang, doppelt, datei, zeile, belegt>>

-----------------------------------------------------------------------------
MedienInit ==
  /\ mdUmfang \in MedienUmfaenge
  /\ datei = {} /\ zeile = [f \in Dateien |-> None]
  /\ belegt = 0 /\ sperre = None /\ doppelt = FALSE
  /\ medAnfrage = [u \in Anfragen |-> None]

\* What a worker does by itself.
Gang(u) ==
  \/ Reservieren(u) \/ Fristablauf(u) \/ Freigeben(u)
  \/ \E f \in Dateien : Ablegen(u, f) \/ Entfernen(u, f)

MedienNext ==
  \/ \E u \in Anfragen, w \in Workers :
       \/ \E weg \in Wege, wer \in Hochladende, D \in SUBSET Dateien :
            Hochladen(u, w, weg, wer, D)
       \/ \E f \in Dateien : Loeschen(u, w, f)
  \/ \E u \in Anfragen : Gang(u)
  \/ \E f \in Dateien : BildLoeschen(f)
  \/ \E D \in SUBSET Dateien : Mitgeloescht(D)
  \/ \E w \in Workers : MedienAbsturz(w)

\* An event loop runs what is ready in its order, whenever nothing blocks it.
MedienSpec ==
  MedienInit /\ [][MedienNext]_medienVars /\ \A u \in Anfragen : SF_medienVars(Gang(u))

-----------------------------------------------------------------------------
(* Properties *)

MedienTypeOK ==
  /\ mdUmfang \in MedienUmfaenge
  /\ datei \subseteq Dateien /\ belegt \in Nat /\ sperre \in Anfragen \cup {None}
  /\ doppelt \in BOOLEAN
  /\ zeile \in [Dateien -> DateiZeilen \cup {None}]
  /\ medAnfrage \in [Anfragen -> AnfrageZeilen \cup {None}]

MitZeile == {f \in Dateien : zeile[f] # None}

NurEigene == mdUmfang.wer = {"eigene"}

\* reserve_storage, release_storage: the counter never exceeds the quota, whatever is
\* uploaded at once and wherever a worker dies. It covers the files as long as only the
\* organisation's own users upload (a partner's file is charged elsewhere but released
\* here) and no file was released by two requests that both had read its row.
QuotaHaelt ==
  /\ belegt <= Quota
  /\ NurEigene /\ ~doppelt => Bytes(MitZeile) <= belegt

\* An upload or a deletion ends, also when it waits for the lock of a request
\* that its own worker would have to continue.
JedeAnfrageEndet == \A u \in Anfragen : medAnfrage[u] # None ~> medAnfrage[u] = None

\* What an upload promises: files stay within the quota, and every request ends.
MedienVersprechen ==
  /\ []MedienTypeOK
  /\ []QuotaHaelt
  /\ JedeAnfrageEndet
=============================================================================
