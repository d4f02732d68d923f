---------------------------- MODULE ZugangProof -----------------------------
(* Who gets in, whose report counts, what is lent, and where the cards of an *)
(* incident are: guests, accounts, citizens, borrowers and the board. For any*)
(* number of them and of workers.                                            *)
EXTENDS Gastzugang, Konten, Buergerportal, Verleih, Einsatzboard,
        SequenceTheorems, FiniteSetTheorems, TLAPS

-----------------------------------------------------------------------------
(* Guests *)

GastFormen ==
  /\ \A z \in qrZeilen : DOMAIN z = {"nr", "von", "widerrufen"}
  /\ gTx = [w \in Workers |-> gTx[w]]
  /\ \A w \in Workers :
       gTx[w] # None => w \in gUmfang.worker /\ (gTx[w].art = "qr" => gTx[w].von \in Aussteller)

\* The token a code makes.
LEMMA NeueZeile ==
  ASSUME NEW u
  PROVE  /\ DOMAIN Neue(u) = {"nr", "von", "widerrufen"}
         /\ Neue(u).von = u /\ Neue(u).widerrufen = FALSE
BY DEF Neue

\* The board of one incident and one worker.
Einfach == Einsatz /\ EinGastWorker

\* A valid token is of a user that has shown the code since the last closing.
NurFrischeGelten == Einfach => \A z \in qrZeilen : ~z.widerrufen => z.von \in frisch

\* What a transaction has read is still so when it writes.
GelesenesGilt ==
  Einfach => \A w \in Workers : gTx[w] # None =>
    /\ (gTx[w].art = "qr" /\ gTx[w].zeilen # {} /\ konto[gTx[w].von] # "weg") =>
         Gueltige(gTx[w].von) # {}
    /\ gTx[w].art = "schliessen" => \A z \in qrZeilen : ~z.widerrufen => z \in gTx[w].zeilen

GastIInv ==
  /\ GastTypeOK /\ GastFormen
  /\ NurFrischeGelten /\ GelesenesGilt /\ GezeigterCodeGilt

LEMMA GastAmAnfang == GastInit => GastIInv
BY DEF GastInit, GastIInv, GastTypeOK, GastFormen, NurFrischeGelten, GelesenesGilt,
       GezeigterCodeGilt

\* One worker has one transaction.
LEMMA EineTx ==
  ASSUME GastFormen, EinGastWorker, NEW v \in Workers, NEW w \in Workers,
         gTx[v] # None, w \in gUmfang.worker
  PROVE  v = w
BY DEF GastFormen, EinGastWorker

\* A transaction that begins keeps what it reads.
LEMMA LesenHaelt ==
  ASSUME GastIInv, NEW w \in Workers,
         SchliessenLesen(w) \/ \E u \in Aussteller : QrLesen(w, u)
  PROVE  GastIInv'
<1> USE DEF GastIInv
<1>1. /\ UNCHANGED <<gUmfang, gOffen, konto, codes, qrZeilen, cookie, frisch>>
      /\ w \in gUmfang.worker
      /\ \A v \in Workers \ {w} : gTx'[v] = gTx[v]
      /\ gTx' = [v \in Workers |-> gTx'[v]]
  BY DEF GastFormen, SchliessenLesen, QrLesen, Ruht, NurWechsel
<1>2. \/ \E u \in Aussteller : gTx'[w] = [art |-> "qr", von |-> u, zeilen |-> Gueltige(u)]
      \/ gTx'[w] = [art |-> "schliessen", von |-> None,
                    zeilen |-> {z \in qrZeilen : ~z.widerrufen}]
  BY DEF GastFormen, SchliessenLesen, QrLesen, VorhandenerCode
<1>3. GastTypeOK' /\ NurFrischeGelten' /\ GezeigterCodeGilt'
  BY <1>1 DEF GastTypeOK, NurFrischeGelten, GezeigterCodeGilt, Einfach, Einsatz,
              EinGastWorker, Gueltige
<1>4. GastFormen'
  BY <1>1, <1>2 DEF GastFormen
<1>5. GelesenesGilt'
  BY <1>1, <1>2 DEF GelesenesGilt, Einfach, Einsatz, EinGastWorker, Gueltige
<1> QED
  BY <1>3, <1>4, <1>5

LEMMA QrSchreibenHaelt ==
  ASSUME GastIInv, NEW w \in Workers, QrSchreiben(w)
  PROVE  GastIInv'
<1> USE DEF GastIInv
<1> DEFINE u == gTx[w].von
<1>1. /\ gTx[w] # None /\ w \in gUmfang.worker /\ u \in Aussteller
      /\ gTx[w].art = "qr"
      /\ gTx' = [gTx EXCEPT ![w] = None]
      /\ UNCHANGED <<gUmfang, gOffen, konto, cookie>>
  BY DEF QrSchreiben, GastFormen
<1>2. \/ /\ qrZeilen' = qrZeilen /\ gTx[w].zeilen # {}
         /\ codes' = codes \cup {u} /\ frisch' = frisch \cup {u}
      \/ /\ qrZeilen' = qrZeilen \cup {Neue(u)}
         /\ codes' = codes \cup {u} /\ frisch' = frisch \cup {u}
      \/ UNCHANGED <<qrZeilen, codes, frisch>>
  BY DEF QrSchreiben, BisherigeZeilen
<1>3. GastTypeOK'
  BY <1>1, <1>2, NeueZeile DEF GastTypeOK
<1>4. GastFormen'
  BY <1>1, <1>2, NeueZeile DEF GastFormen
<1>5. NurFrischeGelten'
  <2>1. \A z \in qrZeilen' : (z \in qrZeilen /\ frisch \subseteq frisch') \/ z.von \in frisch'
    BY <1>2, NeueZeile
  <2> QED
    BY <1>1, <2>1 DEF NurFrischeGelten, Einfach, Einsatz, EinGastWorker
<1>6. GelesenesGilt'
  <2>1. Einfach' => \A v \in Workers : gTx'[v] = None
    BY <1>1, EineTx DEF GastFormen, Einfach, Einsatz, EinGastWorker
  <2> QED
    BY <2>1 DEF GelesenesGilt
<1>7. GezeigterCodeGilt'
  <2> SUFFICES ASSUME Einfach, NEW x \in frisch', konto[x] # "weg"
               PROVE  \E z \in qrZeilen' : z.von = x /\ ~z.widerrufen
    BY <1>1 DEF GezeigterCodeGilt, Einfach, Einsatz, EinGastWorker, Gueltige
  <2>1. CASE Gueltige(x) # {}
    BY <1>2, <2>1 DEF Gueltige
  <2>2. CASE x \in frisch
    BY <2>1, <2>2 DEF GezeigterCodeGilt, Einfach
  <2>3. CASE x = u /\ gTx[w].zeilen # {}
    BY <1>1, <2>1, <2>3 DEF GelesenesGilt
  <2>4. CASE x = u /\ qrZeilen' = qrZeilen \cup {Neue(u)}
    BY <2>4, NeueZeile
  <2> QED
    BY <1>2, <2>2, <2>3, <2>4
<1> QED
  BY <1>3, <1>4, <1>5, <1>6, <1>7

\* What the closing has read are all tokens that are valid.
LEMMA SchliessenSchreibenHaelt ==
  ASSUME GastIInv, NEW w \in Workers, SchliessenSchreiben(w)
  PROVE  GastIInv'
<1> USE DEF GastIInv
<1>1. /\ gTx[w] # None /\ w \in gUmfang.worker /\ gTx[w].art = "schliessen"
      /\ gTx' = [gTx EXCEPT ![w] = None]
      /\ UNCHANGED <<gUmfang, konto, codes, cookie>>
      /\ frisch' = {}
      /\ qrZeilen' = IF Einsatz THEN Widerrufen(gTx[w].zeilen) ELSE qrZeilen
  BY DEF SchliessenSchreiben, GastFormen
<1>2. \A z \in Widerrufen(gTx[w].zeilen) :
        \/ z \in qrZeilen /\ z \notin gTx[w].zeilen
        \/ \E y \in qrZeilen : DOMAIN z = DOMAIN y /\ z.von = y.von /\ z.widerrufen = TRUE
  <2> SUFFICES ASSUME NEW y \in qrZeilen
               PROVE  LET z == [y EXCEPT !.widerrufen = TRUE]
                      IN DOMAIN z = DOMAIN y /\ z.von = y.von /\ z.widerrufen = TRUE
    BY DEF Widerrufen
  <2>1. DOMAIN y = {"nr", "von", "widerrufen"}
    BY DEF GastFormen
  <2> QED
    BY <2>1
<1>3. \A z \in qrZeilen' : \/ z \in qrZeilen
                           \/ \E y \in qrZeilen : DOMAIN z = DOMAIN y /\ z.von = y.von /\ z.widerrufen = TRUE
  BY <1>1, <1>2
<1>4. GastTypeOK'
  BY <1>1, <1>3 DEF GastTypeOK
<1>5. GastFormen'
  BY <1>1, <1>3 DEF GastFormen
<1>6. NurFrischeGelten'
  BY <1>1, <1>2 DEF NurFrischeGelten, GelesenesGilt, Einfach, Einsatz, EinGastWorker
<1>7. GelesenesGilt'
  <2>1. Einfach' => \A v \in Workers : gTx'[v] = None
    BY <1>1, EineTx DEF GastFormen, Einfach, Einsatz, EinGastWorker
  <2> QED
    BY <2>1 DEF GelesenesGilt
<1>8. GezeigterCodeGilt'
  BY <1>1 DEF GezeigterCodeGilt
<1> QED
  BY <1>4, <1>5, <1>6, <1>7, <1>8

\* A large-scale incident promises nothing here.
LEMMA LageQrHaelt ==
  ASSUME GastIInv, NEW u \in Aussteller, LageQr(u) \/ LageQrLogin(u)
  PROVE  GastIInv'
<1> USE DEF GastIInv
<1>1. /\ ~Einsatz /\ UNCHANGED <<gUmfang, gOffen, konto, cookie, gTx>>
      /\ ~Einfach'
      /\ codes \subseteq codes' /\ codes' \subseteq Aussteller
      /\ frisch' \subseteq frisch \cup {u} /\ frisch' \subseteq codes'
      /\ qrZeilen' \subseteq qrZeilen \cup {Neue(u)}
  BY DEF LageQr, LageQrLogin, GastTypeOK, Einfach, Einsatz
<1>2. GastTypeOK'
  BY <1>1, NeueZeile DEF GastTypeOK
<1>3. GastFormen'
  BY <1>1, NeueZeile DEF GastFormen
<1>4. NurFrischeGelten' /\ GelesenesGilt' /\ GezeigterCodeGilt'
  BY <1>1 DEF NurFrischeGelten, GelesenesGilt, GezeigterCodeGilt, Einfach
<1> QED
  BY <1>2, <1>3, <1>4

LEMMA KontoHaelt ==
  ASSUME GastIInv, NEW u \in Aussteller,
         KontoDeaktivieren(u) \/ GeraetReaktivieren(u) \/ KontoLoeschen(u)
  PROVE  GastIInv'
<1> USE DEF GastIInv
<1>1. /\ UNCHANGED <<gUmfang, gOffen, codes, cookie, gTx, frisch>>
      /\ konto' \in [Aussteller -> {"aktiv", "inaktiv", "weg"}]
      /\ \A x \in Aussteller : konto[x] = "weg" => konto'[x] = "weg"
      /\ qrZeilen' \subseteq qrZeilen
  BY DEF KontoDeaktivieren, GeraetReaktivieren, KontoLoeschen, KontoSetzen, GastTypeOK,
         NurWechsel
<1>2. \A z \in qrZeilen \ qrZeilen' : konto'[z.von] = "weg"
  BY DEF KontoDeaktivieren, GeraetReaktivieren, KontoLoeschen, KontoSetzen, GastTypeOK
<1>3. GastTypeOK' /\ GastFormen'
  BY <1>1 DEF GastTypeOK, GastFormen
<1>4. NurFrischeGelten'
  BY <1>1 DEF NurFrischeGelten, Einfach, Einsatz, EinGastWorker
<1>5. ASSUME NEW x \in Aussteller, konto'[x] # "weg", Gueltige(x) # {}
      PROVE  Gueltige(x)' # {}
  BY <1>2, <1>5 DEF Gueltige
<1>6. GelesenesGilt'
  BY <1>1, <1>5 DEF GelesenesGilt, GastFormen, Einfach, Einsatz, EinGastWorker
<1>7. GezeigterCodeGilt'
  BY <1>1, <1>5 DEF GezeigterCodeGilt, GastTypeOK, Einsatz, EinGastWorker
<1> QED
  BY <1>3, <1>4, <1>6, <1>7

\* A guest that logs in and an incident that is reopened change no token.
LEMMA GaesteHalten ==
  ASSUME GastIInv,
         \/ Wiedereroeffnen
         \/ \E g \in Gaeste, u \in Aussteller : QrLogin(g, u) \/ LageQrLoginPost(g, u)
  PROVE  GastIInv'
<1>1. /\ UNCHANGED <<gUmfang, konto, codes, qrZeilen, gTx, frisch>>
      /\ cookie' \in [Gaeste -> Aussteller \cup {None}]
  BY DEF Wiedereroeffnen, QrLogin, LageQrLoginPost, GastIInv, GastTypeOK
<1>2. GastTypeOK' /\ GastFormen'
  BY <1>1 DEF GastIInv, GastTypeOK, GastFormen
<1>3. NurFrischeGelten' /\ GelesenesGilt' /\ GezeigterCodeGilt'
  BY <1>1 DEF GastIInv, NurFrischeGelten, GelesenesGilt, GezeigterCodeGilt, Einfach,
              Einsatz, EinGastWorker, Gueltige
<1> QED
  BY <1>2, <1>3 DEF GastIInv

LEMMA GastSchritt == GastIInv /\ [GastNext]_gastVars => GastIInv'
<1> SUFFICES ASSUME GastIInv, [GastNext]_gastVars
             PROVE  GastIInv'
  OBVIOUS
<1>1. CASE GastNext
  BY <1>1, LesenHaelt, QrSchreibenHaelt, SchliessenSchreibenHaelt, LageQrHaelt, KontoHaelt,
     GaesteHalten DEF GastNext
<1>2. CASE UNCHANGED gastVars
  BY <1>2 DEF gastVars, GastIInv, GastTypeOK, GastFormen, NurFrischeGelten, GelesenesGilt,
              GezeigterCodeGilt, Einfach, Einsatz, EinGastWorker, Gueltige
<1> QED
  BY <1>1, <1>2

LEMMA GastInvariante == GastSpec => []GastIInv
BY GastAmAnfang, GastSchritt, PTL DEF GastSpec

\* qr_login, session_middleware and close_incident: who is on the board scanned the code
\* of a user that has shown it since the last closing, and a shown code works, for any
\* number of users, guests and changes.
THEOREM GastHaelt == GastSpec => []GastVersprechen
<1>1. GastIInv => GastVersprechen
  BY DEF GastIInv, GastVersprechen, NurFrischeGelten, GastNurMitFrischemCode, Angemeldet,
         Gueltige, Einfach
<1> QED
  BY GastInvariante, <1>1, PTL

\* No code that is shown, scanned or revoked for somebody else takes a guest off the board
\* while the incident is active and the user behind the code may log in.
THEOREM VerteilteCodesHalten == GastSpec => VerteilteCodesBleiben
<1> DEFINE Bleibt ==
      \A g \in Gaeste :
        (Angemeldet(g) /\ gOffen' /\ cookie'[g] = cookie[g] /\ konto'[cookie[g]] = "aktiv") =>
          Angemeldet(g)'
<1>1. GastIInv /\ [GastNext]_gastVars => [Bleibt]_gastVars
  <2> SUFFICES ASSUME GastIInv, GastNext, NEW g \in Gaeste, Angemeldet(g), gOffen',
                      cookie'[g] = cookie[g], konto'[cookie[g]] = "aktiv"
               PROVE  Angemeldet(g)'
    OBVIOUS
  <2>1. PICK u \in Aussteller : cookie[g] = u /\ Gueltige(u) # {}
    BY DEF Angemeldet
  <2>2. PICK z \in qrZeilen : z.von = u /\ ~z.widerrufen
    BY <2>1 DEF Gueltige
  <2>3. z \in qrZeilen'
    <3>1. CASE \E w \in Workers : QrSchreiben(w)
      BY <2>2, <3>1 DEF QrSchreiben, BisherigeZeilen
    <3>2. CASE \E x \in Aussteller : KontoLoeschen(x)
      BY <2>1, <2>2, <3>2 DEF KontoLoeschen, GastIInv, GastTypeOK
    <3>3. CASE UNCHANGED qrZeilen
      BY <2>2, <3>3
    <3>4. CASE \E x \in Aussteller : LageQrLogin(x)
      BY <2>2, <3>4 DEF LageQrLogin
    <3> QED
      BY <3>1, <3>2, <3>3, <3>4
         DEF GastNext, QrLesen, SchliessenLesen, SchliessenSchreiben, LageQr, QrLogin,
             LageQrLoginPost, KontoDeaktivieren, GeraetReaktivieren, KontoSetzen, Wiedereroeffnen
  <2> QED
    BY <2>1, <2>2, <2>3 DEF Angemeldet, Gueltige
<1> QED
  BY GastInvariante, <1>1, PTL DEF GastSpec, VerteilteCodesBleiben

-----------------------------------------------------------------------------
(* Accounts *)

LinkStaende == {"offen", "genutzt", "abgelaufen"}

KontenTypen ==
  /\ benutzer \in Konto \cup {None}
  /\ linkStand \in Seq(LinkStaende) /\ nutzungen \in Seq(Nat)
  /\ Len(linkStand) = Len(nutzungen)
  /\ versuche \in Nat

\* A request reads an account that is there and stays.
AnfragenKennenKonto ==
  /\ kTx = [w \in Workers |-> kTx[w]]
  /\ \A w \in Workers : kTx[w] # None =>
       /\ w \in kUmfang.worker /\ kTx[w].alt \in Konto /\ benutzer \in Konto
       /\ kTx[w].art = "login" => kTx[w].alt.sperre # "laeuft"
       /\ kTx[w].art = "reset" => kTx[w].link \in 1..Len(linkStand)
  /\ sso = [t \in Tabs |-> sso[t]]
  /\ \A t \in Tabs : sso[t] # None =>
       \/ sso[t].konto = None
       \/ sso[t].konto \in Konto /\ benutzer \in Konto

\* An open link has set no password, nor has the one a request is about to use.
LinksUnbenutzt ==
  /\ \A l \in 1..Len(linkStand) : linkStand[l] = "offen" => l = Len(linkStand)
  /\ EinKontoWorker =>
       /\ \A l \in 1..Len(linkStand) :
            nutzungen[l] <= 1 /\ (linkStand[l] = "offen" => nutzungen[l] = 0)
       /\ \A w \in Workers :
            (kTx[w] # None /\ kTx[w].art = "reset") => nutzungen[kTx[w].link] = 0

\* With one worker the count of the account is the count of the attempts, and what a
\* request has read of it is still so.
ZaehltRichtig ==
  IF benutzer = None THEN versuche = 0
  ELSE IF benutzer.sperre = "keine" THEN benutzer.fehl = versuche /\ versuche < MaxFehl
  ELSE benutzer.fehl = MaxFehl /\ versuche = MaxFehl

GelesenesZaehlt ==
  \A w \in Workers : kTx[w] # None =>
    /\ benutzer.fehl = kTx[w].alt.fehl
    /\ \/ benutzer.sperre = kTx[w].alt.sperre
       \/ kTx[w].alt.sperre = "laeuft" /\ benutzer.sperre = "vorbei"

KontenIInv ==
  /\ KontenTypen /\ AnfragenKennenKonto /\ LinksUnbenutzt
  /\ EinKontoWorker => ZaehltRichtig /\ GelesenesZaehlt

-----------------------------------------------------------------------------
(* The operators on the row of an account *)

LEMMA GeaenderteSpalten ==
  ASSUME NEW alt \in Konto, NEW neu \in Konto, benutzer \in Konto
  PROVE  /\ Geaendert(alt, neu) \in Konto
         /\ Geaendert(alt, neu).fehl = IF alt.fehl = neu.fehl THEN benutzer.fehl ELSE neu.fehl
         /\ Geaendert(alt, neu).sperre =
              IF alt.sperre = neu.sperre THEN benutzer.sperre ELSE neu.sperre
         /\ neu.rollen = alt.rollen => Geaendert(alt, neu).rollen = benutzer.rollen
BY DEF Geaendert, Konto

LEMMA NachVersuch ==
  ASSUME NEW k \in Konto
  PROVE  /\ OhneAltlast(k) \in Konto /\ OhneAltlast(k).rollen = k.rollen
         /\ k.sperre = "vorbei" => OhneAltlast(k).sperre = "keine" /\ OhneAltlast(k).fehl = 0
         /\ k.sperre # "vorbei" => OhneAltlast(k) = k
         /\ NachErfolg(k) \in Konto /\ NachErfolg(k).rollen = k.rollen
         /\ NachErfolg(k).sperre = "keine" /\ NachErfolg(k).fehl = 0
         /\ NachFehlversuch(k) \in Konto /\ NachFehlversuch(k).rollen = k.rollen
         /\ NachFehlversuch(k).fehl = k.fehl + 1
         /\ NachFehlversuch(k).sperre = IF k.fehl + 1 >= MaxFehl THEN "laeuft" ELSE k.sperre
<1>1. /\ OhneAltlast(k) \in Konto /\ OhneAltlast(k).rollen = k.rollen
      /\ k.sperre = "vorbei" => OhneAltlast(k).sperre = "keine" /\ OhneAltlast(k).fehl = 0
      /\ k.sperre # "vorbei" => OhneAltlast(k) = k
  BY DEF OhneAltlast, Konto
<1>2. /\ NachErfolg(k) \in Konto /\ NachErfolg(k).rollen = k.rollen
      /\ NachErfolg(k).sperre = "keine" /\ NachErfolg(k).fehl = 0
  BY DEF NachErfolg, Konto
<1> DEFINE n == k.fehl + 1
           s == IF n >= MaxFehl THEN "laeuft" ELSE k.sperre
<1>3. n \in Nat /\ s \in {"keine", "laeuft", "vorbei"}
  BY DEF Konto
<1>4. NachFehlversuch(k) = [k EXCEPT !.fehl = n, !.sperre = s]
  BY DEF NachFehlversuch
<1> HIDE DEF n, s
<1>5. /\ NachFehlversuch(k) \in Konto /\ NachFehlversuch(k).rollen = k.rollen
      /\ NachFehlversuch(k).fehl = n /\ NachFehlversuch(k).sperre = s
  BY <1>3, <1>4 DEF Konto
<1> QED
  BY <1>1, <1>2, <1>5 DEF n, s

LEMMA NeuesKonto ==
  /\ Angelegt \in Konto /\ Angelegt.rollen = "gruppe"
  /\ Angelegt.sperre = "keine" /\ Angelegt.fehl = 0
BY DEF Angelegt, Konto

LEMMA AmtlichesKonto ==
  LET k == [Angelegt EXCEPT !.anbieter = "local", !.oid = FALSE, !.passwort = TRUE,
                            !.rollen = "amt"]
  IN k \in Konto /\ k.rollen = "amt" /\ k.sperre = "keine" /\ k.fehl = 0
<1> DEFINE a == Angelegt
<1>1. a \in Konto /\ a.sperre = "keine" /\ a.fehl = 0
  BY NeuesKonto
<1> HIDE DEF a
<1>2. LET k == [a EXCEPT !.anbieter = "local", !.oid = FALSE, !.passwort = TRUE,
                         !.rollen = "amt"]
      IN k \in Konto /\ k.rollen = "amt" /\ k.sperre = "keine" /\ k.fehl = 0
  BY <1>1 DEF Konto
<1> QED
  BY <1>2 DEF a

LEMMA KontenAmAnfang == KontenInit => KontenIInv
<1> SUFFICES ASSUME KontenInit PROVE KontenIInv
  OBVIOUS
<1> DEFINE k == [Angelegt EXCEPT !.anbieter = "local", !.oid = FALSE, !.passwort = TRUE,
                                 !.rollen = "amt"]
<1>1. \/ benutzer = None
      \/ benutzer = k
  BY DEF KontenInit
<1>2. k \in Konto /\ k.rollen = "amt" /\ k.sperre = "keine" /\ k.fehl = 0
  BY AmtlichesKonto
<1> HIDE DEF k
<1>3. /\ linkStand = <<>> /\ nutzungen = <<>> /\ versuche = 0
      /\ kTx = [w \in Workers |-> None] /\ sso = [t \in Tabs |-> None]
  BY DEF KontenInit
<1>4. KontenTypen
  BY <1>1, <1>2, <1>3, EmptySeq DEF KontenTypen
<1>5. AnfragenKennenKonto
  BY <1>3 DEF AnfragenKennenKonto
<1>6. LinksUnbenutzt
  BY <1>3, EmptySeq DEF LinksUnbenutzt
<1>7. ZaehltRichtig /\ GelesenesZaehlt
  BY <1>1, <1>2, <1>3, KontenAssumption
     DEF ZaehltRichtig, GelesenesZaehlt
<1> QED
  BY <1>4, <1>5, <1>6, <1>7 DEF KontenIInv

\* One worker has one request at a time.
LEMMA EineAnfrage ==
  ASSUME AnfragenKennenKonto, EinKontoWorker, NEW v \in Workers, NEW w \in Workers,
         kTx[v] # None, w \in kUmfang.worker
  PROVE  v = w
BY DEF AnfragenKennenKonto, EinKontoWorker

-----------------------------------------------------------------------------
(* Passwords and links *)

LEMMA AnfrageBeginntHaelt ==
  ASSUME KontenIInv, NEW w \in Workers,
         \/ \E richtig \in BOOLEAN : LoginLesen(w, richtig)
         \/ \E l \in 1..MaxLinks : ResetLesen(w, l)
  PROVE  KontenIInv'
<1> USE DEF KontenIInv
<1>1. /\ UNCHANGED <<kUmfang, benutzer, linkStand, sso, versuche, nutzungen>>
      /\ w \in kUmfang.worker /\ kTx[w] = None /\ benutzer # None
  BY DEF LoginLesen, ResetLesen, KontoBereit
<1>2. benutzer \in Konto
  BY <1>1 DEF KontenTypen
<1>3. PICK tx :
        /\ kTx' = [kTx EXCEPT ![w] = tx]
        /\ tx.alt = benutzer
        /\ tx.art = "login" => benutzer.sperre # "laeuft"
        /\ tx.art = "reset" => tx.link \in 1..Len(linkStand) /\ linkStand[tx.link] = "offen"
  <2>1. CASE \E richtig \in BOOLEAN : LoginLesen(w, richtig)
    <3>1. PICK richtig \in BOOLEAN : LoginLesen(w, richtig)
      BY <2>1
    <3> DEFINE r == [art |-> "login", alt |-> benutzer, richtig |-> richtig, link |-> 0]
    <3>2. kTx' = [kTx EXCEPT ![w] = r] /\ Zugelassen(benutzer)
      BY <3>1 DEF LoginLesen
    <3>3. r.alt = benutzer /\ r.art = "login"
      OBVIOUS
    <3>4. benutzer.sperre # "laeuft"
      BY <3>2 DEF Zugelassen
    <3> HIDE DEF r
    <3> QED
      BY <3>2, <3>3, <3>4
  <2>2. CASE \E l \in 1..MaxLinks : ResetLesen(w, l)
    <3>1. PICK l \in 1..MaxLinks : ResetLesen(w, l)
      BY <2>2
    <3> DEFINE r == [art |-> "reset", alt |-> benutzer, richtig |-> FALSE, link |-> l]
    <3>2. kTx' = [kTx EXCEPT ![w] = r]
      BY <3>1 DEF ResetLesen
    <3>3. r.alt = benutzer /\ r.art = "reset" /\ r.link = l
      OBVIOUS
    <3>4. l \in 1..Len(linkStand) /\ linkStand[l] = "offen"
      BY <3>1, LenProperties DEF ResetLesen, KontenTypen
    <3> HIDE DEF r
    <3> QED
      BY <3>2, <3>3, <3>4
  <2> QED
    BY <2>1, <2>2
<1>4. kTx'[w] = tx /\ \A v \in Workers \ {w} : kTx'[v] = kTx[v]
  BY <1>3 DEF AnfragenKennenKonto
<1>5. KontenTypen' 
  BY <1>1 DEF KontenTypen
<1>6. AnfragenKennenKonto'
  BY <1>1, <1>2, <1>3, <1>4 DEF AnfragenKennenKonto
<1>7. LinksUnbenutzt'
  BY <1>1, <1>3, <1>4 DEF LinksUnbenutzt, EinKontoWorker
<1>8. EinKontoWorker' => ZaehltRichtig' /\ GelesenesZaehlt'
  BY <1>1, <1>3, <1>4 DEF ZaehltRichtig, GelesenesZaehlt, EinKontoWorker
<1> QED
  BY <1>5, <1>6, <1>7, <1>8

\* The end of a request: its worker's only one, so that with one worker none is left.
LEMMA AnfrageEndet ==
  ASSUME AnfragenKennenKonto, NEW w \in Workers, kTx[w] # None,
         kTx' = [kTx EXCEPT ![w] = None], UNCHANGED <<kUmfang, sso>>,
         benutzer' \in Konto, Len(linkStand') = Len(linkStand)
  PROVE  /\ AnfragenKennenKonto'
         /\ EinKontoWorker' => EinKontoWorker /\ \A v \in Workers : kTx'[v] = None
<1>1. AnfragenKennenKonto'
  BY DEF AnfragenKennenKonto
<1>2. w \in kUmfang.worker
  BY DEF AnfragenKennenKonto
<1>3. EinKontoWorker' => EinKontoWorker /\ \A v \in Workers : kTx'[v] = None
  BY <1>2, EineAnfrage DEF EinKontoWorker, AnfragenKennenKonto
<1> QED
  BY <1>1, <1>3

LEMMA LoginSchreibenHaelt ==
  ASSUME KontenIInv, NEW w \in Workers, LoginSchreiben(w)
  PROVE  KontenIInv'
<1> USE DEF KontenIInv
<1> DEFINE alt == kTx[w].alt
           k   == OhneAltlast(alt)
           neu == IF kTx[w].richtig THEN NachErfolg(k) ELSE NachFehlversuch(k)
<1>1. /\ kTx[w] # None /\ kTx[w].art = "login"
      /\ kTx' = [kTx EXCEPT ![w] = None]
      /\ UNCHANGED <<kUmfang, linkStand, sso, nutzungen>>
      /\ benutzer' = Geaendert(alt, neu)
      /\ versuche' = IF kTx[w].richtig THEN 0
                     ELSE (IF alt.sperre = "vorbei" THEN 0 ELSE versuche) + 1
  BY DEF LoginSchreiben
<1>2. alt \in Konto /\ benutzer \in Konto /\ alt.sperre \in {"keine", "vorbei"}
  BY <1>1 DEF AnfragenKennenKonto, Konto
<1>3. k \in Konto /\ neu \in Konto /\ neu.rollen = alt.rollen
  BY <1>2, NachVersuch
<1>4. /\ benutzer' \in Konto
      /\ benutzer'.fehl = IF alt.fehl = neu.fehl THEN benutzer.fehl ELSE neu.fehl
      /\ benutzer'.sperre = IF alt.sperre = neu.sperre THEN benutzer.sperre ELSE neu.sperre
      /\ benutzer'.rollen = benutzer.rollen
  BY <1>1, <1>2, <1>3, GeaenderteSpalten
<1>5. /\ kTx[w].richtig => neu.fehl = 0 /\ neu.sperre = "keine"
      /\ ~kTx[w].richtig /\ alt.sperre = "vorbei" =>
           neu.fehl = 1 /\ neu.sperre = IF 1 >= MaxFehl THEN "laeuft" ELSE "keine"
      /\ ~kTx[w].richtig /\ alt.sperre = "keine" =>
           /\ neu.fehl = alt.fehl + 1
           /\ neu.sperre = IF alt.fehl + 1 >= MaxFehl THEN "laeuft" ELSE "keine"
  <2>1. /\ alt.sperre = "vorbei" => k.fehl = 0 /\ k.sperre = "keine"
        /\ alt.sperre = "keine" => k = alt
    BY <1>2, NachVersuch
  <2>2. /\ NachErfolg(k).sperre = "keine" /\ NachErfolg(k).fehl = 0
        /\ NachFehlversuch(k).fehl = k.fehl + 1
        /\ NachFehlversuch(k).sperre = IF k.fehl + 1 >= MaxFehl THEN "laeuft" ELSE k.sperre
    BY <1>3, NachVersuch
  <2> HIDE DEF k
  <2> QED
    BY <2>1, <2>2
<1> HIDE DEF alt, k, neu
<1>6. KontenTypen'
  BY <1>1, <1>4 DEF KontenTypen
<1>7. AnfragenKennenKonto' /\ (EinKontoWorker' => EinKontoWorker /\ \A v \in Workers : kTx'[v] = None)
  BY <1>1, <1>4, AnfrageEndet
<1>8. LinksUnbenutzt'
  BY <1>1, <1>7 DEF LinksUnbenutzt
<1>9. ASSUME EinKontoWorker
       PROVE  ZaehltRichtig'
  <2>1. benutzer.fehl = alt.fehl /\ benutzer.sperre = alt.sperre
    BY <1>1, <1>2, <1>9 DEF GelesenesZaehlt, alt
  <2>2. /\ alt.sperre = "keine" => alt.fehl = versuche /\ versuche < MaxFehl
        /\ alt.sperre = "vorbei" => alt.fehl = MaxFehl /\ versuche = MaxFehl
    BY <1>2, <1>9, <2>1, KontenAssumption DEF ZaehltRichtig
  <2>3. versuche \in Nat /\ MaxFehl \in Nat \ {0} /\ benutzer' # None /\ benutzer'.fehl \in Nat
    BY <1>4, KontenAssumption DEF KontenTypen, Konto
  <2>4. /\ kTx[w].richtig => versuche' = 0
        /\ ~kTx[w].richtig => versuche' = IF alt.sperre = "vorbei" THEN 1 ELSE versuche + 1
    BY <1>1
  <2>5. CASE kTx[w].richtig
    <3>1. neu.fehl = 0 /\ neu.sperre = "keine"
      BY <1>5, <2>5
    <3>2. benutzer'.fehl = 0 /\ benutzer'.sperre = "keine"
      BY <1>4, <2>1, <3>1
    <3> QED
      BY <2>3, <2>4, <2>5, <3>2 DEF ZaehltRichtig
  <2>6. CASE ~kTx[w].richtig /\ alt.sperre = "vorbei"
    BY <2>4, <1>4, <1>5, <2>1, <2>2, <2>3, <2>6 DEF ZaehltRichtig
  <2>7. CASE ~kTx[w].richtig /\ alt.sperre = "keine"
    BY <2>4, <1>4, <1>5, <2>1, <2>2, <2>3, <2>7 DEF ZaehltRichtig
  <2> QED
    BY <1>2, <2>5, <2>6, <2>7
<1> QED
  BY <1>6, <1>7, <1>8, <1>9 DEF GelesenesZaehlt

LEMMA ResetSchreibenHaelt ==
  ASSUME KontenIInv, NEW w \in Workers, ResetSchreiben(w)
  PROVE  KontenIInv'
<1> USE DEF KontenIInv
<1> DEFINE alt == kTx[w].alt
           l   == kTx[w].link
           g   == Geaendert(alt, NachErfolg(alt))
<1>1. /\ kTx[w] # None /\ kTx[w].art = "reset"
      /\ kTx' = [kTx EXCEPT ![w] = None]
      /\ UNCHANGED <<kUmfang, sso>>
      /\ benutzer' = [g EXCEPT !.passwort = TRUE]
      /\ linkStand' = [linkStand EXCEPT ![l] = "genutzt"]
      /\ nutzungen' = [nutzungen EXCEPT ![l] = @ + 1]
      /\ versuche' = 0
  BY DEF ResetSchreiben, LinkGenutzt
<1>2. alt \in Konto /\ benutzer \in Konto /\ l \in 1..Len(linkStand)
  BY <1>1 DEF AnfragenKennenKonto
<1>3. /\ g \in Konto /\ g.rollen = benutzer.rollen
      /\ g.fehl = IF alt.fehl = 0 THEN benutzer.fehl ELSE 0
      /\ g.sperre = IF alt.sperre = "keine" THEN benutzer.sperre ELSE "keine"
  BY <1>2, GeaenderteSpalten, NachVersuch
<1> HIDE DEF g
<1>4. /\ benutzer' \in Konto /\ benutzer'.rollen = benutzer.rollen
      /\ benutzer'.fehl = g.fehl /\ benutzer'.sperre = g.sperre
  BY <1>1, <1>3 DEF Konto
<1> HIDE DEF alt, l
<1>5. /\ linkStand' \in Seq(LinkStaende) /\ Len(linkStand') = Len(linkStand)
      /\ linkStand'[l] = "genutzt"
      /\ \A i \in 1..Len(linkStand) : i # l => linkStand'[i] = linkStand[i]
  BY <1>1, <1>2, ExceptSeq DEF KontenTypen, LinkStaende
<1>6. /\ nutzungen' \in Seq(Nat) /\ Len(nutzungen') = Len(nutzungen)
      /\ nutzungen[l] \in Nat /\ nutzungen'[l] = nutzungen[l] + 1
      /\ \A i \in 1..Len(nutzungen) : i # l => nutzungen'[i] = nutzungen[i]
  <2>1. l \in 1..Len(nutzungen) /\ nutzungen \in Seq(Nat)
    BY <1>2 DEF KontenTypen
  <2>2. nutzungen[l] \in Nat
    BY <2>1, ElementOfSeq
  <2>3. nutzungen' = [nutzungen EXCEPT ![l] = nutzungen[l] + 1] /\ nutzungen[l] + 1 \in Nat
    BY <1>1, <2>2
  <2> QED
    BY <2>1, <2>2, <2>3, ExceptSeq
<1>7. KontenTypen'
  BY <1>1, <1>4, <1>5, <1>6 DEF KontenTypen
<1>8. AnfragenKennenKonto' /\ (EinKontoWorker' => EinKontoWorker /\ \A v \in Workers : kTx'[v] = None)
  BY <1>1, <1>4, <1>5, AnfrageEndet
<1>9. LinksUnbenutzt'
  <2>1. EinKontoWorker => nutzungen[l] = 0
    BY <1>1 DEF LinksUnbenutzt, l
  <2>2. Len(nutzungen) = Len(linkStand)
    BY DEF KontenTypen
  <2>3. ASSUME NEW i \in 1..Len(linkStand)'
        PROVE  linkStand'[i] = "offen" => i = Len(linkStand')
    BY <1>5, <2>3 DEF LinksUnbenutzt
  <2>4. ASSUME EinKontoWorker, NEW i \in 1..Len(linkStand)'
        PROVE  nutzungen'[i] <= 1 /\ (linkStand'[i] = "offen" => nutzungen'[i] = 0)
    <3>1. CASE i = l
      BY <1>5, <1>6, <2>1, <2>4, <3>1
    <3>2. CASE i # l
      BY <1>5, <1>6, <2>2, <2>4, <3>2 DEF LinksUnbenutzt
    <3> QED
      BY <3>1, <3>2
  <2>5. EinKontoWorker' => EinKontoWorker /\ \A v \in Workers : kTx'[v] = None
    BY <1>8
  <2> QED
    BY <2>3, <2>4, <2>5 DEF LinksUnbenutzt
<1>10. EinKontoWorker => ZaehltRichtig'
  <2>1. EinKontoWorker => /\ benutzer.fehl = alt.fehl
                          /\ alt.sperre = "keine" => benutzer.sperre = "keine"
    BY <1>1 DEF GelesenesZaehlt, alt
  <2>2. benutzer' # None /\ MaxFehl \in Nat \ {0}
    BY <1>4, KontenAssumption
  <2> QED
    BY <1>1, <1>3, <1>4, <2>1, <2>2 DEF ZaehltRichtig
<1> QED
  BY <1>7, <1>8, <1>9, <1>10 DEF GelesenesZaehlt

\* Links come and run out: the older ones are used up before a new one is open.
LEMMA LinksHalten ==
  ASSUME KontenIInv,
         \/ \E w \in Workers : LinkAnfordern(w)
         \/ \E l \in 1..MaxLinks : LinkVerfaellt(l)
  PROVE  KontenIInv'
<1> USE DEF KontenIInv
<1>1. UNCHANGED <<kUmfang, benutzer, kTx, sso, versuche>>
  BY DEF LinkAnfordern, LinkVerfaellt
<1>2. /\ linkStand \in Seq(LinkStaende) /\ nutzungen \in Seq(Nat)
      /\ Len(linkStand) \in Nat /\ Len(linkStand) = Len(nutzungen)
      /\ DOMAIN linkStand = 1..Len(linkStand)
  BY LenProperties DEF KontenTypen
<1>3. CASE \E l \in 1..MaxLinks : LinkVerfaellt(l)
  <2>1. PICK l \in 1..Len(linkStand) :
          /\ linkStand' = [linkStand EXCEPT ![l] = "abgelaufen"]
          /\ nutzungen' = nutzungen
    BY <1>2, <1>3 DEF LinkVerfaellt
  <2>2. /\ linkStand' \in Seq(LinkStaende) /\ Len(linkStand') = Len(linkStand)
        /\ linkStand'[l] = "abgelaufen"
        /\ \A i \in 1..Len(linkStand) : i # l => linkStand'[i] = linkStand[i]
    BY <1>2, <2>1, ExceptSeq DEF LinkStaende
  <2>3. KontenTypen' /\ AnfragenKennenKonto' 
    BY <1>1, <2>1, <2>2 DEF KontenTypen, AnfragenKennenKonto
  <2>4. LinksUnbenutzt'
    BY <1>1, <2>1, <2>2 DEF LinksUnbenutzt, EinKontoWorker
  <2>5. EinKontoWorker' => ZaehltRichtig' /\ GelesenesZaehlt'
    BY <1>1 DEF EinKontoWorker, ZaehltRichtig, GelesenesZaehlt
  <2> QED
    BY <2>3, <2>4, <2>5
<1>4. CASE \E w \in Workers : LinkAnfordern(w)
  <2> DEFINE n == Len(linkStand)
  <2>1. PICK w \in Workers :
          /\ KontoBereit(w)
          /\ linkStand' = Append(AlteEntwertet, "offen")
          /\ nutzungen' = Append(nutzungen, 0)
    BY <1>4 DEF LinkAnfordern
  <2>2. /\ AlteEntwertet \in Seq(LinkStaende) /\ Len(AlteEntwertet) = n
        /\ \A i \in 1..n : AlteEntwertet[i] = "genutzt"
    <3>1. AlteEntwertet \in [1..n -> LinkStaende] /\ n \in Nat
      BY <1>2 DEF AlteEntwertet, LinkStaende
    <3>2. AlteEntwertet \in Seq(LinkStaende)
      BY <3>1, SeqDef
    <3>3. Len(AlteEntwertet) = n
      BY <3>1, <3>2, LenProperties
    <3> QED
      BY <1>2, <3>2, <3>3 DEF AlteEntwertet
  <2>3. /\ linkStand' \in Seq(LinkStaende) /\ Len(linkStand') = n + 1
        /\ \A i \in 1..n : linkStand'[i] = "genutzt"
    <3>1. "offen" \in LinkStaende
      BY DEF LinkStaende
    <3> QED
      BY <2>1, <2>2, <3>1, AppendProperties
  <2>4. /\ nutzungen' \in Seq(Nat) /\ Len(nutzungen') = n + 1
        /\ \A i \in 1..n : nutzungen'[i] = nutzungen[i]
        /\ nutzungen'[n + 1] = 0
    BY <1>2, <2>1, AppendProperties
  <2>5. KontenTypen' /\ AnfragenKennenKonto' 
    <3>1. \A i \in 1..n : i \in 1..n + 1
      BY <1>2
    <3> QED
      BY <1>1, <2>3, <2>4, <3>1 DEF KontenTypen, AnfragenKennenKonto
  <2>6. \A i \in 1..n + 1 : i \in 1..n \/ i = n + 1
    BY <1>2
  <2>7. EinKontoWorker => \A v \in Workers : kTx[v] = None
    BY <2>1, EineAnfrage DEF KontoBereit
  <2>8. LinksUnbenutzt'
    <3>1. \A l \in 1..Len(linkStand') : linkStand'[l] = "offen" => l = Len(linkStand')
      BY <2>3, <2>6
    <3>2. \A v \in Workers : EinKontoWorker' => kTx'[v] = None
      BY <1>1, <2>7 DEF EinKontoWorker
    <3>3. ASSUME EinKontoWorker', NEW l \in 1..Len(linkStand')
          PROVE  nutzungen'[l] <= 1 /\ (linkStand'[l] = "offen" => nutzungen'[l] = 0)
      <4>1. l = n + 1 \/ (l \in 1..n /\ nutzungen'[l] = nutzungen[l] /\ linkStand'[l] = "genutzt")
        BY <2>3, <2>4, <2>6
      <4>2. ASSUME l \in 1..n PROVE nutzungen[l] <= 1
        BY <1>1, <3>3, <4>2 DEF LinksUnbenutzt, EinKontoWorker
      <4> QED
        BY <2>4, <4>1, <4>2
    <3> HIDE DEF KontenIInv, n
    <3> QED
      BY <3>1, <3>2, <3>3 DEF LinksUnbenutzt
  <2>9. EinKontoWorker' => ZaehltRichtig' /\ GelesenesZaehlt'
    BY <1>1 DEF EinKontoWorker, ZaehltRichtig, GelesenesZaehlt
  <2> QED
    BY <2>5, <2>8, <2>9
<1> QED
  BY <1>3, <1>4

-----------------------------------------------------------------------------
(* The account itself *)

\* The row changes, but not in the columns of the lock.
LEMMA SpaltenHalten ==
  ASSUME KontenIInv, benutzer \in Konto, benutzer' \in Konto,
         benutzer'.fehl = benutzer.fehl, benutzer'.sperre = benutzer.sperre,
         UNCHANGED <<kUmfang, linkStand, kTx, versuche, nutzungen>>,
         sso' = sso \/ \E t \in Tabs : sso' = [sso EXCEPT ![t] = None]
  PROVE  KontenIInv'
<1> USE DEF KontenIInv
<1>0. benutzer # None /\ benutzer' # None
  BY KontenAssumption
<1>1. KontenTypen'
  BY DEF KontenTypen
<1>2. AnfragenKennenKonto'
  BY DEF AnfragenKennenKonto
<1>3. LinksUnbenutzt'
  BY DEF LinksUnbenutzt, EinKontoWorker
<1>4. EinKontoWorker' => ZaehltRichtig' /\ GelesenesZaehlt'
  BY <1>0 DEF EinKontoWorker, ZaehltRichtig, GelesenesZaehlt
<1> QED
  BY <1>1, <1>2, <1>3, <1>4

\* A row is inserted: it has no attempts, and no request knows another.
LEMMA AngelegtesHaelt ==
  ASSUME KontenIInv, benutzer = None, benutzer' \in Konto,
         benutzer'.fehl = 0, benutzer'.sperre = "keine",
         UNCHANGED <<kUmfang, linkStand, kTx, versuche, nutzungen>>,
         sso' = sso \/ \E t \in Tabs : sso' = [sso EXCEPT ![t] = None]
  PROVE  KontenIInv'
<1> USE DEF KontenIInv
<1>0. benutzer \notin Konto /\ benutzer' # None /\ MaxFehl \in Nat \ {0}
  BY KontenAssumption
<1>1. KontenTypen'
  BY DEF KontenTypen
<1>2. AnfragenKennenKonto'
  BY <1>0 DEF AnfragenKennenKonto
<1>3. LinksUnbenutzt'
  BY DEF LinksUnbenutzt, EinKontoWorker
<1>4. EinKontoWorker' => ZaehltRichtig' /\ GelesenesZaehlt'
  BY <1>0 DEF EinKontoWorker, ZaehltRichtig, GelesenesZaehlt, AnfragenKennenKonto
<1> QED
  BY <1>1, <1>2, <1>3, <1>4

LEMMA SperreEndetHaelt ==
  ASSUME KontenIInv, SperreEndet
  PROVE  KontenIInv'
<1> USE DEF KontenIInv, SperreEndet
<1>0. /\ benutzer \in Konto /\ benutzer' \in Konto
      /\ benutzer'.fehl = benutzer.fehl /\ benutzer'.rollen = benutzer.rollen
      /\ benutzer.sperre = "laeuft" /\ benutzer'.sperre = "vorbei"
      /\ benutzer # None /\ benutzer' # None
  BY KontenAssumption DEF KontenTypen, Konto
<1>1. KontenTypen'
  BY <1>0 DEF KontenTypen
<1>2. AnfragenKennenKonto'
  BY <1>0 DEF AnfragenKennenKonto
<1>3. LinksUnbenutzt'
  BY DEF LinksUnbenutzt, EinKontoWorker
<1>4. EinKontoWorker' => ZaehltRichtig' /\ GelesenesZaehlt'
  BY <1>0 DEF EinKontoWorker, ZaehltRichtig, GelesenesZaehlt
<1> QED
  BY <1>1, <1>2, <1>3, <1>4

LEMMA VerwaltungHaelt ==
  ASSUME KontenIInv, KontoAnlegen \/ KontoStilllegen \/ RollenVergeben \/ PasswortVergeben
  PROVE  KontenIInv'
<1>1. CASE KontoAnlegen
  BY <1>1, AmtlichesKonto, AngelegtesHaelt DEF KontoAnlegen
<1>2. CASE KontoStilllegen \/ RollenVergeben \/ PasswortVergeben
  <2>1. /\ benutzer \in Konto
        /\ UNCHANGED <<kUmfang, linkStand, kTx, sso, versuche, nutzungen>>
    BY <1>2 DEF KontenIInv, KontenTypen, KontoStilllegen, RollenVergeben, PasswortVergeben, Amtlich
  <2>2. /\ benutzer' \in Konto
        /\ benutzer'.fehl = benutzer.fehl /\ benutzer'.sperre = benutzer.sperre
    BY <1>2, <2>1 DEF Konto, KontoStilllegen, RollenVergeben, PasswortVergeben, Amtlich
  <2> QED
    BY <2>1, <2>2, SpaltenHalten
<1> QED
  BY <1>1, <1>2

LEMMA SsoSchritteHalten ==
  ASSUME KontenIInv, NEW t \in Tabs, SsoBeginnt(t) \/ SsoScheitert(t)
  PROVE  KontenIInv'
<1> USE DEF KontenIInv
<1>1. UNCHANGED <<kUmfang, benutzer, linkStand, kTx, versuche, nutzungen>>
  BY DEF SsoBeginnt, SsoScheitert
<1>2. AnfragenKennenKonto'
  <2>1. /\ sso' = [u \in Tabs |-> sso'[u]]
        /\ \A u \in Tabs \ {t} : sso'[u] = sso[u]
        /\ sso'[t] # None => sso'[t] = [konto |-> benutzer]
    BY DEF SsoBeginnt, SsoScheitert, AnfragenKennenKonto
  <2>2. sso'[t] # None => sso'[t].konto = benutzer
    BY <2>1
  <2>3. benutzer \in Konto \cup {None}
    BY DEF KontenTypen
  <2>4. \A u \in Tabs : sso'[u] # None =>
          \/ sso'[u].konto = None
          \/ sso'[u].konto \in Konto /\ benutzer \in Konto
    BY <2>1, <2>2, <2>3 DEF AnfragenKennenKonto
  <2> QED
    BY <1>1, <2>1, <2>4 DEF AnfragenKennenKonto
<1>3. KontenTypen' /\ LinksUnbenutzt' 
  BY <1>1 DEF KontenTypen, LinksUnbenutzt, EinKontoWorker
<1>4. EinKontoWorker' => ZaehltRichtig' /\ GelesenesZaehlt'
  BY <1>1 DEF EinKontoWorker, ZaehltRichtig, GelesenesZaehlt
<1> QED
  BY <1>2, <1>3, <1>4

LEMMA SsoEndetHaelt ==
  ASSUME KontenIInv, NEW w \in Workers, NEW t \in Tabs, SsoEndet(w, t)
  PROVE  KontenIInv'
<1> DEFINE alt == sso[t].konto
           g   == Geaendert(alt, Verknuepft(alt))
<1>1. /\ UNCHANGED <<kUmfang, linkStand, kTx, versuche, nutzungen>>
      /\ sso[t] # None /\ sso' = [sso EXCEPT ![t] = None]
  BY DEF SsoEndet
<1>2. CASE /\ alt # None
           /\ benutzer' = [g EXCEPT !.rollen = benutzer.rollen]
  <2>1. alt \in Konto /\ benutzer \in Konto
    BY <1>1, <1>2 DEF KontenIInv, AnfragenKennenKonto
  <2>2. Verknuepft(alt) \in Konto /\ Verknuepft(alt).fehl = alt.fehl /\ Verknuepft(alt).sperre = alt.sperre
    BY <2>1 DEF Verknuepft, Konto
  <2>3. g \in Konto /\ g.fehl = benutzer.fehl /\ g.sperre = benutzer.sperre
    BY <2>1, <2>2, GeaenderteSpalten
  <2> HIDE DEF g, alt
  <2>4. /\ benutzer' \in Konto /\ benutzer'.rollen = benutzer.rollen
        /\ benutzer'.fehl = benutzer.fehl /\ benutzer'.sperre = benutzer.sperre
    BY <1>2, <2>1, <2>3 DEF Konto
  <2> QED
    BY <1>1, <1>2, <2>1, <2>4, SpaltenHalten
<1>3. CASE benutzer = None /\ benutzer' = Angelegt
  BY <1>1, <1>3, NeuesKonto, AngelegtesHaelt
<1>4. CASE benutzer # None /\ UNCHANGED benutzer
  <2>1. benutzer \in Konto
    BY <1>4 DEF KontenIInv, KontenTypen
  <2> QED
    BY <1>1, <1>4, <2>1, SpaltenHalten
<1> QED
  BY <1>2, <1>3, <1>4 DEF SsoEndet, BestehendeRollen

LEMMA KontenSchritt == KontenIInv /\ [KontenNext]_kontoVars => KontenIInv'
<1> SUFFICES ASSUME KontenIInv, [KontenNext]_kontoVars
             PROVE  KontenIInv'
  OBVIOUS
<1>1. CASE KontenNext
  <2>1. CASE \E w \in Workers : \/ \E richtig \in BOOLEAN : LoginLesen(w, richtig)
                                \/ \E l \in 1..MaxLinks : ResetLesen(w, l)
    BY <2>1, AnfrageBeginntHaelt
  <2>2. CASE \E w \in Workers : LoginSchreiben(w) \/ ResetSchreiben(w)
    BY <2>2, LoginSchreibenHaelt, ResetSchreibenHaelt
  <2>3. CASE \/ \E w \in Workers : LinkAnfordern(w)
             \/ \E l \in 1..MaxLinks : LinkVerfaellt(l)
    BY <2>3, LinksHalten
  <2>4. CASE \E w \in Workers, t \in Tabs : SsoEndet(w, t)
    BY <2>4, SsoEndetHaelt
  <2>5. CASE \E t \in Tabs : SsoBeginnt(t) \/ SsoScheitert(t)
    BY <2>5, SsoSchritteHalten
  <2>6. CASE SperreEndet \/ KontoAnlegen \/ KontoStilllegen \/ RollenVergeben \/ PasswortVergeben
    BY <2>6, SperreEndetHaelt, VerwaltungHaelt
  <2> QED
    BY <1>1, <2>1, <2>2, <2>3, <2>4, <2>5, <2>6 DEF KontenNext
<1>2. CASE UNCHANGED kontoVars
  BY <1>2 DEF kontoVars, KontenIInv, KontenTypen, AnfragenKennenKonto, LinksUnbenutzt,
              EinKontoWorker, ZaehltRichtig, GelesenesZaehlt
<1> QED
  BY <1>1, <1>2

\* login, the links of ui_password_reset.py and sso_callback: the lock comes after
\* LOGIN_MAX_FAILED wrong passwords and not before, and a link sets one password, for any
\* number of windows, links and attempts; one worker each, but the newest link alone is
\* open whatever the workers do.
THEOREM KontenHalten == KontenSpec => []KontenVersprechen
<1>1. KontenIInv => KontenVersprechen
  <2> SUFFICES ASSUME KontenIInv PROVE KontenVersprechen
    OBVIOUS
  <2>1. DOMAIN linkStand = 1..Len(linkStand) /\ \A l \in 1..Len(linkStand) : linkStand[l] \in LinkStaende
    BY LenProperties, ElementOfSeq DEF KontenIInv, KontenTypen
  <2>2. KontenTypeOK
    BY <2>1 DEF KontenIInv, KontenTypen, KontenTypeOK, LinkStaende
  <2>3. NurDerNeuesteLinkEinmal
    BY <2>1 DEF KontenIInv, LinksUnbenutzt, NurDerNeuesteLinkEinmal
  <2>4. FehlversucheBegrenzt
    BY KontenAssumption DEF KontenIInv, KontenTypen, ZaehltRichtig, FehlversucheBegrenzt
  <2> QED
    BY <2>2, <2>3, <2>4 DEF KontenIInv, KontenVersprechen
<1> QED
  BY KontenAmAnfang, KontenSchritt, <1>1, PTL DEF KontenSpec

-----------------------------------------------------------------------------
(* Citizens *)

IstBericht(b) ==
  /\ DOMAIN b = {"status", "geprueft", "stelle", "marker"}
  /\ b.status \in {"new", "accepted", "rejected"} /\ b.geprueft \in BOOLEAN

Eingereicht(k) == eingabe[k] \notin {None, "sms", "code"}

PortalTypen ==
  /\ links \in Nat /\ (portal = None \/ portal \in 1..links)
  /\ eingabe \in [Eingaben -> {None, "sms", "code", "fehler", "fertig", "verloren"}]
  /\ wartend \in [Workers -> SUBSET Eingaben]
  /\ bericht = [k \in Eingaben |-> bericht[k]]
  /\ \A k \in Eingaben : bericht[k] # None => IstBericht(bericht[k])
  /\ \A t \in annahmen : /\ t.bericht \in Eingaben /\ Eingereicht(t.bericht)
                         /\ IstBericht(bericht[t.bericht])

\* What waits for a code is no report yet, and waits at one worker.
NurWartende ==
  \A k \in Eingaben :
    /\ \A w \in Workers : k \in wartend[w] => eingabe[k] \in {"sms", "code"}
    /\ ~Eingereicht(k) => bericht[k] = None
    /\ \A v, w \in Workers : k \in wartend[v] \cap wartend[w] => v = w
    /\ (eingabe[k] \in {"sms", "code"} /\ k \notin abgelaufen) =>
         \E w \in Workers : k \in wartend[w]

PortalIInv ==
  PortalTypen /\ NurWartende /\ EinBerichtJeEingabe /\ AngenommenesFuehrtWeiter

LEMMA PortalAmAnfang == PortalInit => PortalIInv
BY PortalAssumption
   DEF PortalInit, PortalIInv, PortalTypen, Eingereicht, NurWartende, EinBerichtJeEingabe,
       AngenommenesFuehrtWeiter

LEMMA NeuIstBericht ==
  ASSUME NEW b \in BOOLEAN
  PROVE  IstBericht(NeuerBericht(b)) /\ NeuerBericht(b).status = "new"
<1>1. /\ DOMAIN NeuerBericht(b) = {"status", "geprueft", "stelle", "marker"}
      /\ NeuerBericht(b).status = "new"
  BY DEF NeuerBericht
<1>2. NeuerBericht(b).geprueft = b
  BY DEF NeuerBericht
<1> QED
  BY <1>1, <1>2 DEF IstBericht

\* The link, the incident, the gateway and the clock touch no report.
LEMMA UmfeldHaelt ==
  ASSUME PortalIInv,
         TokenErzeugen \/ LageWechseln \/ GatewayWechselt \/ \E k \in Eingaben : ZehnMinuten(k)
  PROVE  PortalIInv'
<1> USE DEF PortalIInv
<1>1. /\ UNCHANGED <<eingabe, wartend, bericht, annahmen, stellen, mehrfach>>
      /\ abgelaufen \subseteq abgelaufen'
  BY DEF TokenErzeugen, LageWechseln, GatewayWechselt, ZehnMinuten
<1>2. links' \in Nat /\ (portal' = None \/ portal' \in 1..links')
  BY DEF PortalTypen, Eingereicht, TokenErzeugen, LageWechseln, GatewayWechselt, ZehnMinuten
<1>3. PortalTypen'
  BY <1>1, <1>2 DEF PortalTypen, Eingereicht
<1>4. NurWartende'
  BY <1>1 DEF NurWartende, Eingereicht
<1>5. EinBerichtJeEingabe' /\ AngenommenesFuehrtWeiter'
  BY <1>1 DEF EinBerichtJeEingabe, AngenommenesFuehrtWeiter
<1> QED
  BY <1>3, <1>4, <1>5

LEMMA SubmitHaelt ==
  ASSUME PortalIInv, NEW w \in Workers, NEW k \in Eingaben, BuergerSubmit(w, k)
  PROVE  PortalIInv'
<1> USE DEF PortalIInv
<1>1. /\ eingabe[k] = None /\ bericht[k] = None
      /\ \A v \in Workers : k \notin wartend[v]
      /\ UNCHANGED <<portal, links, abgelaufen, annahmen, stellen>>
  BY PortalAssumption DEF BuergerSubmit, NurWartende, Eingereicht
<1>2. CASE /\ wartend' = [wartend EXCEPT ![w] = OhneAbgelaufene(w) \cup {k}]
           /\ eingabe' = [eingabe EXCEPT ![k] = "sms"]
           /\ UNCHANGED <<bericht, mehrfach>>
  <2>1. PortalTypen'
    BY <1>1, <1>2 DEF PortalTypen, Eingereicht, OhneAbgelaufene
  <2>2. NurWartende'
    BY <1>1, <1>2 DEF PortalTypen, Eingereicht, NurWartende, OhneAbgelaufene
  <2>3. EinBerichtJeEingabe' /\ AngenommenesFuehrtWeiter'
    BY <1>1, <1>2 DEF EinBerichtJeEingabe, AngenommenesFuehrtWeiter
  <2> QED
    BY <2>1, <2>2, <2>3
<1>3. CASE /\ bericht' = [bericht EXCEPT ![k] = NeuerBericht(FALSE)]
           /\ mehrfach' = IF bericht[k] = None THEN mehrfach ELSE mehrfach \cup {k}
           /\ eingabe' = [eingabe EXCEPT ![k] = "fertig"]
           /\ UNCHANGED wartend
  <2>1. IstBericht(NeuerBericht(FALSE)) /\ NeuerBericht(FALSE).status = "new"
    BY NeuIstBericht
  <2>2. PortalTypen'
    BY <1>1, <1>3, <2>1 DEF PortalTypen, Eingereicht
  <2>3. NurWartende'
    BY <1>1, <1>3, PortalAssumption DEF PortalTypen, Eingereicht, NurWartende
  <2>4. EinBerichtJeEingabe' /\ AngenommenesFuehrtWeiter'
    BY <1>1, <1>3, <2>1 DEF PortalTypen, Eingereicht, EinBerichtJeEingabe, AngenommenesFuehrtWeiter
  <2> QED
    BY <2>2, <2>3, <2>4
<1> QED
  BY <1>2, <1>3 DEF BuergerSubmit

LEMMA SmsErgebnisHaelt ==
  ASSUME PortalIInv, NEW k \in Eingaben, SmsErgebnis(k)
  PROVE  PortalIInv'
<1> USE DEF PortalIInv, SmsErgebnis
<1>1. PortalTypen'
  BY DEF PortalTypen, Eingereicht
<1>2. NurWartende'
  BY PortalAssumption DEF PortalTypen, Eingereicht, NurWartende
<1>3. EinBerichtJeEingabe' /\ AngenommenesFuehrtWeiter'
  BY DEF EinBerichtJeEingabe, AngenommenesFuehrtWeiter
<1> QED
  BY <1>1, <1>2, <1>3

\* The code is taken out where it waits, and waits nowhere else.
LEMMA VerifyHaelt ==
  ASSUME PortalIInv, NEW w \in Workers, NEW k \in Eingaben, BuergerVerify(w, k)
  PROVE  PortalIInv'
<1> USE DEF PortalIInv
<1>1. /\ k \in wartend[w] /\ bericht[k] = None /\ ~Eingereicht(k)
      /\ \A v \in Workers \ {w} : k \notin wartend[v]
      /\ wartend' = [wartend EXCEPT ![w] = wartend[w] \ {k}]
      /\ bericht' = [bericht EXCEPT ![k] = NeuerBericht(TRUE)]
      /\ mehrfach' = mehrfach
      /\ eingabe' = [eingabe EXCEPT ![k] = "fertig"]
      /\ UNCHANGED <<portal, links, abgelaufen, annahmen, stellen>>
  BY DEF BuergerVerify, NurWartende, Eingereicht, Ausgetragen
<1>2. IstBericht(NeuerBericht(TRUE)) /\ NeuerBericht(TRUE).status = "new"
  BY NeuIstBericht
<1>3. PortalTypen'
  BY <1>1, <1>2 DEF PortalTypen, Eingereicht
<1>4. NurWartende'
  <2>1. /\ eingabe'[k] = "fertig" /\ \A v \in Workers : k \notin wartend'[v]
        /\ Eingereicht(k)'
    BY <1>1, PortalAssumption DEF PortalTypen, Eingereicht
  <2>2. ASSUME NEW x \in Eingaben \ {k}
        PROVE  /\ eingabe'[x] = eingabe[x] /\ bericht'[x] = bericht[x]
               /\ \A v \in Workers : x \in wartend'[v] <=> x \in wartend[v]
    BY <1>1 DEF PortalTypen
  <2>3. \A x \in Eingaben \ {k} : Eingereicht(x)' <=> Eingereicht(x)
    BY <2>2 DEF Eingereicht
  <2>4. ASSUME NEW x \in Eingaben \ {k}
        PROVE  /\ \A v \in Workers : x \in wartend'[v] => eingabe'[x] \in {"sms", "code"}
               /\ ~Eingereicht(x)' => bericht'[x] = None
               /\ \A v, u \in Workers : x \in wartend'[v] \cap wartend'[u] => v = u
               /\ (eingabe'[x] \in {"sms", "code"} /\ x \notin abgelaufen') =>
                    \E v \in Workers : x \in wartend'[v]
    BY <1>1, <2>2, <2>3 DEF NurWartende
  <2>5. eingabe'[k] \notin {"sms", "code"}
    BY <2>1
  <2> QED
    BY <2>1, <2>4, <2>5 DEF NurWartende
<1>5. EinBerichtJeEingabe' /\ AngenommenesFuehrtWeiter'
  BY <1>1, <1>2 DEF PortalTypen, Eingereicht, EinBerichtJeEingabe, AngenommenesFuehrtWeiter
<1> QED
  BY <1>3, <1>4, <1>5

LEMMA PortalNeustartHaelt ==
  ASSUME PortalIInv, NEW w \in Workers, PortalNeustart(w)
  PROVE  PortalIInv'
<1> USE DEF PortalIInv, PortalNeustart
<1>1. PortalTypen'
  BY DEF PortalTypen, Eingereicht
<1>2. NurWartende'
  BY PortalAssumption DEF PortalTypen, Eingereicht, NurWartende
<1>3. EinBerichtJeEingabe' /\ AngenommenesFuehrtWeiter'
  BY DEF EinBerichtJeEingabe, AngenommenesFuehrtWeiter
<1> QED
  BY <1>1, <1>2, <1>3

LEMMA AnnehmenBeginntHaelt ==
  ASSUME PortalIInv, NEW w \in Workers, NEW k \in Eingaben, AnnehmenBeginnen(w, k)
  PROVE  PortalIInv'
<1> USE DEF PortalIInv, AnnehmenBeginnen
<1>1. PortalTypen'
  <2>1. Eingereicht(k) /\ IstBericht(bericht[k])
    BY DEF PortalTypen, NurWartende
  <2>2. \A t \in annahmen' : t \in annahmen \/ t.bericht = k
    OBVIOUS
  <2> QED
    BY <2>1, <2>2 DEF PortalTypen, Eingereicht
<1>2. NurWartende'
  BY DEF NurWartende, Eingereicht
<1>3. EinBerichtJeEingabe' /\ AngenommenesFuehrtWeiter'
  BY DEF EinBerichtJeEingabe, AngenommenesFuehrtWeiter
<1> QED
  BY <1>1, <1>2, <1>3

\* A report is changed: what it is marked with leads to a site that is there or to a
\* marker, and it stays a report.
LEMMA BerichtGeaendert ==
  ASSUME PortalIInv, NEW k \in Eingaben, NEW b, IstBericht(b), Eingereicht(k),
         bericht' = [bericht EXCEPT ![k] = b],
         stellen \subseteq stellen', annahmen' \subseteq annahmen,
         b.status = "accepted" =>
           b.marker \/ \E s \in stellen' : s.nr = b.stelle /\ s.bericht = k,
         UNCHANGED <<portal, links, eingabe, wartend, abgelaufen, mehrfach>>
  PROVE  PortalIInv'
<1> USE DEF PortalIInv
<1>1. bericht'[k] = b /\ \A x \in Eingaben \ {k} : bericht'[x] = bericht[x]
  BY DEF PortalTypen, Eingereicht
<1>2. PortalTypen'
  BY <1>1 DEF PortalTypen, Eingereicht
<1>3. NurWartende'
  BY <1>1 DEF NurWartende, Eingereicht
<1>4. EinBerichtJeEingabe'
  BY DEF EinBerichtJeEingabe
<1>5. AngenommenesFuehrtWeiter'
  BY <1>1 DEF AngenommenesFuehrtWeiter
<1> QED
  BY <1>2, <1>3, <1>4, <1>5

LEMMA PersonalHaelt ==
  ASSUME PortalIInv, NEW k \in Eingaben, MeldungAblehnen(k) \/ MeldungAlsLageinfo(k)
  PROVE  PortalIInv'
<1> DEFINE a == [bericht[k] EXCEPT !.status = "rejected"]
           c == [bericht[k] EXCEPT !.status = "accepted"]
           d == [c EXCEPT !.marker = TRUE]
<1>1. Eingereicht(k) /\ IstBericht(bericht[k]) /\ bericht = [x \in Eingaben |-> bericht[x]]
  BY DEF MeldungAblehnen, MeldungAlsLageinfo, PortalIInv, PortalTypen, Eingereicht, NurWartende
<1>2. UNCHANGED <<portal, links, eingabe, wartend, abgelaufen, annahmen, stellen, mehrfach>>
  BY DEF MeldungAblehnen, MeldungAlsLageinfo
<1>3. CASE MeldungAblehnen(k)
  <2>1. bericht' = [bericht EXCEPT ![k] = a]
    BY <1>3 DEF MeldungAblehnen
  <2>2. IstBericht(a) /\ a.status = "rejected"
    BY <1>1 DEF IstBericht
  <2> HIDE DEF a
  <2> QED
    BY <1>1, <1>2, <2>1, <2>2, BerichtGeaendert
<1>4. CASE MeldungAlsLageinfo(k)
  <2>1. bericht' = [bericht EXCEPT ![k] = d]
    BY <1>1, <1>4 DEF MeldungAlsLageinfo
  <2>2. IstBericht(c)
    BY <1>1 DEF IstBericht
  <2>3. IstBericht(d) /\ d.marker = TRUE
    <3> HIDE DEF c
    <3> QED
      BY <2>2 DEF IstBericht
  <2> HIDE DEF d
  <2> QED
    BY <1>1, <1>2, <2>1, <2>3, BerichtGeaendert
<1> QED
  BY <1>3, <1>4

\* Whatever happened to the report meanwhile, the site is there that the status, if it
\* says accepted, leads to.
LEMMA AnnehmenEndetHaelt ==
  ASSUME PortalIInv, NEW t \in annahmen, AnnehmenEndet(t)
  PROVE  PortalIInv'
<1> DEFINE k == t.bericht
           c == [bericht[k] EXCEPT !.stelle = t.nr]
           d == [c EXCEPT !.status = IF t.status = "accepted" THEN c.status ELSE "accepted"]
<1>1. k \in Eingaben /\ Eingereicht(k) /\ IstBericht(bericht[k]) /\ bericht = [x \in Eingaben |-> bericht[x]]
  BY DEF PortalIInv, PortalTypen, Eingereicht
<1>2. /\ annahmen' = annahmen \ {t}
      /\ UNCHANGED <<portal, links, eingabe, wartend, abgelaufen, mehrfach>>
  BY DEF AnnehmenEndet
<1>3. CASE bericht' = bericht /\ stellen' = stellen
  <2>1. PortalTypen' /\ NurWartende'
    BY <1>2, <1>3 DEF PortalIInv, PortalTypen, Eingereicht, NurWartende
  <2>2. EinBerichtJeEingabe' /\ AngenommenesFuehrtWeiter'
    BY <1>2, <1>3 DEF PortalIInv, EinBerichtJeEingabe, AngenommenesFuehrtWeiter
  <2> QED
    BY <2>1, <2>2 DEF PortalIInv
<1>4. CASE /\ stellen' = stellen \cup {[nr |-> t.nr, bericht |-> k]}
           /\ bericht' = [bericht EXCEPT
                ![k].stelle = t.nr,
                ![k].status = IF t.status = "accepted" THEN @ ELSE "accepted"]
  <2>1. bericht' = [bericht EXCEPT ![k] = d]
    BY <1>1, <1>4
  <2>2. IstBericht(c) /\ c.stelle = t.nr
    BY <1>1 DEF IstBericht
  <2>3. IstBericht(d) /\ d.stelle = t.nr
    <3> HIDE DEF c, k
    <3> QED
      BY <2>2 DEF IstBericht
  <2>4. \E s \in stellen' : s.nr = d.stelle /\ s.bericht = k
    <3> DEFINE n == [nr |-> t.nr, bericht |-> k]
    <3>1. n \in stellen' /\ n.nr = t.nr /\ n.bericht = k
      BY <1>4
    <3> HIDE DEF c, d, k, n
    <3> QED
      BY <2>3, <3>1
  <2> HIDE DEF d, k
  <2> QED
    BY <1>1, <1>2, <1>4, <2>1, <2>3, <2>4, BerichtGeaendert
<1> QED
  BY <1>3, <1>4 DEF AnnehmenEndet, Zurueckgerollt

LEMMA PortalSchritt == PortalIInv /\ [PortalNext]_portalVars => PortalIInv'
<1> SUFFICES ASSUME PortalIInv, [PortalNext]_portalVars
             PROVE  PortalIInv'
  OBVIOUS
<1>1. CASE PortalNext
  <2>1. CASE \E k \in Eingaben, w \in Workers :
               BuergerSubmit(w, k) \/ BuergerVerify(w, k) \/ AnnehmenBeginnen(w, k)
    <3>1. PICK k \in Eingaben, w \in Workers :
            BuergerSubmit(w, k) \/ BuergerVerify(w, k) \/ AnnehmenBeginnen(w, k)
      BY <2>1
    <3> QED
      BY <3>1, SubmitHaelt, VerifyHaelt, AnnehmenBeginntHaelt
  <2>2. CASE \E k \in Eingaben : SmsErgebnis(k) \/ MeldungAblehnen(k) \/ MeldungAlsLageinfo(k)
    BY <2>2, SmsErgebnisHaelt, PersonalHaelt
  <2>3. CASE \E w \in Workers : PortalNeustart(w)
    BY <2>3, PortalNeustartHaelt
  <2>4. CASE \E t \in annahmen : AnnehmenEndet(t)
    BY <2>4, AnnehmenEndetHaelt
  <2>5. CASE \/ TokenErzeugen \/ LageWechseln \/ GatewayWechselt
             \/ \E k \in Eingaben : ZehnMinuten(k)
    BY <2>5, UmfeldHaelt
  <2> QED
    BY <1>1, <2>1, <2>2, <2>3, <2>4, <2>5 DEF PortalNext
<1>2. CASE UNCHANGED portalVars
  BY <1>2 DEF portalVars, PortalIInv, PortalTypen, Eingereicht, NurWartende, EinBerichtJeEingabe,
              AngenommenesFuehrtWeiter
<1> QED
  BY <1>1, <1>2

\* buerger_submit, buerger_verify_post and meldung_annehmen: no submission becomes two
\* reports, no accepted report leads nowhere, and nobody's ten minutes are cut short, for
\* any number of workers, submissions and clicks.
THEOREM PortalHaelt == PortalSpec => []PortalVersprechen
<1>1. PortalIInv => PortalVersprechen
  BY DEF PortalIInv, PortalTypen, Eingereicht, IstBericht, NurWartende, PortalVersprechen, PortalTypeOK,
         FristWirdGewaehrt
<1> QED
  BY PortalAmAnfang, PortalSchritt, <1>1, PTL DEF PortalSpec

-----------------------------------------------------------------------------
(* Loans *)

VPassZeilen == [rest : SUBSET Ausleihen, sms : Ausleihen \cup {None}]

VerleihTypen ==
  /\ vUmfang \in VerleihUmfaenge /\ vWorker = vUmfang.worker
  /\ ausleihe \in [Ausleihen -> AusleiheZeilen \cup {None}]
  /\ position \in [Positionen -> PositionZeilen \cup {None}]
  /\ frei \in [Artikel -> BOOLEAN] /\ menge \in [Artikel -> BOOLEAN]
  /\ anfrage \in [Workers -> LeihAnfragen \cup {None}]
  /\ vPass \in [Workers -> VPassZeilen]
  /\ ursachen \subseteq Artikel /\ vUeberholt \subseteq Ausleihen
  /\ gesendet \in [Ausleihen -> Nat] /\ stoerungen \in Nat

\* A loan has positions, a position a loan.
Bezogen ==
  /\ \A a \in Ausleihen : ausleihe[a] # None => VonAusleihe(position, a) # {}
  /\ \A p \in Positionen : position[p] # None => ausleihe[position[p].ausleihe] # None

\* What a request has read is still there, perhaps returned meanwhile.
AnfragePasst(w) ==
  anfrage[w] # None =>
    /\ anfrage[w].art # "neu" =>
         anfrage[w].ausleihe \in Ausleihen /\ ausleihe[anfrage[w].ausleihe] # None
    /\ anfrage[w].P \subseteq VonAusleihe(anfrage[w].pos, anfrage[w].ausleihe)
    /\ \A p \in Positionen : anfrage[w].pos[p] # None =>
         /\ position[p] # None /\ position[p].ausleihe = anfrage[w].pos[p].ausleihe
         /\ position[p].artikel = anfrage[w].pos[p].artikel

Grundlage == VerleihTypen /\ Bezogen /\ \A w \in Workers : AnfragePasst(w)

\* Articles lent twice or by number are among those whose availability was overruled.
UrsachenGenannt ==
  /\ \A g \in Artikel : menge[g] => g \in ursachen
  /\ \A w \in Workers : anfrage[w] # None =>
       \A g \in Artikel : anfrage[w].menge[g] => g \in ursachen
  /\ \A p, q \in Positionen :
       /\ p # q /\ Offen(p) /\ Offen(q) /\ position[p].artikel = position[q].artikel
       /\ position[p].artikel # None
       => position[p].artikel \in ursachen

Verfuegbarkeit == UrsachenGenannt /\ OffenSolangeEtwasFehlt /\ VerfuegbaresIstDa

\* The workers whose pass will come to a loan, and those whose SMS to it is on the way.
VorSich(a) == {w \in Workers : a \in vPass[w].rest}
Unterwegs(a) == {w \in Workers : vPass[w].sms = a}

\* What a pass works on is there, and the SMS on the way is not sent again by it.
PassGut(w) ==
  /\ vPass[w].sms \notin vPass[w].rest
  /\ w \notin vWorker => vPass[w] = Ruhend
  /\ \A a \in Ausleihen : a \in vPass[w].rest \/ vPass[w].sms = a => ausleihe[a] # None

\* As long as a loan is not marked, each SMS it got is on the way or was lost to the mark
\* by a restart; the passes that will come to it are those of other workers.
ErinnertAn(a) ==
  /\ ausleihe[a] = None \/ a \notin SmsGeht => gesendet[a] = 0
  /\ ausleihe[a] # None =>
       (~ausleihe[a].gesendet => gesendet[a] <= Cardinality(Unterwegs(a)) + stoerungen)
  /\ gesendet[a] + Cardinality(VorSich(a)) <= Cardinality(vWorker) + stoerungen

Erinnert == (\A w \in Workers : PassGut(w)) /\ \A a \in Ausleihen : ErinnertAn(a)

\* The inductive invariant.
VerleihIInv == Grundlage /\ Verfuegbarkeit /\ Erinnert

-----------------------------------------------------------------------------
(* The operators of loans *)

LEMMA EingetragenGut ==
  ASSUME NEW P, NEW f, NEW a, position' = Eingetragen(P, f, a), VerleihTypen,
         P \subseteq Positionen, f \in [P -> Artikel \cup {None}], a \in Ausleihen
  PROVE  /\ position' \in [Positionen -> PositionZeilen \cup {None}]
         /\ \A p \in P : /\ position'[p] # None /\ position'[p].ausleihe = a
                         /\ position'[p].artikel = f[p] /\ position'[p].offen = TRUE
         /\ \A p \in Positionen \ P : position'[p] = position[p]
<1> DEFINE zeile(p) == [ausleihe |-> a, artikel |-> f[p], offen |-> TRUE]
<1>1. \A p \in P : /\ zeile(p) \in PositionZeilen /\ zeile(p).ausleihe = a
                   /\ zeile(p).artikel = f[p] /\ zeile(p).offen = TRUE
  BY DEF PositionZeilen
<1>2. position' = [p \in Positionen |-> IF p \in P THEN zeile(p) ELSE position[p]] BY DEF Eingetragen
<1> HIDE DEF zeile
<1>3. \A p \in P : zeile(p) # None BY <1>1, VerleihAssumption
<1> QED BY <1>1, <1>2, <1>3 DEF VerleihTypen

LEMMA ZurueckGut ==
  ASSUME VerleihTypen, NEW P \in SUBSET Positionen, \A p \in P : position[p] # None,
         position' = Zurueck(P)
  PROVE  /\ position' \in [Positionen -> PositionZeilen \cup {None}]
         /\ \A p \in P : /\ position'[p] # None /\ position'[p].ausleihe = position[p].ausleihe
                         /\ position'[p].artikel = position[p].artikel /\ position'[p].offen = FALSE
         /\ \A p \in Positionen \ P : position'[p] = position[p]
<1> DEFINE zeile(p) == [position[p] EXCEPT !.offen = FALSE]
<1>1. \A p \in P : position[p] \in PositionZeilen BY DEF VerleihTypen
<1>2. \A p \in P : /\ zeile(p) \in PositionZeilen /\ zeile(p).ausleihe = position[p].ausleihe
                   /\ zeile(p).artikel = position[p].artikel /\ zeile(p).offen = FALSE
  BY <1>1 DEF PositionZeilen
<1>3. position' = [p \in Positionen |-> IF p \in P THEN zeile(p) ELSE position[p]] BY DEF Zurueck
<1> HIDE DEF zeile
<1>4. \A p \in P : zeile(p) # None BY <1>2, VerleihAssumption
<1> QED BY <1>2, <1>3, <1>4 DEF VerleihTypen

LEMMA ZweiSindDoppelt ==
  ASSUME NEW pos, NEW p \in Positionen, NEW q \in Positionen, p # q, pos[p] # None, pos[q] # None,
         pos[p].offen, pos[q].offen, NEW g \in Artikel, pos[p].artikel = g, pos[q].artikel = g
  PROVE  g \in Doppelte(pos)
<1> DEFINE S == {x \in Positionen : pos[x] # None /\ pos[x].offen /\ pos[x].artikel = g}
<1>1. IsFiniteSet(S) BY VerleihAssumption, FS_Subset
<1>2. {p} \cup {q} \subseteq S OBVIOUS
<1> HIDE DEF S
<1>3. IsFiniteSet({p}) /\ Cardinality({p}) = 1 /\ q \notin {p} BY FS_Singleton
<1>4. Cardinality({p} \cup {q}) = 2 BY <1>3, FS_AddElement
<1>5. Cardinality({p} \cup {q}) <= Cardinality(S) /\ Cardinality(S) \in Nat
  BY <1>1, <1>2, FS_Subset, FS_CardinalityType
<1>6. Cardinality(S) > 1 BY <1>4, <1>5
<1> QED BY <1>6 DEF S, Doppelte

LEMMA VArbeiter ==
  ASSUME VerleihTypen
  PROVE  /\ vWorker \subseteq Workers /\ IsFiniteSet(vWorker) /\ Cardinality(vWorker) \in Nat
         /\ vUmfang.ausleihen \subseteq Ausleihen /\ vUmfang.artikel \subseteq Artikel \cup {None}
         /\ vUmfang.sms \subseteq BOOLEAN
         /\ Unbenutzt \subseteq Positionen
<1>1. /\ vUmfang.worker \subseteq Workers /\ vUmfang.ausleihen \subseteq Ausleihen
      /\ vUmfang.artikel \subseteq Artikel \cup {None} /\ vUmfang.sms \subseteq BOOLEAN
      /\ 1..vUmfang.positionen \subseteq Positionen /\ IsFiniteSet(Workers)
  BY VerleihAssumption DEF VerleihTypen
<1>2. vWorker \subseteq Workers BY <1>1 DEF VerleihTypen
<1>3. IsFiniteSet(vWorker) BY <1>1, <1>2, FS_Subset
<1>4. Unbenutzt \subseteq Positionen BY <1>1 DEF Unbenutzt
<1> QED BY <1>1, <1>2, <1>3, <1>4, FS_CardinalityType

-----------------------------------------------------------------------------
(* Loans, positions and open requests *)

AusleihenBleiben ==
  \A a \in Ausleihen : ausleihe[a] # None => ausleihe'[a] # None

\* Requests end, or stay as they are.
NurBeendet == \A w \in Workers : anfrage'[w] = anfrage[w] \/ anfrage'[w] = None

\* Positions keep their loan and article; loans stay.
LEMMA AnfragenPassen ==
  ASSUME Grundlage, AusleihenBleiben, NurBeendet,
         \A p \in Positionen : position[p] # None =>
           /\ position'[p] # None /\ position'[p].ausleihe = position[p].ausleihe
           /\ position'[p].artikel = position[p].artikel
  PROVE  \A w \in Workers : AnfragePasst(w)'
<1> SUFFICES ASSUME NEW w \in Workers, anfrage'[w] # None PROVE AnfragePasst(w)'
  BY DEF AnfragePasst
<1>1. anfrage'[w] = anfrage[w] /\ anfrage[w] # None BY DEF NurBeendet
<1>2. AnfragePasst(w) BY DEF Grundlage
<1>3. anfrage[w].art # "neu" =>
        anfrage[w].ausleihe \in Ausleihen /\ ausleihe'[anfrage[w].ausleihe] # None
  BY <1>1, <1>2 DEF AnfragePasst, AusleihenBleiben
<1>4. \A p \in Positionen : anfrage[w].pos[p] # None =>
        /\ position'[p] # None /\ position'[p].ausleihe = anfrage[w].pos[p].ausleihe
        /\ position'[p].artikel = anfrage[w].pos[p].artikel
  BY <1>1, <1>2 DEF AnfragePasst
<1> QED BY <1>1, <1>2, <1>3, <1>4 DEF AnfragePasst, VonAusleihe

\* Positions P that were None are entered for a.
Eintragung(P, a) ==
  /\ ausleihe'[a] # None /\ AusleihenBleiben /\ NurBeendet
  /\ \A b \in Ausleihen \ {a} : ausleihe'[b] # None => ausleihe[b] # None
  /\ P # {}
  /\ \A p \in P : position[p] = None /\ position'[p] # None /\ position'[p].ausleihe = a
  /\ \A p \in Positionen \ P : position'[p] = position[p]

LEMMA BezugNachEintrag ==
  ASSUME NEW P, NEW a, Eintragung(P, a), P \subseteq Positionen, a \in Ausleihen, Grundlage
  PROVE  Bezogen' /\ \A w \in Workers : AnfragePasst(w)'
<1>1. \A p \in Positionen : position[p] # None => position[p].ausleihe \in Ausleihen
  BY DEF Grundlage, VerleihTypen, PositionZeilen
<1>2. \A b \in Ausleihen : VonAusleihe(position, b) \subseteq VonAusleihe(position', b)
  BY DEF Eintragung, VonAusleihe
<1>3. P \subseteq VonAusleihe(position', a) BY DEF Eintragung, VonAusleihe
<1>4. Bezogen'
  <2>1. \A b \in Ausleihen : ausleihe'[b] # None => VonAusleihe(position', b) # {}
    BY <1>2, <1>3 DEF Grundlage, Bezogen, Eintragung
  <2>2. \A p \in Positionen : position'[p] # None => ausleihe'[position'[p].ausleihe] # None
    BY <1>1 DEF Grundlage, Bezogen, Eintragung, AusleihenBleiben
  <2> QED BY <2>1, <2>2 DEF Bezogen, VonAusleihe
<1>5. \A p \in Positionen : position[p] # None => position'[p] = position[p]
  BY DEF Eintragung
<1>6. \A w \in Workers : AnfragePasst(w)' BY <1>5, AnfragenPassen DEF Eintragung
<1> QED BY <1>4, <1>6

\* Positions keep their loan and article; requests may end.
LEMMA BezugNachRueckgabe ==
  ASSUME Grundlage, NurBeendet,
         \A b \in Ausleihen : ausleihe'[b] # None <=> ausleihe[b] # None,
         \A p \in Positionen : /\ position'[p] # None <=> position[p] # None
                               /\ position[p] # None =>
                                    /\ position'[p].ausleihe = position[p].ausleihe
                                    /\ position'[p].artikel = position[p].artikel
  PROVE  Bezogen' /\ \A w \in Workers : AnfragePasst(w)'
<1>1. \A p \in Positionen : position[p] # None => position[p].ausleihe \in Ausleihen
  BY DEF Grundlage, VerleihTypen, PositionZeilen
<1>2. \A b \in Ausleihen : VonAusleihe(position', b) = VonAusleihe(position, b)
  BY DEF VonAusleihe
<1>3. Bezogen'
  <2>1. \A b \in Ausleihen : ausleihe'[b] # None => VonAusleihe(position', b) # {}
    BY <1>2 DEF Grundlage, Bezogen
  <2>2. \A p \in Positionen : position'[p] # None => ausleihe'[position'[p].ausleihe] # None
    BY <1>1 DEF Grundlage, Bezogen
  <2> QED BY <2>1, <2>2 DEF Bezogen, VonAusleihe
<1>4. AusleihenBleiben BY DEF AusleihenBleiben
<1>5. \A w \in Workers : AnfragePasst(w)' BY <1>4, AnfragenPassen
<1> QED BY <1>3, <1>5

\* A loan that is not overtaken is as the request has read it.
LEMMA GelesenGilt ==
  ASSUME Grundlage, NEW w \in Workers, anfrage[w] # None, NEW a \in Ausleihen,
         a = anfrage[w].ausleihe, a \notin Ueberholte(anfrage[w])
  PROVE  /\ ausleihe[a].offen = anfrage[w].offen
         /\ VonAusleihe(anfrage[w].pos, a) = VonAusleihe(position, a)
         /\ \A p \in VonAusleihe(position, a) : position[p] = anfrage[w].pos[p]
<1>1. /\ ausleihe[a].offen = anfrage[w].offen
      /\ \A p \in VonAusleihe(position, a) : position[p] = anfrage[w].pos[p]
  BY DEF Ueberholte
<1>2. AnfragePasst(w) BY DEF Grundlage
<1> QED BY <1>1, <1>2 DEF AnfragePasst, VonAusleihe

-----------------------------------------------------------------------------
(* Reminders *)

LEMMA Zaehlbar ==
  ASSUME NEW a
  PROVE  /\ IsFiniteSet(VorSich(a)) /\ Cardinality(VorSich(a)) \in Nat
         /\ IsFiniteSet(Unterwegs(a)) /\ Cardinality(Unterwegs(a)) \in Nat
         /\ IsFiniteSet(VorSich(a)') /\ Cardinality(VorSich(a)') \in Nat
         /\ IsFiniteSet(Unterwegs(a)') /\ Cardinality(Unterwegs(a)') \in Nat
<1>1. IsFiniteSet(Workers) BY VerleihAssumption
<1>2. /\ VorSich(a) \in SUBSET Workers /\ Unterwegs(a) \in SUBSET Workers
      /\ VorSich(a)' \in SUBSET Workers /\ Unterwegs(a)' \in SUBSET Workers
  BY DEF VorSich, Unterwegs
<1> QED BY <1>1, <1>2, FS_Subset, FS_CardinalityType

\* Steps that leave the passes alone.
LEMMA ErinnertBleibt ==
  ASSUME Grundlage, Erinnert, vWorker' = vWorker, vPass' = vPass, gesendet' = gesendet,
         stoerungen' \in Nat, stoerungen <= stoerungen', AusleihenBleiben,
         \A a \in Ausleihen :
           ausleihe[a] # None => (~ausleihe'[a].gesendet => ~ausleihe[a].gesendet)
  PROVE  Erinnert'
<1>1. \A w \in Workers : PassGut(w)' BY DEF Erinnert, PassGut, AusleihenBleiben
<1>2. ASSUME NEW a \in Ausleihen PROVE ErinnertAn(a)'
  <2>1. VorSich(a)' = VorSich(a) /\ Unterwegs(a)' = Unterwegs(a) BY DEF VorSich, Unterwegs
  <2>2. /\ Cardinality(VorSich(a)) \in Nat /\ Cardinality(Unterwegs(a)) \in Nat
        /\ Cardinality(vWorker) \in Nat /\ gesendet[a] \in Nat /\ stoerungen \in Nat
    BY Zaehlbar, VArbeiter DEF Grundlage, VerleihTypen
  <2>3. ErinnertAn(a) BY DEF Erinnert
  <2>4. ausleihe'[a] = None => ausleihe[a] = None BY DEF AusleihenBleiben
  <2>5. ausleihe'[a] # None => (~ausleihe'[a].gesendet =>
          gesendet[a] <= Cardinality(Unterwegs(a)) + stoerungen')
    <3>1. CASE ausleihe[a] = None BY <3>1, <2>2, <2>3 DEF ErinnertAn
    <3>2. CASE ausleihe[a] # None BY <3>2, <2>2, <2>3 DEF ErinnertAn
    <3> QED BY <3>1, <3>2
  <2>6. gesendet[a] + Cardinality(VorSich(a)) <= Cardinality(vWorker) + stoerungen'
    BY <2>2, <2>3 DEF ErinnertAn
  <2>7. ausleihe'[a] = None \/ a \notin SmsGeht => gesendet[a] = 0 BY <2>3, <2>4 DEF ErinnertAn
  <2> QED BY <2>1, <2>5, <2>6, <2>7 DEF ErinnertAn
<1> QED BY <1>1, <1>2 DEF Erinnert

\* A step of one pass, loan by loan.
LEMMA PassSchritt ==
  ASSUME Grundlage, Erinnert, NEW w \in Workers, NEW p \in VPassZeilen,
         vPass' = [vPass EXCEPT ![w] = p], vWorker' = vWorker,
         w \in vWorker \/ p = Ruhend, p.sms \notin p.rest, AusleihenBleiben,
         \A a \in Ausleihen : a \in p.rest \/ p.sms = a => ausleihe'[a] # None
  PROVE  /\ \A x \in Workers : PassGut(x)'
         /\ \A a \in Ausleihen :
              /\ VorSich(a)' = IF a \in p.rest THEN VorSich(a) \cup {w} ELSE VorSich(a) \ {w}
              /\ Unterwegs(a)' = IF p.sms = a THEN Unterwegs(a) \cup {w} ELSE Unterwegs(a) \ {w}
<1>1. vPass'[w] = p /\ \A x \in Workers \ {w} : vPass'[x] = vPass[x]
  BY DEF Grundlage, VerleihTypen
<1>2. \A x \in Workers \ {w} : PassGut(x)' BY <1>1 DEF Erinnert, PassGut, AusleihenBleiben
<1>3. PassGut(w)' BY <1>1 DEF PassGut
<1>4. ASSUME NEW a \in Ausleihen
      PROVE  /\ VorSich(a)' = IF a \in p.rest THEN VorSich(a) \cup {w} ELSE VorSich(a) \ {w}
             /\ Unterwegs(a)' = IF p.sms = a THEN Unterwegs(a) \cup {w} ELSE Unterwegs(a) \ {w}
  BY <1>1 DEF VorSich, Unterwegs
<1> QED BY <1>2, <1>3, <1>4

LEMMA PassLesenErinnert ==
  ASSUME Grundlage, Erinnert, NEW w \in Workers, PassLesen(w)
  PROVE  Erinnert' /\ vPass' \in [Workers -> VPassZeilen]
<1> DEFINE p == [rest |-> Saeumige, sms |-> None]
<1>1. vPass[w] = Ruhend /\ w \in vWorker BY DEF PassLesen
<1>2. p \in VPassZeilen /\ p.rest = Saeumige /\ p.sms = None BY DEF VPassZeilen, Saeumige
<1>3. vPass' = [vPass EXCEPT ![w] = p]
  <2>1. vPass' = [vPass EXCEPT ![w] = [vPass[w] EXCEPT !.rest = Saeumige]]
    BY DEF PassLesen, Grundlage, VerleihTypen
  <2>2. [Ruhend EXCEPT !.rest = Saeumige] = p BY DEF Ruhend
  <2> QED BY <1>1, <2>1, <2>2
<1> HIDE DEF p
<1>4. None \notin Ausleihen BY VerleihAssumption
<1>5. p.sms \notin p.rest BY <1>2, <1>4 DEF Saeumige
<1>6. /\ ausleihe' = ausleihe /\ gesendet' = gesendet /\ stoerungen' = stoerungen
      /\ vWorker' = vWorker
  BY DEF PassLesen
<1>7. AusleihenBleiben BY <1>6 DEF AusleihenBleiben
<1>8. \A a \in Ausleihen : a \in p.rest \/ p.sms = a => ausleihe'[a] # None
  BY <1>2, <1>4, <1>6 DEF Saeumige
<1>9. /\ \A x \in Workers : PassGut(x)'
      /\ \A a \in Ausleihen :
           /\ VorSich(a)' = IF a \in p.rest THEN VorSich(a) \cup {w} ELSE VorSich(a) \ {w}
           /\ Unterwegs(a)' = IF p.sms = a THEN Unterwegs(a) \cup {w} ELSE Unterwegs(a) \ {w}
  BY <1>1, <1>2, <1>3, <1>5, <1>6, <1>7, <1>8, PassSchritt
<1>10. ASSUME NEW a \in Ausleihen PROVE ErinnertAn(a)'
  <2>1. /\ Cardinality(VorSich(a)) \in Nat /\ Cardinality(Unterwegs(a)) \in Nat
        /\ Cardinality(vWorker) \in Nat /\ gesendet[a] \in Nat /\ stoerungen \in Nat
        /\ Cardinality(VorSich(a)') \in Nat
    BY Zaehlbar, VArbeiter DEF Grundlage, VerleihTypen
  <2>2. ErinnertAn(a) BY DEF Erinnert
  <2>3. w \notin VorSich(a) /\ w \notin Unterwegs(a)
    BY <1>1, <1>4 DEF VorSich, Unterwegs, Ruhend
  <2>4. Unterwegs(a)' = Unterwegs(a) BY <1>2, <1>4, <1>9, <2>3
  <2>5. gesendet[a] + Cardinality(VorSich(a)') <= Cardinality(vWorker) + stoerungen
    <3>1. CASE a \in Saeumige
      <4>1. gesendet[a] <= Cardinality(Unterwegs(a)) + stoerungen
        BY <2>2, <3>1 DEF ErinnertAn, Saeumige
      <4>2. VorSich(a)' \cap Unterwegs(a) = {}
        <5>1. VorSich(a)' = VorSich(a) \cup {w} BY <1>2, <1>9, <3>1
        <5>2. VorSich(a) \cap Unterwegs(a) = {} BY DEF Erinnert, PassGut, VorSich, Unterwegs
        <5> QED BY <5>1, <5>2, <2>3
      <4>3. VorSich(a)' \cup Unterwegs(a) \subseteq vWorker
        <5>1. VorSich(a)' = VorSich(a) \cup {w} BY <1>2, <1>9, <3>1
        <5>2. VorSich(a) \cup Unterwegs(a) \subseteq vWorker
          BY <1>4 DEF Erinnert, PassGut, VorSich, Unterwegs, Ruhend
        <5> QED BY <1>1, <5>1, <5>2
      <4>4. IsFiniteSet(vWorker) BY VArbeiter DEF Grundlage
      <4>5. Cardinality(VorSich(a)' \cup Unterwegs(a)) <= Cardinality(vWorker)
        BY <4>3, <4>4, FS_Subset
      <4>6. Cardinality(VorSich(a)' \cap Unterwegs(a)) = 0 BY <4>2, FS_EmptySet
      <4>7. Cardinality(VorSich(a)' \cup Unterwegs(a)) =
              Cardinality(VorSich(a)') + Cardinality(Unterwegs(a))
                - Cardinality(VorSich(a)' \cap Unterwegs(a))
        BY Zaehlbar, FS_Union
      <4> QED BY <2>1, <4>1, <4>5, <4>6, <4>7
    <3>2. CASE a \notin Saeumige
      <4>1. VorSich(a)' = VorSich(a) BY <1>2, <1>9, <2>3, <3>2
      <4> QED BY <2>2, <4>1 DEF ErinnertAn
    <3> QED BY <3>1, <3>2
  <2> QED BY <1>6, <2>2, <2>4, <2>5 DEF ErinnertAn
<1>11. vPass' \in [Workers -> VPassZeilen] BY <1>2, <1>3 DEF Grundlage, VerleihTypen
<1> QED BY <1>9, <1>10, <1>11 DEF Erinnert

LEMMA SmsSchickenErinnert ==
  ASSUME Grundlage, Erinnert, NEW w \in Workers, SmsSchicken(w)
  PROVE  /\ Erinnert' /\ vPass' \in [Workers -> VPassZeilen]
         /\ gesendet' \in [Ausleihen -> Nat]
<1>1. vPass[w] \in VPassZeilen /\ vPass[w].rest \in SUBSET Ausleihen
  BY DEF Grundlage, VerleihTypen, VPassZeilen
<1>2. PICK a \in vPass[w].rest :
        /\ vPass' = [vPass EXCEPT ![w] = [rest |-> vPass[w].rest \ {a}, sms |-> a]]
        /\ gesendet' = [gesendet EXCEPT ![a] = IF a \in SmsGeht THEN gesendet[a] + 1
                                               ELSE gesendet[a]]
  BY DEF SmsSchicken, Grundlage, VerleihTypen
<1>3. a \in Ausleihen BY <1>1
<1> DEFINE p == [rest |-> vPass[w].rest \ {a}, sms |-> a]
<1>4. p \in VPassZeilen /\ p.rest = vPass[w].rest \ {a} /\ p.sms = a
  BY <1>1, <1>3 DEF VPassZeilen
<1>5. vPass' = [vPass EXCEPT ![w] = p] BY <1>2
<1> HIDE DEF p
<1>6. /\ ausleihe' = ausleihe /\ stoerungen' = stoerungen /\ vWorker' = vWorker
      /\ vPass[w].sms = None
  BY DEF SmsSchicken
<1>7. AusleihenBleiben BY <1>6 DEF AusleihenBleiben
<1>8. PassGut(w) BY DEF Erinnert
<1>9. w \in vWorker BY <1>2, <1>8 DEF PassGut, Ruhend
<1>10. \A b \in Ausleihen : b \in p.rest \/ p.sms = b => ausleihe'[b] # None
  BY <1>2, <1>4, <1>6, <1>8 DEF PassGut
<1>11. /\ \A x \in Workers : PassGut(x)'
       /\ \A b \in Ausleihen :
            /\ VorSich(b)' = IF b \in p.rest THEN VorSich(b) \cup {w} ELSE VorSich(b) \ {w}
            /\ Unterwegs(b)' = IF p.sms = b THEN Unterwegs(b) \cup {w} ELSE Unterwegs(b) \ {w}
  BY <1>4, <1>5, <1>6, <1>7, <1>9, <1>10, PassSchritt
<1>12. gesendet \in [Ausleihen -> Nat] BY DEF Grundlage, VerleihTypen
<1>13. gesendet' \in [Ausleihen -> Nat] BY <1>2, <1>3, <1>12
<1>14. ASSUME NEW b \in Ausleihen PROVE ErinnertAn(b)'
  <2>1. /\ Cardinality(VorSich(b)) \in Nat /\ Cardinality(Unterwegs(b)) \in Nat
        /\ Cardinality(vWorker) \in Nat /\ gesendet[b] \in Nat /\ stoerungen \in Nat
    BY <1>12, Zaehlbar, VArbeiter DEF Grundlage, VerleihTypen
  <2>2. ErinnertAn(b) BY DEF Erinnert
  <2>3. CASE b = a
    <3>1. w \in VorSich(b) /\ w \notin Unterwegs(b)
      BY <1>2, <1>3, <1>6, <2>3, VerleihAssumption DEF VorSich, Unterwegs
    <3>2. VorSich(b)' = VorSich(b) \ {w} /\ Unterwegs(b)' = Unterwegs(b) \cup {w}
      BY <1>4, <1>11, <2>3
    <3>3. /\ Cardinality(VorSich(b)') = Cardinality(VorSich(b)) - 1
          /\ Cardinality(Unterwegs(b)') = Cardinality(Unterwegs(b)) + 1
      <4>1. IsFiniteSet(VorSich(b)) /\ IsFiniteSet(Unterwegs(b)) BY Zaehlbar
      <4>2. Cardinality(VorSich(b) \ {w}) = Cardinality(VorSich(b)) - 1
        BY <3>1, <4>1, FS_RemoveElement
      <4>3. Cardinality(Unterwegs(b) \cup {w}) = Cardinality(Unterwegs(b)) + 1
        BY <3>1, <4>1, FS_AddElement
      <4> QED BY <3>2, <4>2, <4>3
    <3>4. gesendet'[b] = IF b \in SmsGeht THEN gesendet[b] + 1 ELSE gesendet[b]
      BY <1>2, <1>3, <1>12, <2>3
    <3>5. ausleihe[b] # None BY <1>2, <1>8, <2>3 DEF PassGut
    <3> QED BY <1>6, <2>1, <2>2, <3>3, <3>4, <3>5 DEF ErinnertAn
  <2>4. CASE b # a
    <3>1. VorSich(b)' = VorSich(b)
      BY <1>4, <1>11, <2>4 DEF VorSich
    <3>2. Unterwegs(b)' = Unterwegs(b)
      BY <1>4, <1>6, <1>11, <2>4, VerleihAssumption DEF Unterwegs
    <3>3. gesendet'[b] = gesendet[b] BY <1>2, <1>12, <2>4
    <3> QED BY <1>6, <2>2, <3>1, <3>2, <3>3 DEF ErinnertAn
  <2> QED BY <2>3, <2>4
<1>15. vPass' \in [Workers -> VPassZeilen] BY <1>4, <1>5 DEF Grundlage, VerleihTypen
<1> QED BY <1>11, <1>13, <1>14, <1>15 DEF Erinnert

LEMMA SmsErledigtErinnert ==
  ASSUME Grundlage, Erinnert, NEW w \in Workers, SmsErledigt(w)
  PROVE  /\ Erinnert' /\ vPass' \in [Workers -> VPassZeilen]
         /\ ausleihe' \in [Ausleihen -> AusleiheZeilen \cup {None}]
         /\ \A b \in Ausleihen : /\ ausleihe'[b] # None <=> ausleihe[b] # None
                                 /\ ausleihe[b] # None => ausleihe'[b].offen = ausleihe[b].offen
<1> DEFINE a == vPass[w].sms
           zeile == [ausleihe[a] EXCEPT !.gesendet = TRUE]
           p == [rest |-> vPass[w].rest, sms |-> None]
<1>1. vPass[w] \in VPassZeilen BY DEF Grundlage, VerleihTypen
<1>2. vPass[w].rest \in SUBSET Ausleihen /\ a \in Ausleihen /\ a # None
  BY <1>1 DEF SmsErledigt, VPassZeilen
<1>3. PassGut(w) BY DEF Erinnert
<1>4. ausleihe[a] # None /\ ausleihe[a] \in AusleiheZeilen
  BY <1>2, <1>3 DEF PassGut, Grundlage, VerleihTypen
<1>5. zeile \in AusleiheZeilen /\ zeile.gesendet = TRUE /\ zeile.offen = ausleihe[a].offen
  BY <1>4 DEF AusleiheZeilen
<1>6. zeile # None BY <1>5, VerleihAssumption
<1>7. p \in VPassZeilen /\ p.rest = vPass[w].rest /\ p.sms = None BY <1>2 DEF VPassZeilen
<1>8. vPass' = [vPass EXCEPT ![w] = p]
  <2>1. vPass' = [vPass EXCEPT ![w] = [vPass[w] EXCEPT !.sms = None]]
    BY DEF SmsErledigt, Weiter, Grundlage, VerleihTypen
  <2>2. [vPass[w] EXCEPT !.sms = None] = p BY <1>1 DEF VPassZeilen
  <2> QED BY <2>1, <2>2
<1>9. ausleihe \in [Ausleihen -> AusleiheZeilen \cup {None}] BY DEF Grundlage, VerleihTypen
<1>10. ausleihe' = IF a \in SmsGeht THEN [ausleihe EXCEPT ![a] = zeile] ELSE ausleihe
  BY <1>9 DEF SmsErledigt
<1> HIDE DEF zeile, p
<1>11. /\ ausleihe' \in [Ausleihen -> AusleiheZeilen \cup {None}]
       /\ \A b \in Ausleihen \ {a} : ausleihe'[b] = ausleihe[b]
       /\ ausleihe'[a] = IF a \in SmsGeht THEN zeile ELSE ausleihe[a]
  BY <1>2, <1>5, <1>9, <1>10
<1>12. \A b \in Ausleihen : /\ ausleihe'[b] # None <=> ausleihe[b] # None
                            /\ ausleihe[b] # None => ausleihe'[b].offen = ausleihe[b].offen
  BY <1>4, <1>5, <1>6, <1>11
<1>13. /\ gesendet' = gesendet /\ stoerungen' = stoerungen /\ vWorker' = vWorker
  BY DEF SmsErledigt
<1>14. AusleihenBleiben BY <1>12 DEF AusleihenBleiben
<1>15. w \in vWorker BY <1>2, <1>3 DEF PassGut, Ruhend
<1>16. p.sms \notin p.rest BY <1>2, <1>7, VerleihAssumption
<1>17. \A b \in Ausleihen : b \in p.rest \/ p.sms = b => ausleihe'[b] # None
  BY <1>3, <1>7, <1>12, VerleihAssumption DEF PassGut
<1>18. /\ \A x \in Workers : PassGut(x)'
       /\ \A b \in Ausleihen :
            /\ VorSich(b)' = IF b \in p.rest THEN VorSich(b) \cup {w} ELSE VorSich(b) \ {w}
            /\ Unterwegs(b)' = IF p.sms = b THEN Unterwegs(b) \cup {w} ELSE Unterwegs(b) \ {w}
  BY <1>7, <1>8, <1>13, <1>14, <1>15, <1>16, <1>17, PassSchritt
<1>19. ASSUME NEW b \in Ausleihen PROVE ErinnertAn(b)'
  <2>1. /\ Cardinality(VorSich(b)) \in Nat /\ Cardinality(Unterwegs(b)) \in Nat
        /\ Cardinality(Unterwegs(b)') \in Nat
        /\ Cardinality(vWorker) \in Nat /\ gesendet[b] \in Nat /\ stoerungen \in Nat
    BY Zaehlbar, VArbeiter DEF Grundlage, VerleihTypen
  <2>2. ErinnertAn(b) BY DEF Erinnert
  <2>3. VorSich(b)' = VorSich(b) BY <1>7, <1>18 DEF VorSich
  <2>4. CASE b = a
    <3>1. CASE a \in SmsGeht
      <4>1. ausleihe'[b].gesendet = TRUE BY <1>5, <1>11, <2>4, <3>1
      <4> QED BY <1>4, <1>12, <1>13, <2>2, <2>3, <2>4, <3>1, <4>1 DEF ErinnertAn
    <3>2. CASE a \notin SmsGeht
      BY <1>13, <2>1, <2>2, <2>3, <2>4, <3>2 DEF ErinnertAn
    <3> QED BY <3>1, <3>2
  <2>5. CASE b # a
    <3>1. Unterwegs(b)' = Unterwegs(b)
      BY <1>7, <1>18, <2>5, VerleihAssumption DEF Unterwegs
    <3>2. ausleihe'[b] = ausleihe[b] BY <1>11, <2>5
    <3> QED BY <1>13, <2>2, <2>3, <3>1, <3>2 DEF ErinnertAn
  <2> QED BY <2>4, <2>5
<1>20. vPass' \in [Workers -> VPassZeilen] BY <1>7, <1>8 DEF Grundlage, VerleihTypen
<1> QED BY <1>11, <1>12, <1>18, <1>19, <1>20 DEF Erinnert

LEMMA NeustartErinnert ==
  ASSUME Grundlage, Erinnert, NEW w \in Workers, NEW W, WorkerNeustart(w, W)
  PROVE  Erinnert' /\ vPass' \in [Workers -> VPassZeilen]
<1>1. Ruhend \in VPassZeilen /\ Ruhend.rest = {} /\ Ruhend.sms = None
  BY DEF Ruhend, VPassZeilen
<1>2. vPass' = [vPass EXCEPT ![w] = Ruhend] BY DEF WorkerNeustart
<1>3. /\ ausleihe' = ausleihe /\ gesendet' = gesendet /\ stoerungen' = stoerungen + 1
      /\ vWorker' = vWorker
  BY DEF WorkerNeustart
<1>4. AusleihenBleiben BY <1>3 DEF AusleihenBleiben
<1>5. None \notin Ausleihen BY VerleihAssumption
<1>6. /\ \A x \in Workers : PassGut(x)'
      /\ \A b \in Ausleihen : VorSich(b)' = VorSich(b) \ {w} /\ Unterwegs(b)' = Unterwegs(b) \ {w}
  <2>1. /\ Ruhend.sms \notin Ruhend.rest
        /\ \A b \in Ausleihen : b \in Ruhend.rest \/ Ruhend.sms = b => ausleihe'[b] # None
    BY <1>1, <1>5
  <2>2. /\ \A x \in Workers : PassGut(x)'
        /\ \A b \in Ausleihen :
             /\ VorSich(b)' = IF b \in Ruhend.rest THEN VorSich(b) \cup {w} ELSE VorSich(b) \ {w}
             /\ Unterwegs(b)' = IF Ruhend.sms = b THEN Unterwegs(b) \cup {w}
                                ELSE Unterwegs(b) \ {w}
    BY <1>1, <1>2, <1>3, <1>4, <2>1, PassSchritt
  <2> QED BY <1>1, <1>5, <2>2
<1>7. ASSUME NEW b \in Ausleihen PROVE ErinnertAn(b)'
  <2>1. /\ Cardinality(VorSich(b)) \in Nat /\ Cardinality(Unterwegs(b)) \in Nat
        /\ Cardinality(vWorker) \in Nat /\ gesendet[b] \in Nat /\ stoerungen \in Nat
        /\ IsFiniteSet(VorSich(b)) /\ IsFiniteSet(Unterwegs(b))
    BY Zaehlbar, VArbeiter DEF Grundlage, VerleihTypen
  <2>2. ErinnertAn(b) BY DEF Erinnert
  <2>3. /\ Cardinality(VorSich(b)') <= Cardinality(VorSich(b))
        /\ Cardinality(VorSich(b)') \in Nat
    BY <1>6, <2>1, Zaehlbar, FS_RemoveElement
  <2>4. /\ Cardinality(Unterwegs(b)) <= Cardinality(Unterwegs(b)') + 1
        /\ Cardinality(Unterwegs(b)') \in Nat
    BY <1>6, <2>1, Zaehlbar, FS_RemoveElement
  <2> QED BY <1>3, <2>1, <2>2, <2>3, <2>4 DEF ErinnertAn
<1>8. vPass' \in [Workers -> VPassZeilen] BY <1>1, <1>2 DEF Grundlage, VerleihTypen
<1> QED BY <1>6, <1>7, <1>8 DEF Erinnert

-----------------------------------------------------------------------------
(* Availability *)

\* Steps that enter or return nothing.
LEMMA OhneLeihe ==
  ASSUME Grundlage, Verfuegbarkeit, position' = position, frei' = frei, menge' = menge,
         ursachen' = ursachen, vUeberholt' = vUeberholt, NurBeendet,
         \A a \in Ausleihen : /\ ausleihe'[a] # None <=> ausleihe[a] # None
                              /\ ausleihe[a] # None => ausleihe'[a].offen = ausleihe[a].offen
  PROVE  Bezogen' /\ (\A w \in Workers : AnfragePasst(w)') /\ Verfuegbarkeit'
<1>1. Bezogen' /\ \A w \in Workers : AnfragePasst(w)' BY BezugNachRueckgabe
<1>2. UrsachenGenannt' BY DEF Verfuegbarkeit, UrsachenGenannt, Offen, NurBeendet
<1>3. OffenSolangeEtwasFehlt' BY DEF Verfuegbarkeit, OffenSolangeEtwasFehlt, VonAusleihe
<1>4. VerfuegbaresIstDa' BY DEF Verfuegbarkeit, VerfuegbaresIstDa, Offen
<1> QED BY <1>1, <1>2, <1>3, <1>4 DEF Verfuegbarkeit

\* The inventory: what was overruled by hand is named.
LEMMA ArtikelErhaelt ==
  ASSUME Grundlage, Verfuegbarkeit, NEW g \in Artikel,
         ArtikelStatusToggle(g) \/ ArtikelBearbeiten(g)
  PROVE  /\ Bezogen' /\ (\A x \in Workers : AnfragePasst(x)') /\ Verfuegbarkeit'
         /\ frei' \in [Artikel -> BOOLEAN] /\ menge' \in [Artikel -> BOOLEAN]
<1>1. /\ position' = position /\ ausleihe' = ausleihe /\ anfrage' = anfrage
      /\ ursachen' = ursachen \cup {g} /\ vUeberholt' = vUeberholt
  BY DEF ArtikelStatusToggle, ArtikelBearbeiten
<1>2. frei \in [Artikel -> BOOLEAN] /\ menge \in [Artikel -> BOOLEAN]
  BY DEF Grundlage, VerleihTypen
<1>3. /\ frei' \in [Artikel -> BOOLEAN] /\ menge' \in [Artikel -> BOOLEAN]
      /\ \A h \in Artikel \ {g} : frei'[h] = frei[h] /\ menge'[h] = menge[h]
  BY <1>2 DEF ArtikelStatusToggle, ArtikelBearbeiten
<1>4. Bezogen' /\ \A x \in Workers : AnfragePasst(x)'
  BY <1>1, BezugNachRueckgabe DEF NurBeendet
<1>5. UrsachenGenannt' BY <1>1, <1>3 DEF Verfuegbarkeit, UrsachenGenannt, Offen
<1>6. OffenSolangeEtwasFehlt' BY <1>1 DEF Verfuegbarkeit, OffenSolangeEtwasFehlt, VonAusleihe
<1>7. VerfuegbaresIstDa'
  <2>1. \A p \in Positionen : Offen(p) => position[p].artikel \in Artikel \cup {None}
    BY DEF Grundlage, VerleihTypen, PositionZeilen, Offen
  <2> QED BY <1>1, <1>3, <2>1 DEF Verfuegbarkeit, VerfuegbaresIstDa, Offen
<1> QED BY <1>3, <1>4, <1>5, <1>6, <1>7 DEF Verfuegbarkeit

LEMMA MarkiertGut ==
  ASSUME VerleihTypen, NEW t, NEW G, NEW wert \in BOOLEAN
  PROVE  Markiert(t, G, wert) \in [Artikel -> BOOLEAN]
BY DEF Markiert, VerleihTypen

\* The request of w ends, and none of the others is touched.
AnfrageFort(w) == anfrage' = [anfrage EXCEPT ![w] = None]

LEMMA AnfrageFortGut ==
  ASSUME Grundlage, NEW w \in Workers, anfrage[w] # None, AnfrageFort(w)
  PROVE  /\ anfrage' \in [Workers -> LeihAnfragen \cup {None}] /\ NurBeendet
         /\ anfrage[w] \in LeihAnfragen
         /\ anfrage[w].art # "neu" =>
              anfrage[w].ausleihe \in Ausleihen /\ ausleihe[anfrage[w].ausleihe] # None
<1>1. anfrage \in [Workers -> LeihAnfragen \cup {None}] BY DEF Grundlage, VerleihTypen
<1>2. anfrage' \in [Workers -> LeihAnfragen \cup {None}] /\ NurBeendet
  BY <1>1 DEF AnfrageFort, NurBeendet
<1>3. AnfragePasst(w) BY DEF Grundlage
<1> QED BY <1>1, <1>2, <1>3 DEF AnfragePasst

\* Entering positions names what is now out twice or was read too early, and takes what
\* is out.
LEMMA NachEintragVerfuegbar ==
  ASSUME Grundlage, Verfuegbarkeit, NEW w \in Workers, anfrage[w] # None,
         NEW P \in SUBSET Positionen, NEW f \in [P -> Artikel \cup {None}], NEW a \in Ausleihen,
         \A p \in P : position[p] = None, NurBeendet, menge' = menge,
         position' = Eingetragen(P, f, a), ursachen' = ursachen \cup Uebergangen(anfrage[w], f),
         frei' = Markiert(anfrage[w], ArtikelNeu(f), FALSE)
  PROVE  UrsachenGenannt' /\ VerfuegbaresIstDa' /\ ursachen' \subseteq Artikel
<1> DEFINE t == anfrage[w]
<1>0. VerleihTypen BY DEF Grundlage
<1>1. /\ \A p \in P : /\ position'[p] # None /\ position'[p].ausleihe = a
                      /\ position'[p].artikel = f[p] /\ position'[p].offen = TRUE
      /\ \A p \in Positionen \ P : position'[p] = position[p]
      /\ position' \in [Positionen -> PositionZeilen \cup {None}]
  BY <1>0, EingetragenGut
<1>2. \A p \in Positionen : position'[p] # None => position'[p].artikel \in Artikel \cup {None}
  BY <1>1 DEF PositionZeilen
<1>3. UrsachenGenannt'
  <2>1. \A g \in Artikel : menge'[g] => g \in ursachen' BY DEF Verfuegbarkeit, UrsachenGenannt
  <2>2. \A x \in Workers : anfrage'[x] # None =>
          \A g \in Artikel : anfrage'[x].menge[g] => g \in ursachen'
    BY DEF Verfuegbarkeit, UrsachenGenannt, NurBeendet
  <2>3. ASSUME NEW p \in Positionen, NEW q \in Positionen, p # q, Offen(p)', Offen(q)',
               (position[p].artikel)' = (position[q].artikel)', (position[p].artikel)' # None
        PROVE  (position[p].artikel)' \in ursachen'
    <3>1. /\ position'[p] # None /\ position'[q] # None /\ position'[p].offen /\ position'[q].offen
          /\ position'[p].artikel \in Artikel
      BY <1>2, <2>3 DEF Offen
    <3>2. position'[p].artikel \in Doppelte(position') BY <2>3, <3>1, ZweiSindDoppelt
    <3> QED BY <3>2 DEF Uebergangen
  <2> QED BY <2>1, <2>2, <2>3 DEF UrsachenGenannt
<1>4. ASSUME NEW p \in Positionen, Offen(p)', position'[p].artikel \notin ursachen' \cup {None}
      PROVE  ~frei'[position'[p].artikel]
  <2> DEFINE g == position'[p].artikel
  <2>1. g \in Artikel /\ g \notin ursachen /\ position'[p] # None BY <1>2, <1>4 DEF Offen
  <2>2. ~t.menge[g] BY <2>1 DEF Verfuegbarkeit, UrsachenGenannt
  <2>3. frei'[g] = IF g \in ArtikelNeu(f) /\ t.frei[g] # FALSE THEN FALSE ELSE frei[g]
    BY <2>1, <2>2 DEF Markiert
  <2>4. CASE p \in P
    <3>1. g \in ArtikelNeu(f) BY <1>1, <2>1, <2>4, <1>4 DEF ArtikelNeu
    <3>2. frei[g] = t.frei[g] BY <1>4, <3>1 DEF Uebergangen, ArtikelNeu
    <3> QED BY <2>3, <3>1, <3>2
  <2>5. CASE p \notin P
    <3>1. position'[p] = position[p] BY <1>1, <2>5
    <3>2. Offen(p) BY <1>4, <3>1 DEF Offen
    <3>3. ~frei[g] BY <1>4, <2>1, <3>1, <3>2 DEF Verfuegbarkeit, VerfuegbaresIstDa
    <3> QED BY <2>3, <3>3
  <2> QED BY <2>4, <2>5
<1>5. ursachen' \subseteq Artikel
  <2>1. ArtikelNeu(f) \subseteq Artikel BY DEF ArtikelNeu
  <2> QED BY <1>0, <2>1 DEF Uebergangen, Doppelte, VerleihTypen
<1> QED BY <1>3, <1>4, <1>5 DEF VerfuegbaresIstDa

\* Entering positions leaves the other loans as they are.
LEMMA NachEintragOffen ==
  ASSUME Verfuegbarkeit, NEW P \in SUBSET Positionen, P # {}, NEW a \in Ausleihen,
         \A p \in P : /\ position[p] = None /\ position'[p] # None /\ position'[p].ausleihe = a
                      /\ position'[p].offen = TRUE,
         \A p \in Positionen \ P : position'[p] = position[p],
         \A b \in Ausleihen \ {a} : ausleihe'[b] = ausleihe[b],
         a \notin vUeberholt' => ausleihe'[a].offen = TRUE, vUeberholt \subseteq vUeberholt'
  PROVE  OffenSolangeEtwasFehlt'
<1> SUFFICES ASSUME NEW b \in Ausleihen \ vUeberholt', ausleihe'[b] # None
             PROVE  ausleihe'[b].offen <=> \E p \in VonAusleihe(position', b) : position'[p].offen
  BY DEF OffenSolangeEtwasFehlt
<1>1. CASE b = a
  <2>1. \E p \in VonAusleihe(position', b) : position'[p].offen BY <1>1 DEF VonAusleihe
  <2> QED BY <1>1, <2>1
<1>2. CASE b # a
  <2>1. VonAusleihe(position', b) = VonAusleihe(position, b) /\ VonAusleihe(position, b) \cap P = {}
    BY <1>2 DEF VonAusleihe
  <2>2. \A p \in VonAusleihe(position, b) : position'[p] = position[p] BY <2>1 DEF VonAusleihe
  <2>3. ausleihe'[b] = ausleihe[b] /\ b \notin vUeberholt BY <1>2
  <2> QED BY <2>1, <2>2, <2>3 DEF Verfuegbarkeit, OffenSolangeEtwasFehlt
<1> QED BY <1>1, <1>2

LEMMA CreateErhaelt ==
  ASSUME Grundlage, Verfuegbarkeit, NEW w \in Workers, NEW a \in Ausleihen, NEW P,
         NEW f \in [P -> Artikel \cup {None}], NEW telefon \in BOOLEAN, NEW erinnern \in BOOLEAN,
         CreateAusleihe(w, a, P, f, telefon, erinnern)
  PROVE  /\ VerleihTypen' /\ Bezogen' /\ (\A x \in Workers : AnfragePasst(x)') /\ Verfuegbarkeit'
         /\ AusleihenBleiben
         /\ \A b \in Ausleihen : ausleihe[b] # None => ausleihe'[b] = ausleihe[b]
<1> DEFINE neu == [offen |-> TRUE, telefon |-> telefon, gesendet |-> FALSE,
                   geplant |-> IF erinnern THEN "spaeter" ELSE None]
<1>1. neu \in AusleiheZeilen /\ neu.offen = TRUE BY DEF AusleiheZeilen
<1>2. neu # None BY <1>1, VerleihAssumption
<1>3. /\ anfrage[w] # None /\ ausleihe[a] = None /\ P # {} /\ P \subseteq Unbenutzt
      /\ ausleihe' = [ausleihe EXCEPT ![a] = neu] /\ position' = Eingetragen(P, f, a)
      /\ frei' = Markiert(anfrage[w], ArtikelNeu(f), FALSE)
      /\ ursachen' = ursachen \cup Uebergangen(anfrage[w], f) /\ vUeberholt' = vUeberholt
      /\ vUmfang' = vUmfang /\ vWorker' = vWorker /\ menge' = menge /\ AnfrageFort(w)
      /\ vPass' = vPass /\ gesendet' = gesendet /\ stoerungen' = stoerungen
  BY DEF CreateAusleihe, AnfrageFort
<1> HIDE DEF neu
<1>4. VerleihTypen /\ anfrage' \in [Workers -> LeihAnfragen \cup {None}] /\ NurBeendet
  BY <1>3, AnfrageFortGut DEF Grundlage
<1>5. P \in SUBSET Positionen /\ \A p \in P : position[p] = None
  BY <1>3, <1>4, VArbeiter DEF Unbenutzt
<1>6. /\ ausleihe' \in [Ausleihen -> AusleiheZeilen \cup {None}] /\ ausleihe'[a] = neu
      /\ \A b \in Ausleihen \ {a} : ausleihe'[b] = ausleihe[b]
  BY <1>1, <1>3, <1>4 DEF VerleihTypen
<1>7. /\ position' \in [Positionen -> PositionZeilen \cup {None}]
      /\ \A p \in P : /\ position'[p] # None /\ position'[p].ausleihe = a
                      /\ position'[p].artikel = f[p] /\ position'[p].offen = TRUE
      /\ \A p \in Positionen \ P : position'[p] = position[p]
  BY <1>3, <1>4, <1>5, EingetragenGut
<1>8. UrsachenGenannt' /\ VerfuegbaresIstDa' /\ ursachen' \subseteq Artikel
  BY <1>3, <1>4, <1>5, NachEintragVerfuegbar
<1>9. frei' \in [Artikel -> BOOLEAN] BY <1>3, <1>4, MarkiertGut
<1>10. VerleihTypen' BY <1>3, <1>4, <1>6, <1>7, <1>8, <1>9 DEF VerleihTypen
<1>11. AusleihenBleiben BY <1>2, <1>6 DEF AusleihenBleiben
<1>12. Bezogen' /\ \A x \in Workers : AnfragePasst(x)'
  <2>1. Eintragung(P, a) BY <1>2, <1>3, <1>4, <1>5, <1>6, <1>7, <1>11 DEF Eintragung
  <2> QED BY <1>5, <2>1, BezugNachEintrag
<1>13. OffenSolangeEtwasFehlt'
  <2>1. /\ \A p \in P : /\ position[p] = None /\ position'[p] # None
                         /\ position'[p].ausleihe = a /\ position'[p].offen = TRUE
        /\ a \notin vUeberholt' => ausleihe'[a].offen = TRUE
        /\ vUeberholt \subseteq vUeberholt' /\ P # {}
    BY <1>1, <1>3, <1>5, <1>6, <1>7
  <2>2. /\ \A p \in Positionen \ P : position'[p] = position[p]
        /\ \A b \in Ausleihen \ {a} : ausleihe'[b] = ausleihe[b]
        /\ P \in SUBSET Positionen
    BY <1>5, <1>6, <1>7
  <2> QED BY <2>1, <2>2, NachEintragOffen
<1> QED BY <1>3, <1>6, <1>8, <1>10, <1>11, <1>12, <1>13 DEF Verfuegbarkeit

\* What the commit of a return does, of one position or of all that are out.
Rueckgabe(w, P, a) ==
  /\ a = anfrage[w].ausleihe /\ P \subseteq VonAusleihe(anfrage[w].pos, a)
  /\ position' = Zurueck(P)
  /\ frei' = Markiert(anfrage[w], ArtikelVon(anfrage[w].pos, P), TRUE)
  /\ ursachen' = ursachen \cup Nochmals(P)
  /\ vUeberholt' = vUeberholt \cup Ueberholte(anfrage[w])
  /\ ausleihe' \in [Ausleihen -> AusleiheZeilen \cup {None}]
  /\ \A b \in Ausleihen : /\ ausleihe'[b] # None <=> ausleihe[b] # None
                          /\ b # a => ausleihe'[b] = ausleihe[b]
  /\ a \notin vUeberholt' => (ausleihe'[a].offen <=> ~Fertig(anfrage[w].pos, a, P))
  /\ menge' = menge

\* A position that is still out keeps its article unavailable: an article of a position
\* that came back has been lent twice, or came back before.
LEMMA RueckgabeErhaelt ==
  ASSUME Grundlage, Verfuegbarkeit, NEW w \in Workers, NEW P, NEW a \in Ausleihen,
         anfrage[w] # None, Rueckgabe(w, P, a), AnfrageFort(w)
  PROVE  /\ Bezogen' /\ (\A x \in Workers : AnfragePasst(x)') /\ Verfuegbarkeit'
         /\ position' \in [Positionen -> PositionZeilen \cup {None}]
         /\ frei' \in [Artikel -> BOOLEAN] /\ ursachen' \subseteq Artikel
<1> DEFINE t == anfrage[w]
<1>1. NurBeendet BY AnfrageFortGut
<1>2. P \subseteq Positionen /\ \A p \in P : t.pos[p] # None /\ t.pos[p].ausleihe = a
  BY DEF Rueckgabe, VonAusleihe
<1>3. AnfragePasst(w) /\ VerleihTypen BY DEF Grundlage
<1>4. \A p \in P : /\ position[p] # None /\ position[p].ausleihe = a
                   /\ position[p].artikel = t.pos[p].artikel
  BY <1>2, <1>3 DEF AnfragePasst
<1>5. /\ position' \in [Positionen -> PositionZeilen \cup {None}]
      /\ \A p \in P : /\ position'[p] # None /\ position'[p].ausleihe = position[p].ausleihe
                      /\ position'[p].artikel = position[p].artikel /\ position'[p].offen = FALSE
      /\ \A p \in Positionen \ P : position'[p] = position[p]
  BY <1>2, <1>3, <1>4, ZurueckGut DEF Rueckgabe
<1>6. frei' \in [Artikel -> BOOLEAN] BY <1>3, MarkiertGut DEF Rueckgabe
<1>7. Bezogen' /\ \A x \in Workers : AnfragePasst(x)'
  <2>1. \A p \in Positionen : /\ position'[p] # None <=> position[p] # None
                              /\ position[p] # None =>
                                   /\ position'[p].ausleihe = position[p].ausleihe
                                   /\ position'[p].artikel = position[p].artikel
    BY <1>4, <1>5
  <2> QED BY <1>1, <2>1, BezugNachRueckgabe DEF Rueckgabe
<1>8. \A p \in Positionen : Offen(p)' => Offen(p) /\ p \notin P /\ position'[p] = position[p]
  BY <1>5 DEF Offen
<1>9. UrsachenGenannt'
  <2>1. ursachen \subseteq ursachen' /\ menge' = menge BY DEF Rueckgabe
  <2> QED BY <1>1, <1>8, <2>1 DEF Verfuegbarkeit, UrsachenGenannt, NurBeendet
<1>10. ursachen' \subseteq Artikel
  <2>1. \A p \in P : position[p].artikel \in Artikel \cup {None}
    BY <1>2, <1>3, <1>4 DEF VerleihTypen, PositionZeilen
  <2> QED BY <1>3, <2>1 DEF Rueckgabe, Nochmals, ArtikelVon, VerleihTypen
<1>11. ASSUME NEW b \in Ausleihen \ vUeberholt', ausleihe'[b] # None
       PROVE  ausleihe'[b].offen <=> \E p \in VonAusleihe(position', b) : position'[p].offen
  <2>1. VonAusleihe(position', b) = VonAusleihe(position, b)
    BY <1>4, <1>5 DEF VonAusleihe
  <2>2. CASE b = a
    <3>1. /\ VonAusleihe(t.pos, a) = VonAusleihe(position, a)
          /\ \A p \in VonAusleihe(position, a) : position[p] = t.pos[p]
      BY <1>11, <2>2, GelesenGilt DEF Rueckgabe
    <3>2. ausleihe'[b].offen <=> \E p \in VonAusleihe(position, b) \ P : position[p].offen
      BY <1>11, <2>2, <3>1 DEF Rueckgabe, Fertig
    <3>3. \A p \in VonAusleihe(position, b) :
            position'[p].offen <=> p \notin P /\ position[p].offen
      BY <1>5 DEF VonAusleihe
    <3> QED BY <2>1, <3>2, <3>3
  <2>3. CASE b # a
    <3>1. \A p \in VonAusleihe(position, b) : position'[p] = position[p]
      BY <1>4, <1>5, <2>3 DEF VonAusleihe
    <3>2. ausleihe'[b] = ausleihe[b] /\ b \notin vUeberholt BY <1>11, <2>3 DEF Rueckgabe
    <3> QED BY <1>11, <2>1, <3>1, <3>2 DEF Verfuegbarkeit, OffenSolangeEtwasFehlt
  <2> QED BY <2>2, <2>3
<1>12. OffenSolangeEtwasFehlt' BY <1>11 DEF OffenSolangeEtwasFehlt
<1>13. ASSUME NEW p \in Positionen, Offen(p)', position'[p].artikel \notin ursachen' \cup {None}
       PROVE  ~frei'[position'[p].artikel]
  <2> DEFINE g == position'[p].artikel
  <2>1. Offen(p) /\ p \notin P /\ position[p].artikel = g /\ g \notin ursachen
    BY <1>8, <1>13 DEF Rueckgabe
  <2>2. g \in Artikel BY <1>3, <1>13, <2>1 DEF VerleihTypen, PositionZeilen, Offen
  <2>3. ~frei[g] BY <1>13, <2>1 DEF Verfuegbarkeit, VerfuegbaresIstDa
  <2>4. g \notin ArtikelVon(t.pos, P)
    <3> SUFFICES ASSUME NEW q \in P, position[q].artikel = g PROVE FALSE
      BY <1>4 DEF ArtikelVon
    <3>1. CASE position[q].offen
      <4>1. Offen(q) /\ q \in Positionen /\ p # q BY <1>2, <1>4, <2>1, <3>1 DEF Offen
      <4> QED BY <1>13, <2>1, <4>1 DEF Verfuegbarkeit, UrsachenGenannt
    <3>2. CASE ~position[q].offen
      <4>1. g \in Nochmals(P) BY <1>13, <3>2 DEF ArtikelVon, Nochmals
      <4> QED BY <1>13, <4>1 DEF Rueckgabe
    <3> QED BY <3>1, <3>2
  <2>5. frei'[g] = frei[g] BY <2>2, <2>4 DEF Rueckgabe, Markiert
  <2> QED BY <2>3, <2>5
<1>14. VerfuegbaresIstDa' BY <1>13 DEF VerfuegbaresIstDa
<1> QED BY <1>5, <1>6, <1>7, <1>9, <1>10, <1>12, <1>14 DEF Verfuegbarkeit

LEMMA ReturnErhaelt ==
  ASSUME Grundlage, Verfuegbarkeit, NEW w \in Workers, ReturnPosition(w) \/ ReturnAll(w)
  PROVE  /\ VerleihTypen' /\ Bezogen' /\ (\A x \in Workers : AnfragePasst(x)') /\ Verfuegbarkeit'
         /\ AusleihenBleiben
         /\ \A b \in Ausleihen :
              ausleihe[b] # None => (~ausleihe'[b].gesendet => ~ausleihe[b].gesendet)
<1> DEFINE t == anfrage[w]
           a == anfrage[w].ausleihe
           zu == [ausleihe[a] EXCEPT !.offen = FALSE]
<1>1. t # None /\ t.art # "neu" /\ AnfrageFort(w) BY DEF ReturnPosition, ReturnAll, AnfrageFort
<1>2. /\ anfrage' \in [Workers -> LeihAnfragen \cup {None}]
      /\ t \in LeihAnfragen /\ a \in Ausleihen /\ ausleihe[a] # None
  BY <1>1, AnfrageFortGut
<1>3. ausleihe \in [Ausleihen -> AusleiheZeilen \cup {None}] /\ vUeberholt \subseteq Ausleihen
  BY DEF Grundlage, VerleihTypen
<1>4. ausleihe[a] \in AusleiheZeilen BY <1>2, <1>3
<1>5. zu \in AusleiheZeilen /\ zu.offen = FALSE /\ zu.gesendet = ausleihe[a].gesendet
  BY <1>4 DEF AusleiheZeilen
<1>6. zu # None BY <1>5, VerleihAssumption
<1>7. t.offen \in BOOLEAN /\ ausleihe[a].offen \in BOOLEAN
  BY <1>2, <1>4 DEF LeihAnfragen, AusleiheZeilen
<1>8. a \notin vUeberholt \cup Ueberholte(t) =>
        /\ t.offen = ausleihe[a].offen /\ VonAusleihe(t.pos, a) = VonAusleihe(position, a)
        /\ \A p \in VonAusleihe(position, a) : position[p] = t.pos[p]
        /\ ausleihe[a].offen <=> \E p \in VonAusleihe(position, a) : position[p].offen
  BY <1>1, <1>2, GelesenGilt DEF Verfuegbarkeit, OffenSolangeEtwasFehlt
<1>9. \E P : /\ Rueckgabe(w, P, a)
             /\ \A b \in Ausleihen :
                  ausleihe[b] # None => (~ausleihe'[b].gesendet => ~ausleihe[b].gesendet)
  <2>1. CASE ReturnPosition(w)
    <3>1. ausleihe' = IF t.offen /\ Fertig(t.pos, a, t.P) THEN [ausleihe EXCEPT ![a] = zu]
                      ELSE ausleihe
      BY <2>1, <1>3 DEF ReturnPosition
    <3> HIDE DEF zu
    <3>2. /\ ausleihe' \in [Ausleihen -> AusleiheZeilen \cup {None}]
          /\ \A b \in Ausleihen \ {a} : ausleihe'[b] = ausleihe[b]
          /\ ausleihe'[a] = IF t.offen /\ Fertig(t.pos, a, t.P) THEN zu ELSE ausleihe[a]
      BY <1>2, <1>3, <1>5, <3>1
    <3>3. t.P \subseteq VonAusleihe(t.pos, a) BY <1>1 DEF Grundlage, AnfragePasst
    <3>4. a \notin vUeberholt \cup Ueberholte(t)
            => (ausleihe'[a].offen <=> ~Fertig(t.pos, a, t.P))
      <4>1. a \notin vUeberholt \cup Ueberholte(t)
              => (~ausleihe[a].offen => Fertig(t.pos, a, t.P))
        BY <1>8 DEF Fertig
      <4> QED BY <1>5, <1>7, <1>8, <3>2, <4>1
    <3>5. /\ position' = Zurueck(t.P) /\ menge' = menge
          /\ frei' = Markiert(t, ArtikelVon(t.pos, t.P), TRUE)
          /\ ursachen' = ursachen \cup Nochmals(t.P)
          /\ vUeberholt' = vUeberholt \cup Ueberholte(t)
      BY <2>1 DEF ReturnPosition
    <3>6. \A b \in Ausleihen : /\ ausleihe'[b] # None <=> ausleihe[b] # None
                               /\ b # a => ausleihe'[b] = ausleihe[b]
      BY <1>2, <1>6, <3>2
    <3>7. Rueckgabe(w, t.P, a) BY <3>2, <3>3, <3>4, <3>5, <3>6 DEF Rueckgabe
    <3>8. \A b \in Ausleihen :
            ausleihe[b] # None => (~ausleihe'[b].gesendet => ~ausleihe[b].gesendet)
      BY <1>5, <3>2
    <3> QED BY <3>7, <3>8
  <2>2. CASE ReturnAll(w)
    <3> DEFINE neu == IF t.offen THEN zu ELSE ausleihe[a]
    <3>1. ausleihe' = [ausleihe EXCEPT ![a] = neu]
      <4>1. ausleihe' = [ausleihe EXCEPT ![a] = [ausleihe[a] EXCEPT
                           !.offen = IF t.offen THEN FALSE ELSE ausleihe[a].offen]]
        BY <2>2, <1>3 DEF ReturnAll
      <4>2. [ausleihe[a] EXCEPT !.offen = IF t.offen THEN FALSE ELSE ausleihe[a].offen] = neu
        BY <1>4 DEF AusleiheZeilen
      <4> QED BY <4>1, <4>2
    <3>2. neu \in AusleiheZeilen /\ neu # None /\ neu.gesendet = ausleihe[a].gesendet
      BY <1>2, <1>4, <1>5, <1>6
    <3>3. neu.offen = IF t.offen THEN FALSE ELSE ausleihe[a].offen BY <1>5
    <3> HIDE DEF zu, neu
    <3>4. /\ ausleihe' \in [Ausleihen -> AusleiheZeilen \cup {None}]
          /\ \A b \in Ausleihen \ {a} : ausleihe'[b] = ausleihe[b]
          /\ ausleihe'[a] = neu
      BY <1>2, <1>3, <3>1, <3>2
    <3>5. NochOffene(t) \subseteq VonAusleihe(t.pos, a) BY DEF NochOffene
    <3>6. a \notin vUeberholt \cup Ueberholte(t)
            => (ausleihe'[a].offen <=> ~Fertig(t.pos, a, NochOffene(t)))
      <4>1. Fertig(t.pos, a, NochOffene(t)) BY DEF Fertig, NochOffene
      <4> QED BY <1>7, <1>8, <3>3, <3>4, <4>1
    <3>7. /\ position' = Zurueck(NochOffene(t)) /\ menge' = menge
          /\ frei' = Markiert(t, ArtikelVon(t.pos, NochOffene(t)), TRUE)
          /\ ursachen' = ursachen \cup Nochmals(NochOffene(t))
          /\ vUeberholt' = vUeberholt \cup Ueberholte(t)
      BY <2>2 DEF ReturnAll
    <3>8. \A b \in Ausleihen : /\ ausleihe'[b] # None <=> ausleihe[b] # None
                               /\ b # a => ausleihe'[b] = ausleihe[b]
      BY <1>2, <3>2, <3>4
    <3>9. Rueckgabe(w, NochOffene(t), a) BY <3>4, <3>5, <3>6, <3>7, <3>8 DEF Rueckgabe
    <3>10. \A b \in Ausleihen :
             ausleihe[b] # None => (~ausleihe'[b].gesendet => ~ausleihe[b].gesendet)
      BY <3>2, <3>4
    <3> QED BY <3>9, <3>10
  <2> QED BY <2>1, <2>2
<1>10. PICK P : /\ Rueckgabe(w, P, a)
                /\ \A b \in Ausleihen :
                     ausleihe[b] # None => (~ausleihe'[b].gesendet => ~ausleihe[b].gesendet)
  BY <1>9
<1>11. /\ Bezogen' /\ (\A x \in Workers : AnfragePasst(x)') /\ Verfuegbarkeit'
       /\ position' \in [Positionen -> PositionZeilen \cup {None}]
       /\ frei' \in [Artikel -> BOOLEAN] /\ ursachen' \subseteq Artikel
  BY <1>1, <1>2, <1>10, RueckgabeErhaelt
<1>12. /\ vUmfang' = vUmfang /\ vWorker' = vWorker /\ menge' = menge /\ vPass' = vPass
       /\ gesendet' = gesendet /\ stoerungen' = stoerungen
  BY DEF ReturnPosition, ReturnAll
<1>13. VerleihTypen'
  <2>1. vUeberholt' \subseteq Ausleihen BY <1>3, <1>10 DEF Rueckgabe, Ueberholte
  <2> QED BY <1>2, <1>10, <1>11, <1>12, <2>1 DEF Grundlage, VerleihTypen, Rueckgabe
<1>14. AusleihenBleiben BY <1>10 DEF Rueckgabe, AusleihenBleiben
<1> QED BY <1>10, <1>11, <1>13, <1>14

LEMMA AddErhaelt ==
  ASSUME Grundlage, Verfuegbarkeit, NEW w \in Workers, NEW P,
         NEW f \in [P -> Artikel \cup {None}], AddPositionen(w, P, f)
  PROVE  /\ VerleihTypen' /\ Bezogen' /\ (\A x \in Workers : AnfragePasst(x)') /\ Verfuegbarkeit'
         /\ AusleihenBleiben
         /\ \A b \in Ausleihen :
              ausleihe[b] # None => (~ausleihe'[b].gesendet => ~ausleihe[b].gesendet)
<1> DEFINE t == anfrage[w]
           a == anfrage[w].ausleihe
           neu == [ausleihe[a] EXCEPT !.offen = IF t.offen THEN ausleihe[a].offen ELSE TRUE]
<1>1. /\ t # None /\ t.art # "neu" /\ AnfrageFort(w)
      /\ P # {} /\ P \subseteq Unbenutzt
  BY DEF AddPositionen, AnfrageFort
<1>2. /\ anfrage' \in [Workers -> LeihAnfragen \cup {None}] /\ NurBeendet
      /\ t \in LeihAnfragen /\ a \in Ausleihen /\ ausleihe[a] # None
  BY <1>1, AnfrageFortGut
<1>3. /\ ausleihe \in [Ausleihen -> AusleiheZeilen \cup {None}] /\ VerleihTypen
      /\ vUeberholt \subseteq Ausleihen
  BY DEF Grundlage, VerleihTypen
<1>4. P \in SUBSET Positionen /\ \A p \in P : position[p] = None
  BY <1>1, <1>3, VArbeiter DEF Unbenutzt
<1>5. ausleihe[a] \in AusleiheZeilen BY <1>2, <1>3
<1>6. ausleihe' = [ausleihe EXCEPT ![a] = neu] BY <1>3 DEF AddPositionen
<1>7. neu \in AusleiheZeilen /\ neu.gesendet = ausleihe[a].gesendet
  BY <1>5 DEF AusleiheZeilen
<1>8. neu.offen = IF t.offen THEN ausleihe[a].offen ELSE TRUE BY <1>5 DEF AusleiheZeilen
<1>9. neu # None BY <1>7, VerleihAssumption
<1>10. /\ position' = Eingetragen(P, f, a) /\ ursachen' = ursachen \cup Uebergangen(t, f)
       /\ frei' = Markiert(t, ArtikelNeu(f), FALSE)
       /\ vUeberholt' = vUeberholt \cup Ueberholte(t)
       /\ vUmfang' = vUmfang /\ vWorker' = vWorker /\ menge' = menge /\ vPass' = vPass
       /\ gesendet' = gesendet /\ stoerungen' = stoerungen
  BY DEF AddPositionen
<1> HIDE DEF neu
<1>11. /\ ausleihe' \in [Ausleihen -> AusleiheZeilen \cup {None}] /\ ausleihe'[a] = neu
       /\ \A b \in Ausleihen \ {a} : ausleihe'[b] = ausleihe[b]
  BY <1>2, <1>3, <1>6, <1>7
<1>12. /\ position' \in [Positionen -> PositionZeilen \cup {None}]
       /\ \A p \in P : /\ position'[p] # None /\ position'[p].ausleihe = a
                       /\ position'[p].artikel = f[p] /\ position'[p].offen = TRUE
       /\ \A p \in Positionen \ P : position'[p] = position[p]
  BY <1>2, <1>3, <1>4, <1>10, EingetragenGut
<1>13. AusleihenBleiben BY <1>9, <1>11 DEF AusleihenBleiben
<1>14. Bezogen' /\ \A x \in Workers : AnfragePasst(x)'
  <2>1. Eintragung(P, a)
    BY <1>1, <1>2, <1>4, <1>9, <1>11, <1>12, <1>13 DEF Eintragung
  <2> QED BY <1>2, <1>4, <2>1, BezugNachEintrag
<1>15. frei' \in [Artikel -> BOOLEAN] BY <1>3, <1>10, MarkiertGut
<1>16. UrsachenGenannt' /\ VerfuegbaresIstDa' /\ ursachen' \subseteq Artikel
  BY <1>1, <1>2, <1>4, <1>10, NachEintragVerfuegbar
<1>17. a \notin vUeberholt' => ausleihe'[a].offen = TRUE
  <2>1. t.offen \in BOOLEAN /\ ausleihe[a].offen \in BOOLEAN
    BY <1>2, <1>5 DEF LeihAnfragen, AusleiheZeilen
  <2>2. a \notin vUeberholt' => t.offen = ausleihe[a].offen
    BY <1>1, <1>2, <1>10, GelesenGilt
  <2> QED BY <1>8, <1>11, <2>1, <2>2
<1>18. OffenSolangeEtwasFehlt'
  <2>1. /\ \A p \in P : /\ position[p] = None /\ position'[p] # None
                         /\ position'[p].ausleihe = a /\ position'[p].offen = TRUE
        /\ vUeberholt \subseteq vUeberholt'
    BY <1>4, <1>10, <1>12
  <2> QED BY <1>1, <1>2, <1>4, <1>11, <1>12, <1>17, <2>1, NachEintragOffen
<1>19. VerleihTypen'
  <2>1. vUeberholt' \subseteq Ausleihen BY <1>3, <1>10 DEF Ueberholte
  <2> QED BY <1>2, <1>3, <1>10, <1>11, <1>12, <1>15, <1>16, <2>1 DEF VerleihTypen
<1>20. \A b \in Ausleihen :
         ausleihe[b] # None => (~ausleihe'[b].gesendet => ~ausleihe[b].gesendet)
  BY <1>7, <1>11
<1> QED BY <1>13, <1>14, <1>16, <1>18, <1>19, <1>20 DEF Verfuegbarkeit

LEMMA BeginnenErhaelt ==
  ASSUME Grundlage, Verfuegbarkeit, NEW w \in Workers, NEW a \in Ausleihen \cup {None},
         NEW art \in {"neu", "position", "alle", "nachtrag"}, NEW P, Beginnen(w, art, a, P),
         P \subseteq VonAusleihe(position, a), art # "neu" => a \in Ausleihen
  PROVE  VerleihTypen' /\ Bezogen' /\ (\A x \in Workers : AnfragePasst(x)') /\ Verfuegbarkeit'
<1> DEFINE t == [art |-> art, ausleihe |-> a, P |-> P, pos |-> position, frei |-> frei,
                 menge |-> menge, offen |-> art # "neu" /\ ausleihe[a].offen]
<1>1. /\ anfrage' = [anfrage EXCEPT ![w] = t] /\ (art # "neu" => ausleihe[a] # None)
      /\ vUmfang' = vUmfang /\ vWorker' = vWorker /\ ausleihe' = ausleihe
      /\ position' = position /\ frei' = frei /\ menge' = menge /\ vPass' = vPass
      /\ ursachen' = ursachen /\ vUeberholt' = vUeberholt /\ gesendet' = gesendet
      /\ stoerungen' = stoerungen
  BY DEF Beginnen
<1>2. VerleihTypen BY DEF Grundlage
<1>3. (art # "neu" /\ ausleihe[a].offen) \in BOOLEAN OBVIOUS
<1>4. /\ t.art = art /\ t.ausleihe = a /\ t.P = P /\ t.pos = position /\ t.frei = frei
      /\ t.menge = menge
  OBVIOUS
<1>5. t \in LeihAnfragen
  <2>1. P \in SUBSET Positionen BY DEF VonAusleihe
  <2>2. /\ position \in [Positionen -> PositionZeilen \cup {None}]
        /\ frei \in [Artikel -> BOOLEAN] /\ menge \in [Artikel -> BOOLEAN]
    BY <1>2 DEF VerleihTypen
  <2> QED BY <1>3, <2>1, <2>2 DEF LeihAnfragen
<1>6. t # None BY <1>5, VerleihAssumption
<1> HIDE DEF t
<1>7. anfrage \in [Workers -> LeihAnfragen \cup {None}] BY <1>2 DEF VerleihTypen
<1>8. /\ anfrage' \in [Workers -> LeihAnfragen \cup {None}] /\ anfrage'[w] = t
      /\ \A x \in Workers \ {w} : anfrage'[x] = anfrage[x]
  BY <1>1, <1>5, <1>7
<1>9. VerleihTypen' BY <1>1, <1>2, <1>8 DEF VerleihTypen
<1>10. Bezogen' BY <1>1 DEF Grundlage, Bezogen, VonAusleihe
<1>11. AnfragePasst(w)' BY <1>1, <1>4, <1>8 DEF AnfragePasst, VonAusleihe
<1>12. ASSUME NEW x \in Workers \ {w} PROVE AnfragePasst(x)'
  <2>1. AnfragePasst(x) /\ anfrage'[x] = anfrage[x] BY <1>8 DEF Grundlage
  <2> QED BY <1>1, <2>1 DEF AnfragePasst, VonAusleihe
<1>13. UrsachenGenannt'
  <2>1. \A x \in Workers : anfrage'[x] # None =>
          \A g \in Artikel : anfrage'[x].menge[g] => g \in ursachen
    BY <1>4, <1>8 DEF Verfuegbarkeit, UrsachenGenannt
  <2> QED BY <1>1, <2>1 DEF Verfuegbarkeit, UrsachenGenannt, Offen
<1>14. OffenSolangeEtwasFehlt' /\ VerfuegbaresIstDa'
  BY <1>1 DEF Verfuegbarkeit, OffenSolangeEtwasFehlt, VerfuegbaresIstDa, Offen, VonAusleihe
<1> QED BY <1>9, <1>10, <1>11, <1>12, <1>13, <1>14 DEF Verfuegbarkeit

-----------------------------------------------------------------------------
(* The theorem *)

LEMMA VerleihAnfang == VerleihInit => VerleihIInv
<1> SUFFICES ASSUME VerleihInit PROVE VerleihIInv OBVIOUS
<1>1. VerleihTypen BY DEF VerleihInit, VerleihTypen, VPassZeilen, Ruhend
<1>2. Grundlage
  BY <1>1 DEF VerleihInit, Grundlage, Bezogen, AnfragePasst
<1>3. Verfuegbarkeit
  BY DEF VerleihInit, Verfuegbarkeit, UrsachenGenannt, OffenSolangeEtwasFehlt,
         VerfuegbaresIstDa, Offen
<1>4. \A w \in Workers : PassGut(w) BY VerleihAssumption DEF VerleihInit, PassGut, Ruhend
<1>5. ASSUME NEW a \in Ausleihen PROVE ErinnertAn(a)
  <2>1. VorSich(a) = {} BY DEF VerleihInit, VorSich, Ruhend
  <2>2. Cardinality(VorSich(a)) = 0 /\ Cardinality(vWorker) \in Nat
    BY <1>1, <2>1, FS_EmptySet, VArbeiter
  <2>3. ausleihe[a] = None /\ gesendet[a] = 0 /\ stoerungen = 0 BY DEF VerleihInit
  <2> QED BY <2>2, <2>3 DEF ErinnertAn
<1> QED BY <1>2, <1>3, <1>4, <1>5 DEF VerleihIInv, Erinnert

\* The requests: the passes are not concerned.
LEMMA LeiheErhaelt ==
  ASSUME VerleihIInv, NEW w \in Workers, Anfangen(w) \/ Festschreiben(w)
  PROVE  VerleihIInv'
<1>1. Grundlage /\ Verfuegbarkeit /\ Erinnert /\ VerleihTypen BY DEF VerleihIInv, Grundlage
<1>2. stoerungen \in Nat BY <1>1 DEF VerleihTypen
<1> DEFINE Heil == /\ VerleihTypen' /\ Bezogen' /\ \A x \in Workers : AnfragePasst(x)'
                   /\ Verfuegbarkeit' /\ AusleihenBleiben
                   /\ \A b \in Ausleihen :
                        ausleihe[b] # None => (~ausleihe'[b].gesendet => ~ausleihe[b].gesendet)
           Still == /\ vWorker' = vWorker /\ vPass' = vPass /\ gesendet' = gesendet
                    /\ stoerungen' = stoerungen
<1>3. ASSUME Heil, Still PROVE VerleihIInv'
  <2>1. Erinnert' BY <1>1, <1>2, <1>3, ErinnertBleibt
  <2> QED BY <1>3, <2>1 DEF VerleihIInv, Grundlage
<1>4. /\ vUmfang.ausleihen \subseteq Ausleihen /\ vUmfang.sms \subseteq BOOLEAN
      /\ vUmfang.artikel \subseteq Artikel \cup {None}
  BY <1>1, VArbeiter
<1>5. CASE Anfangen(w)
  <2>1. PICK art \in {"neu", "position", "alle", "nachtrag"}, a \in Ausleihen \cup {None} :
          \E P : /\ Beginnen(w, art, a, P) /\ P \subseteq VonAusleihe(position, a)
                 /\ art # "neu" => a \in Ausleihen
    <3>1. CASE Beginnen(w, "neu", None, {}) BY <3>1
    <3>2. ASSUME NEW a \in vUmfang.ausleihen, NEW p \in VonAusleihe(position, a),
                 Beginnen(w, "position", a, {p})
          PROVE  Beginnen(w, "position", a, {p}) /\ {p} \subseteq VonAusleihe(position, a)
      BY <3>2
    <3>3. CASE \E a \in vUmfang.ausleihen : \E p \in VonAusleihe(position, a) :
                 Beginnen(w, "position", a, {p})
      BY <1>4, <3>2, <3>3
    <3>4. CASE \E a \in vUmfang.ausleihen :
                 Beginnen(w, "alle", a, {}) \/ Beginnen(w, "nachtrag", a, {})
      <4>1. PICK a \in vUmfang.ausleihen :
              Beginnen(w, "alle", a, {}) \/ Beginnen(w, "nachtrag", a, {})
        BY <3>4
      <4>2. a \in Ausleihen \cup {None} /\ a \in Ausleihen BY <1>4
      <4>3. {} \subseteq VonAusleihe(position, a) OBVIOUS
      <4>4. CASE Beginnen(w, "alle", a, {}) BY <4>2, <4>3, <4>4
      <4>5. CASE Beginnen(w, "nachtrag", a, {}) BY <4>2, <4>3, <4>5
      <4> QED BY <4>1, <4>4, <4>5
    <3> QED BY <1>5, <3>1, <3>3, <3>4 DEF Anfangen
  <2>2. PICK P : /\ Beginnen(w, art, a, P) /\ P \subseteq VonAusleihe(position, a)
                 /\ art # "neu" => a \in Ausleihen
    BY <2>1
  <2>3. VerleihTypen' /\ Bezogen' /\ (\A x \in Workers : AnfragePasst(x)') /\ Verfuegbarkeit'
    BY <1>1, <2>2, BeginnenErhaelt
  <2>4. Still /\ ausleihe' = ausleihe BY <2>2 DEF Beginnen
  <2>5. Heil BY <2>3, <2>4 DEF AusleihenBleiben
  <2> QED BY <1>3, <2>4, <2>5
<1>6. CASE ReturnPosition(w) \/ ReturnAll(w)
  <2>1. Heil BY <1>1, <1>6, ReturnErhaelt
  <2>2. Still BY <1>6 DEF ReturnPosition, ReturnAll
  <2> QED BY <1>3, <2>1, <2>2
<1>7. CASE Verworfen(w)
  <2>1. /\ anfrage[w] # None /\ AnfrageFort(w) /\ Still /\ vUmfang' = vUmfang
        /\ ausleihe' = ausleihe /\ position' = position /\ frei' = frei /\ menge' = menge
        /\ ursachen' = ursachen /\ vUeberholt' = vUeberholt
    BY <1>7 DEF Verworfen, AnfrageFort
  <2>2. anfrage' \in [Workers -> LeihAnfragen \cup {None}] /\ NurBeendet
    BY <1>1, <2>1, AnfrageFortGut
  <2>3. Bezogen' /\ (\A x \in Workers : AnfragePasst(x)') /\ Verfuegbarkeit'
    BY <1>1, <2>1, <2>2, OhneLeihe
  <2>4. VerleihTypen' BY <1>1, <2>1, <2>2 DEF VerleihTypen
  <2>5. Heil BY <2>1, <2>3, <2>4 DEF AusleihenBleiben
  <2> QED BY <1>3, <2>1, <2>5
<1>8. CASE \E f \in [Naechste(1) -> vUmfang.artikel] : AddPositionen(w, Naechste(1), f)
  <2>1. PICK f \in [Naechste(1) -> vUmfang.artikel] : AddPositionen(w, Naechste(1), f)
    BY <1>8
  <2>2. f \in [Naechste(1) -> Artikel \cup {None}] BY <1>4, <2>1
  <2>3. Heil BY <1>1, <2>1, <2>2, AddErhaelt
  <2>4. Still BY <2>1 DEF AddPositionen
  <2> QED BY <1>3, <2>3, <2>4
<1>9. CASE \E a \in vUmfang.ausleihen, k \in 1..2, telefon, erinnern \in vUmfang.sms :
             \E f \in [Naechste(k) -> vUmfang.artikel] :
               CreateAusleihe(w, a, Naechste(k), f, telefon, erinnern)
  <2>1. PICK a \in vUmfang.ausleihen, k \in 1..2, telefon \in vUmfang.sms,
             erinnern \in vUmfang.sms :
          \E f \in [Naechste(k) -> vUmfang.artikel] :
            CreateAusleihe(w, a, Naechste(k), f, telefon, erinnern)
    BY <1>9
  <2>2. PICK f \in [Naechste(k) -> vUmfang.artikel] :
          CreateAusleihe(w, a, Naechste(k), f, telefon, erinnern)
    BY <2>1
  <2>3. /\ f \in [Naechste(k) -> Artikel \cup {None}] /\ telefon \in BOOLEAN
        /\ erinnern \in BOOLEAN /\ a \in Ausleihen
    BY <1>4, <2>1, <2>2
  <2>4. Heil BY <1>1, <2>2, <2>3, CreateErhaelt
  <2>5. Still BY <2>2 DEF CreateAusleihe
  <2> QED BY <1>3, <2>4, <2>5
<1> QED BY <1>5, <1>6, <1>7, <1>8, <1>9 DEF Festschreiben

\* What is done by hand: a reminder, and the inventory.
LEMMA VonHandErhaelt ==
  ASSUME VerleihIInv, Stammdaten \/ \E a \in Ausleihen : ErinnerungManuell(a)
  PROVE  VerleihIInv'
<1>1. Grundlage /\ Verfuegbarkeit /\ Erinnert /\ VerleihTypen BY DEF VerleihIInv, Grundlage
<1>2. stoerungen \in Nat BY <1>1 DEF VerleihTypen
<1>3. CASE Stammdaten
  <2>1. PICK g \in vUmfang.artikel \ {None} : ArtikelStatusToggle(g) \/ ArtikelBearbeiten(g)
    BY <1>3 DEF Stammdaten
  <2>2. g \in Artikel BY <1>1, <2>1, VArbeiter
  <2>3. /\ Bezogen' /\ (\A x \in Workers : AnfragePasst(x)') /\ Verfuegbarkeit'
        /\ frei' \in [Artikel -> BOOLEAN] /\ menge' \in [Artikel -> BOOLEAN]
    BY <1>1, <2>1, <2>2, ArtikelErhaelt
  <2>4. /\ vUmfang' = vUmfang /\ vWorker' = vWorker /\ ausleihe' = ausleihe
        /\ position' = position /\ anfrage' = anfrage /\ vPass' = vPass
        /\ ursachen' = ursachen \cup {g} /\ vUeberholt' = vUeberholt /\ gesendet' = gesendet
        /\ stoerungen' = stoerungen + 1
    BY <2>1 DEF ArtikelStatusToggle, ArtikelBearbeiten
  <2>5. VerleihTypen' BY <1>1, <2>2, <2>3, <2>4 DEF VerleihTypen
  <2>6. AusleihenBleiben /\ stoerungen' \in Nat /\ stoerungen <= stoerungen'
    BY <1>2, <2>4 DEF AusleihenBleiben
  <2>7. Erinnert' BY <1>1, <2>4, <2>6, ErinnertBleibt
  <2> QED BY <2>3, <2>5, <2>7 DEF VerleihIInv, Grundlage
<1>4. CASE \E a \in Ausleihen : ErinnerungManuell(a)
  <2>1. PICK a \in Ausleihen : ErinnerungManuell(a) BY <1>4
  <2> DEFINE neu == [ausleihe[a] EXCEPT !.gesendet = TRUE]
  <2>2. ausleihe' = [ausleihe EXCEPT ![a] = neu] /\ ausleihe[a] # None
    BY <1>1, <2>1 DEF ErinnerungManuell, VerleihTypen
  <2>3. neu \in AusleiheZeilen /\ neu.offen = ausleihe[a].offen /\ neu.gesendet = TRUE
    BY <1>1, <2>2 DEF VerleihTypen, AusleiheZeilen
  <2>4. neu # None BY <2>3, VerleihAssumption
  <2> HIDE DEF neu
  <2>5. /\ ausleihe' \in [Ausleihen -> AusleiheZeilen \cup {None}]
        /\ \A b \in Ausleihen :
             /\ ausleihe'[b] # None <=> ausleihe[b] # None
             /\ ausleihe[b] # None => /\ ausleihe'[b].offen = ausleihe[b].offen
                                      /\ ~ausleihe'[b].gesendet => ~ausleihe[b].gesendet
    BY <1>1, <2>2, <2>3, <2>4 DEF VerleihTypen
  <2>6. /\ vUmfang' = vUmfang /\ vWorker' = vWorker /\ position' = position /\ frei' = frei
        /\ menge' = menge /\ anfrage' = anfrage /\ vPass' = vPass /\ ursachen' = ursachen
        /\ vUeberholt' = vUeberholt /\ gesendet' = gesendet /\ stoerungen' = stoerungen
    BY <2>1 DEF ErinnerungManuell
  <2>7. Bezogen' /\ (\A x \in Workers : AnfragePasst(x)') /\ Verfuegbarkeit'
    BY <1>1, <2>5, <2>6, OhneLeihe DEF NurBeendet
  <2>8. VerleihTypen' BY <1>1, <2>5, <2>6 DEF VerleihTypen
  <2>9. AusleihenBleiben BY <2>5 DEF AusleihenBleiben
  <2>10. Erinnert' BY <1>1, <1>2, <2>5, <2>6, <2>9, ErinnertBleibt
  <2> QED BY <2>7, <2>8, <2>10 DEF VerleihIInv, Grundlage
<1> QED BY <1>3, <1>4

\* The passes and the time: the positions are not concerned.
LEMMA DurchlaufErhaelt ==
  ASSUME VerleihIInv, NEW w \in Workers, NEW W \in SUBSET Workers,
         Durchlauf(w) \/ WorkerNeustart(w, W)
  PROVE  VerleihIInv'
<1>1. Grundlage /\ Verfuegbarkeit /\ Erinnert /\ VerleihTypen BY DEF VerleihIInv, Grundlage
<1>2. /\ vUmfang' = vUmfang /\ vWorker' = vWorker /\ position' = position /\ frei' = frei
      /\ menge' = menge /\ ursachen' = ursachen /\ vUeberholt' = vUeberholt /\ NurBeendet
      /\ anfrage' \in [Workers -> LeihAnfragen \cup {None}] /\ stoerungen' \in Nat
  BY <1>1 DEF Durchlauf, PassLesen, SmsSchicken, SmsErledigt, WorkerNeustart, VerleihTypen,
              NurBeendet
<1>3. /\ Erinnert' /\ vPass' \in [Workers -> VPassZeilen]
      /\ ausleihe' \in [Ausleihen -> AusleiheZeilen \cup {None}]
      /\ gesendet' \in [Ausleihen -> Nat]
      /\ \A b \in Ausleihen : /\ ausleihe'[b] # None <=> ausleihe[b] # None
                              /\ ausleihe[b] # None => ausleihe'[b].offen = ausleihe[b].offen
  <2>1. /\ ausleihe \in [Ausleihen -> AusleiheZeilen \cup {None}]
        /\ gesendet \in [Ausleihen -> Nat]
    BY <1>1 DEF VerleihTypen
  <2>2. CASE PassLesen(w) BY <1>1, <2>1, <2>2, PassLesenErinnert DEF PassLesen
  <2>3. CASE SmsSchicken(w) BY <1>1, <2>1, <2>3, SmsSchickenErinnert DEF SmsSchicken
  <2>4. CASE SmsErledigt(w)
    <3>1. gesendet' = gesendet BY <2>4 DEF SmsErledigt
    <3> QED BY <1>1, <2>1, <2>4, <3>1, SmsErledigtErinnert
  <2>5. CASE WorkerNeustart(w, W) BY <1>1, <2>1, <2>5, NeustartErinnert DEF WorkerNeustart
  <2> QED BY <2>2, <2>3, <2>4, <2>5 DEF Durchlauf
<1>4. VerleihTypen' BY <1>1, <1>2, <1>3 DEF VerleihTypen
<1>5. Bezogen' /\ (\A x \in Workers : AnfragePasst(x)') /\ Verfuegbarkeit'
  BY <1>1, <1>2, <1>3, OhneLeihe
<1> QED BY <1>3, <1>4, <1>5 DEF VerleihIInv, Grundlage

LEMMA ZeitErhaelt ==
  ASSUME VerleihIInv, NEW a \in Ausleihen, ZeitRueckt(a)
  PROVE  VerleihIInv'
<1>1. Grundlage /\ Verfuegbarkeit /\ Erinnert /\ VerleihTypen BY DEF VerleihIInv, Grundlage
<1> DEFINE neu == [ausleihe[a] EXCEPT !.geplant = "jetzt"]
<1>2. ausleihe' = [ausleihe EXCEPT ![a] = neu] /\ ausleihe[a] # None
  BY <1>1 DEF ZeitRueckt, VerleihTypen
<1>3. /\ neu \in AusleiheZeilen /\ neu.offen = ausleihe[a].offen
      /\ neu.gesendet = ausleihe[a].gesendet
  BY <1>1, <1>2 DEF VerleihTypen, AusleiheZeilen
<1>4. neu # None BY <1>3, VerleihAssumption
<1> HIDE DEF neu
<1>5. /\ ausleihe' \in [Ausleihen -> AusleiheZeilen \cup {None}]
      /\ \A b \in Ausleihen :
           /\ ausleihe'[b] # None <=> ausleihe[b] # None
           /\ ausleihe[b] # None => /\ ausleihe'[b].offen = ausleihe[b].offen
                                    /\ ausleihe'[b].gesendet = ausleihe[b].gesendet
  BY <1>1, <1>2, <1>3, <1>4 DEF VerleihTypen
<1>6. /\ vUmfang' = vUmfang /\ vWorker' = vWorker /\ position' = position /\ frei' = frei
      /\ menge' = menge /\ anfrage' = anfrage /\ vPass' = vPass /\ ursachen' = ursachen
      /\ vUeberholt' = vUeberholt /\ gesendet' = gesendet /\ stoerungen' = stoerungen
  BY DEF ZeitRueckt
<1>7. Bezogen' /\ (\A x \in Workers : AnfragePasst(x)') /\ Verfuegbarkeit'
  BY <1>1, <1>5, <1>6, OhneLeihe DEF NurBeendet
<1>8. AusleihenBleiben BY <1>5 DEF AusleihenBleiben
<1>9. stoerungen' \in Nat /\ stoerungen <= stoerungen' BY <1>1, <1>6 DEF VerleihTypen
<1>10. Erinnert' BY <1>1, <1>5, <1>6, <1>8, <1>9, ErinnertBleibt
<1>11. VerleihTypen' BY <1>1, <1>5, <1>6 DEF VerleihTypen
<1> QED BY <1>7, <1>10, <1>11 DEF VerleihIInv, Grundlage

LEMMA VerleihSchritt == VerleihIInv /\ [VerleihNext]_verleihVars => VerleihIInv'
<1> SUFFICES ASSUME VerleihIInv, [VerleihNext]_verleihVars PROVE VerleihIInv' OBVIOUS
<1>1. CASE UNCHANGED verleihVars
  <2>1. /\ vUmfang' = vUmfang /\ vWorker' = vWorker /\ ausleihe' = ausleihe
        /\ position' = position /\ frei' = frei /\ menge' = menge /\ anfrage' = anfrage
        /\ vPass' = vPass /\ ursachen' = ursachen /\ vUeberholt' = vUeberholt
        /\ gesendet' = gesendet /\ stoerungen' = stoerungen
    BY <1>1 DEF verleihVars
  <2>2. Grundlage /\ Verfuegbarkeit /\ Erinnert /\ VerleihTypen BY DEF VerleihIInv, Grundlage
  <2>3. Bezogen' /\ (\A x \in Workers : AnfragePasst(x)') /\ Verfuegbarkeit'
    BY <2>1, <2>2, OhneLeihe DEF NurBeendet
  <2>4. VerleihTypen' BY <2>1, <2>2 DEF VerleihTypen
  <2>5. AusleihenBleiben /\ stoerungen' \in Nat /\ stoerungen <= stoerungen'
    BY <2>1, <2>2 DEF AusleihenBleiben, VerleihTypen
  <2>6. Erinnert' BY <2>1, <2>2, <2>5, ErinnertBleibt
  <2> QED BY <2>3, <2>4, <2>6 DEF VerleihIInv, Grundlage
<1>2. CASE VerleihNext
  BY <1>2, LeiheErhaelt, VonHandErhaelt, DurchlaufErhaelt, ZeitErhaelt DEF VerleihNext
<1> QED BY <1>1, <1>2

LEMMA VerleihIInvFolgt ==
  VerleihIInv => /\ VerleihTypeOK /\ OffenSolangeEtwasFehlt /\ VerfuegbaresIstDa
                 /\ EineErinnerungJeWorker
<1> SUFFICES ASSUME VerleihIInv
             PROVE  /\ VerleihTypeOK /\ OffenSolangeEtwasFehlt /\ VerfuegbaresIstDa
                    /\ EineErinnerungJeWorker
  OBVIOUS
<1>1. Grundlage /\ Verfuegbarkeit /\ Erinnert /\ VerleihTypen BY DEF VerleihIInv, Grundlage
<1>2. VerleihTypeOK
  BY <1>1 DEF VerleihTypeOK, Grundlage, VerleihTypen, Bezogen, AusleiheZeilen, PositionZeilen,
              Erinnert, PassGut
<1>3. ASSUME NEW a \in Ausleihen PROVE gesendet[a] <= Cardinality(vWorker) + stoerungen
  <2>1. /\ Cardinality(VorSich(a)) \in Nat /\ Cardinality(vWorker) \in Nat
        /\ gesendet[a] \in Nat /\ stoerungen \in Nat
    BY <1>1, Zaehlbar, VArbeiter DEF VerleihTypen
  <2> QED BY <1>1, <2>1 DEF Erinnert, ErinnertAn
<1> QED BY <1>1, <1>2, <1>3 DEF Verfuegbarkeit, EineErinnerungJeWorker

\* The loans, for any number of loans, positions, articles, workers and requests open at
\* once (ui_verleih.py, verleih_service.py, verleih_erinnerung.py): a loan is open exactly
\* as long as a position of it is out, unless a request changed it that had read it too
\* early; nothing shown as available is with a borrower unless it was overruled; and a
\* borrower gets no more reminders than there are workers, and one for each restart.
THEOREM VerleihHaelt ==
  VerleihSpec => /\ []VerleihTypeOK /\ []OffenSolangeEtwasFehlt /\ []VerfuegbaresIstDa
                 /\ []EineErinnerungJeWorker
<1>1. VerleihInit => VerleihIInv BY VerleihAnfang
<1>2. VerleihIInv /\ [VerleihNext]_verleihVars => VerleihIInv' BY VerleihSchritt
<1>3. VerleihIInv => /\ VerleihTypeOK /\ OffenSolangeEtwasFehlt /\ VerfuegbaresIstDa
                     /\ EineErinnerungJeWorker
  BY VerleihIInvFolgt
<1> QED BY <1>1, <1>2, <1>3, PTL DEF VerleihSpec

-----------------------------------------------------------------------------
(* The board *)

\* What a row refers to is there, and flag and status of a task agree.
FahrzeugGut(f) == f # None => (f.spalte = "section" => abschnitt)

AuftragGut(a) ==
  a # None => /\ a.spalte = "section" => abschnitt
              /\ a.fzg # None => fzg[a.fzg] # None
              /\ a.done <=> a.status = "done"

MeldungGut(m) ==
  m # None => /\ m.spalte = "section" => abschnitt
              /\ m.fzg # None => fzg[m.fzg] # None

BoardTypen ==
  /\ abschnitt \in BOOLEAN
  /\ fzg \in [Fahrzeuge -> FahrzeugZeilen \cup {None}]
  /\ auftrag \in [Auftraege -> AuftragZeilen \cup {None}]
  /\ meldung \in [Meldungen -> MeldungZeilen \cup {None}]
  /\ person \in [Personen -> PersonZeilen \cup {None}]

\* The inductive invariant.
BoardIInv ==
  /\ BoardTypen
  /\ \A v \in Fahrzeuge : FahrzeugGut(fzg[v])
  /\ \A t \in Auftraege : AuftragGut(auftrag[t])
  /\ \A m \in Meldungen : MeldungGut(meldung[m])

StatusFolgt(v) ==
  (fzg[v] # None /\ ~\E c \in Spalten : FahrzeugVerschieben(v, c)) =>
    /\ fzg'[v] = [spalte |-> "dispatched", status |-> "vorort"] => fzg'[v] = fzg[v]
    /\ (fzg[v].spalte = "section" /\ fzg'[v].spalte # "section") => \E c \in Spalten : Ziehen(v, c)

\* What is shown of every step.
BoardSchritt == BoardIInv' /\ \A v \in Fahrzeuge : StatusFolgt(v)

LEMMA SpalteDa ==
  ASSUME BoardIInv, NEW c \in Spalten
  PROVE  Existiert(c) <=> (c = "section" => abschnitt)
BY DEF Existiert, Spalten, FesteSpalten

-----------------------------------------------------------------------------
(* Changes of one row *)

LEMMA OhneFahrzeug ==
  ASSUME BoardIInv, fzg' = fzg
  PROVE  \A v \in Fahrzeuge : StatusFolgt(v)
BY DEF StatusFolgt

LEMMA BleibtGleich ==
  ASSUME BoardIInv, abschnitt' = abschnitt, fzg' = fzg, auftrag' = auftrag, meldung' = meldung,
         person' = person
  PROVE  BoardSchritt
BY OhneFahrzeug
   DEF BoardSchritt, BoardIInv, BoardTypen, FahrzeugGut, AuftragGut, MeldungGut

LEMMA AuftragSetzen ==
  ASSUME BoardIInv, NEW t \in Auftraege, NEW neu \in AuftragZeilen \cup {None}, AuftragGut(neu),
         auftrag' = [auftrag EXCEPT ![t] = neu], abschnitt' = abschnitt, fzg' = fzg,
         meldung' = meldung, person' = person
  PROVE  BoardSchritt
<1>1. /\ auftrag' \in [Auftraege -> AuftragZeilen \cup {None}] /\ auftrag'[t] = neu
      /\ \A s \in Auftraege \ {t} : auftrag'[s] = auftrag[s]
  BY DEF BoardIInv, BoardTypen
<1>2. \A s \in Auftraege : AuftragGut(auftrag[s])'
  BY <1>1 DEF BoardIInv, AuftragGut
<1> QED BY <1>1, <1>2, OhneFahrzeug
        DEF BoardSchritt, BoardIInv, BoardTypen, FahrzeugGut, MeldungGut

LEMMA MeldungSetzen ==
  ASSUME BoardIInv, NEW m \in Meldungen, NEW neu \in MeldungZeilen \cup {None}, MeldungGut(neu),
         meldung' = [meldung EXCEPT ![m] = neu], abschnitt' = abschnitt, fzg' = fzg,
         auftrag' = auftrag, person' = person
  PROVE  BoardSchritt
<1>1. /\ meldung' \in [Meldungen -> MeldungZeilen \cup {None}] /\ meldung'[m] = neu
      /\ \A s \in Meldungen \ {m} : meldung'[s] = meldung[s]
  BY DEF BoardIInv, BoardTypen
<1>2. \A s \in Meldungen : MeldungGut(meldung[s])'
  BY <1>1 DEF BoardIInv, MeldungGut
<1> QED BY <1>1, <1>2, OhneFahrzeug
        DEF BoardSchritt, BoardIInv, BoardTypen, FahrzeugGut, AuftragGut

LEMMA PersonSetzen ==
  ASSUME BoardIInv, NEW p \in Personen, NEW neu \in PersonZeilen \cup {None},
         person' = [person EXCEPT ![p] = neu], abschnitt' = abschnitt, fzg' = fzg,
         auftrag' = auftrag, meldung' = meldung
  PROVE  BoardSchritt
<1>1. person' \in [Personen -> PersonZeilen \cup {None}] BY DEF BoardIInv, BoardTypen
<1> QED BY <1>1, OhneFahrzeug
        DEF BoardSchritt, BoardIInv, BoardTypen, FahrzeugGut, AuftragGut, MeldungGut

\* No vehicle leaves the incident.
LEMMA FahrzeugeSetzen ==
  ASSUME BoardIInv, fzg' \in [Fahrzeuge -> FahrzeugZeilen \cup {None}],
         \A v \in Fahrzeuge : FahrzeugGut(fzg'[v]) /\ (fzg[v] # None => fzg'[v] # None),
         abschnitt' = abschnitt, auftrag' = auftrag, meldung' = meldung, person' = person
  PROVE  BoardIInv'
<1>1. \A v \in Fahrzeuge : FahrzeugGut(fzg[v])' BY DEF FahrzeugGut
<1>2. \A t \in Auftraege : auftrag[t] # None => auftrag[t].fzg \in Fahrzeuge \cup {None}
  BY DEF BoardIInv, BoardTypen, AuftragZeilen
<1>3. \A m \in Meldungen : meldung[m] # None => meldung[m].fzg \in Fahrzeuge \cup {None}
  BY DEF BoardIInv, BoardTypen, MeldungZeilen
<1>4. \A t \in Auftraege : AuftragGut(auftrag[t])' BY <1>2 DEF BoardIInv, AuftragGut
<1>5. \A m \in Meldungen : MeldungGut(meldung[m])' BY <1>3 DEF BoardIInv, MeldungGut
<1> QED BY <1>1, <1>4, <1>5 DEF BoardIInv, BoardTypen

-----------------------------------------------------------------------------
(* Vehicles *)

LEMMA FahrzeugSchrittErhaelt ==
  ASSUME BoardIInv, FahrzeugSchritt
  PROVE  BoardSchritt
<1>1. fzg \in [Fahrzeuge -> FahrzeugZeilen \cup {None}] BY DEF BoardIInv, BoardTypen
<1>2. CASE \E V \in SUBSET Fahrzeuge : AlarmFahrzeuge(V)
  <2> DEFINE neu == [spalte |-> "dispatched", status |-> "uebernommen"]
  <2>1. PICK V \in SUBSET Fahrzeuge : AlarmFahrzeuge(V) BY <1>2
  <2>2. neu \in FahrzeugZeilen /\ neu.spalte = "dispatched"
    BY DEF FahrzeugZeilen, FahrzeugSpalten
  <2>3. neu # None BY <2>2, BoardNoneAssumption
  <2>4. fzg' = [v \in Fahrzeuge |-> IF v \in V THEN neu ELSE fzg[v]]
    BY <2>1 DEF AlarmFahrzeuge
  <2> HIDE DEF neu
  <2>5. fzg' \in [Fahrzeuge -> FahrzeugZeilen \cup {None}] BY <1>1, <2>2, <2>4
  <2>6. \A v \in Fahrzeuge : FahrzeugGut(fzg'[v]) /\ (fzg[v] # None => fzg'[v] = fzg[v])
    BY <2>1, <2>2, <2>3, <2>4 DEF AlarmFahrzeuge, BoardIInv, FahrzeugGut
  <2>7. BoardIInv' BY <2>1, <2>5, <2>6, FahrzeugeSetzen DEF AlarmFahrzeuge
  <2> QED BY <2>6, <2>7 DEF BoardSchritt, StatusFolgt
<1>3. ASSUME NEW v \in Fahrzeuge, NEW c \in Spalten, FahrzeugHinzufuegen(v, c)
      PROVE  BoardSchritt
  <2> DEFINE neu == [spalte |-> c, status |-> "uebernommen"]
  <2>1. fzg' = [fzg EXCEPT ![v] = neu] /\ c \in FahrzeugSpalten /\ Existiert(c) /\ fzg[v] = None
    BY <1>3 DEF FahrzeugHinzufuegen
  <2>2. neu \in FahrzeugZeilen /\ neu.spalte = c BY <2>1 DEF FahrzeugZeilen
  <2>3. neu # None /\ FahrzeugGut(neu) BY <2>1, <2>2, SpalteDa, BoardNoneAssumption DEF FahrzeugGut
  <2> HIDE DEF neu
  <2>4. /\ fzg' \in [Fahrzeuge -> FahrzeugZeilen \cup {None}] /\ fzg'[v] = neu
        /\ \A x \in Fahrzeuge \ {v} : fzg'[x] = fzg[x]
    BY <1>1, <2>1, <2>2
  <2>5. BoardIInv'
    BY <1>3, <2>3, <2>4, FahrzeugeSetzen DEF FahrzeugHinzufuegen, BoardIInv
  <2> QED BY <2>1, <2>4, <2>5 DEF BoardSchritt, StatusFolgt
<1>4. ASSUME NEW v \in Fahrzeuge, NEW c \in Spalten \cap FahrzeugSpalten, FahrzeugVerschieben(v, c)
      PROVE  BoardSchritt
  <2> DEFINE neu == [fzg[v] EXCEPT !.spalte = c]
  <2>1. fzg' = [fzg EXCEPT ![v] = neu] /\ Existiert(c) /\ fzg[v] # None
    BY <1>1, <1>4 DEF FahrzeugVerschieben
  <2>2. neu \in FahrzeugZeilen /\ neu.spalte = c BY <1>1, <2>1 DEF FahrzeugZeilen
  <2>3. neu # None /\ FahrzeugGut(neu) BY <2>1, <2>2, SpalteDa, BoardNoneAssumption DEF FahrzeugGut
  <2> HIDE DEF neu
  <2>4. /\ fzg' \in [Fahrzeuge -> FahrzeugZeilen \cup {None}] /\ fzg'[v] = neu
        /\ \A x \in Fahrzeuge \ {v} : fzg'[x] = fzg[x]
    BY <1>1, <2>1, <2>2
  <2>5. BoardIInv'
    BY <1>4, <2>3, <2>4, FahrzeugeSetzen DEF FahrzeugVerschieben, BoardIInv
  <2> QED BY <1>4, <2>4, <2>5 DEF BoardSchritt, StatusFolgt
<1>5. ASSUME NEW v \in Fahrzeuge, NEW s \in {"uebernommen", "vorort", "bereit"},
             SetVehicleUnitStatus(v, s)
      PROVE  BoardSchritt
  <2> DEFINE neu == NachStatus(v, s)
  <2>1. fzg' = [fzg EXCEPT ![v] = neu] /\ fzg[v] # None /\ fzg[v] \in FahrzeugZeilen
    BY <1>1, <1>5 DEF SetVehicleUnitStatus
  <2>2. /\ neu \in FahrzeugZeilen
        /\ (neu.spalte = fzg[v].spalte \/ (neu.spalte = "active" /\ fzg[v].spalte = "dispatched"))
        /\ ~(neu.spalte = "dispatched" /\ neu.status = "vorort")
    BY <2>1 DEF NachStatus, FahrzeugZeilen, FahrzeugSpalten
  <2>3. neu # None /\ FahrzeugGut(neu)
    BY <2>1, <2>2, BoardNoneAssumption DEF FahrzeugGut, BoardIInv
  <2> HIDE DEF neu
  <2>4. /\ fzg' \in [Fahrzeuge -> FahrzeugZeilen \cup {None}] /\ fzg'[v] = neu
        /\ \A x \in Fahrzeuge \ {v} : fzg'[x] = fzg[x]
    BY <1>1, <2>1, <2>2
  <2>5. BoardIInv'
    BY <1>5, <2>3, <2>4, FahrzeugeSetzen DEF SetVehicleUnitStatus, BoardIInv
  <2>6. neu # [spalte |-> "dispatched", status |-> "vorort"] BY <2>2
  <2> QED BY <2>2, <2>4, <2>5, <2>6 DEF BoardSchritt, StatusFolgt
<1>6. \A v \in Fahrzeuge : \A c \in Ziele(v) : c \in Spalten \cap FahrzeugSpalten
  BY DEF Ziele, Spalten, FesteSpalten, FahrzeugSpalten
<1> QED BY <1>2, <1>3, <1>4, <1>5, <1>6 DEF FahrzeugSchritt

-----------------------------------------------------------------------------
(* Tasks, messages, persons *)

LEMMA AuftragSchrittErhaelt ==
  ASSUME BoardIInv, AuftragSchritt
  PROVE  BoardSchritt
<1>1. auftrag \in [Auftraege -> AuftragZeilen \cup {None}] BY DEF BoardIInv, BoardTypen
<1>2. ASSUME NEW t \in Auftraege, NEW c \in Spalten, NEW v \in Fahrzeuge \cup {None},
             CreateTask(t, c, v)
      PROVE  BoardSchritt
  <2> DEFINE neu == [spalte |-> c, fzg |-> v, status |-> "open", done |-> FALSE,
                     storniert |-> FALSE]
  <2>1. /\ auftrag' = [auftrag EXCEPT ![t] = neu] /\ Existiert(c) /\ (v # None => fzg[v] # None)
        /\ abschnitt' = abschnitt /\ fzg' = fzg /\ meldung' = meldung /\ person' = person
    BY <1>2 DEF CreateTask
  <2>2. /\ neu \in AuftragZeilen /\ neu.spalte = c /\ neu.fzg = v /\ neu.done = FALSE
        /\ neu.status = "open"
    BY DEF AuftragZeilen
  <2>3. AuftragGut(neu) BY <2>1, <2>2, SpalteDa DEF AuftragGut
  <2> HIDE DEF neu
  <2> QED BY <2>1, <2>2, <2>3, AuftragSetzen
<1>3. ASSUME NEW t \in Auftraege, NEW s \in {"open", "in_progress", "done", "cancelled"},
             auftrag[t] # None, auftrag' = [auftrag EXCEPT ![t] = MitStatus(auftrag[t], s)],
             abschnitt' = abschnitt, fzg' = fzg, meldung' = meldung, person' = person
      PROVE  BoardSchritt
  <2> DEFINE neu == MitStatus(auftrag[t], s)
  <2>1. auftrag[t] \in AuftragZeilen /\ AuftragGut(auftrag[t]) BY <1>1, <1>3 DEF BoardIInv
  <2>2. /\ neu \in AuftragZeilen /\ neu.spalte = auftrag[t].spalte /\ neu.fzg = auftrag[t].fzg
        /\ neu.done = (s = "done") /\ neu.status = s
    BY <2>1 DEF MitStatus, AuftragZeilen
  <2>3. AuftragGut(neu) BY <1>3, <2>1, <2>2 DEF AuftragGut
  <2> HIDE DEF neu
  <2> QED BY <1>3, <2>2, <2>3, AuftragSetzen DEF neu
<1>4. ASSUME NEW t \in Auftraege, ToggleTaskDone(t) PROVE BoardSchritt
  <2> DEFINE s == IF auftrag[t].done THEN "open" ELSE "done"
  <2>1. /\ auftrag[t] # None /\ auftrag' = [auftrag EXCEPT ![t] = MitStatus(auftrag[t], s)]
        /\ abschnitt' = abschnitt /\ fzg' = fzg /\ meldung' = meldung /\ person' = person
    BY <1>1, <1>4 DEF ToggleTaskDone
  <2>2. s \in {"open", "in_progress", "done", "cancelled"} OBVIOUS
  <2> HIDE DEF s
  <2> QED BY <1>3, <2>1, <2>2
<1>5. ASSUME NEW t \in Auftraege, NEW s \in {"open", "in_progress", "done", "cancelled"},
             SetTaskAmpel(t, s)
      PROVE  BoardSchritt
  <2>1. /\ auftrag[t] # None /\ auftrag' = [auftrag EXCEPT ![t] = MitStatus(auftrag[t], s)]
        /\ abschnitt' = abschnitt /\ fzg' = fzg /\ meldung' = meldung /\ person' = person
    BY <1>1, <1>5 DEF SetTaskAmpel
  <2> QED BY <1>3, <2>1
<1>6. ASSUME NEW t \in Auftraege, CancelTask(t) PROVE BoardSchritt
  <2> DEFINE neu == [auftrag[t] EXCEPT !.storniert = ~auftrag[t].storniert]
  <2>1. /\ auftrag' = [auftrag EXCEPT ![t] = neu] /\ auftrag[t] # None
        /\ abschnitt' = abschnitt /\ fzg' = fzg /\ meldung' = meldung /\ person' = person
    BY <1>1, <1>6 DEF CancelTask
  <2>2. auftrag[t] \in AuftragZeilen /\ AuftragGut(auftrag[t]) BY <1>1, <2>1 DEF BoardIInv
  <2>3. /\ neu \in AuftragZeilen /\ neu.spalte = auftrag[t].spalte /\ neu.fzg = auftrag[t].fzg
        /\ neu.done = auftrag[t].done /\ neu.status = auftrag[t].status
    BY <2>2 DEF AuftragZeilen
  <2>4. AuftragGut(neu) BY <2>1, <2>2, <2>3 DEF AuftragGut
  <2> HIDE DEF neu
  <2> QED BY <2>1, <2>3, <2>4, AuftragSetzen
<1>7. ASSUME NEW t \in Auftraege, RejectAiSuggestion(t) PROVE BoardSchritt
  <2>1. /\ auftrag' = [auftrag EXCEPT ![t] = None]
        /\ abschnitt' = abschnitt /\ fzg' = fzg /\ meldung' = meldung /\ person' = person
    BY <1>7 DEF RejectAiSuggestion
  <2>2. AuftragGut(None) BY DEF AuftragGut
  <2> QED BY <2>1, <2>2, AuftragSetzen
<1>8. ASSUME NEW t \in Auftraege, NEW v \in Fahrzeuge \cup {None}, AssignTask(t, v)
      PROVE  BoardSchritt
  <2> DEFINE neu == [auftrag[t] EXCEPT !.fzg = v]
  <2>1. /\ auftrag' = [auftrag EXCEPT ![t] = neu] /\ auftrag[t] # None
        /\ (v # None => fzg[v] # None)
        /\ abschnitt' = abschnitt /\ fzg' = fzg /\ meldung' = meldung /\ person' = person
    BY <1>1, <1>8 DEF AssignTask
  <2>2. auftrag[t] \in AuftragZeilen /\ AuftragGut(auftrag[t]) BY <1>1, <2>1 DEF BoardIInv
  <2>3. /\ neu \in AuftragZeilen /\ neu.spalte = auftrag[t].spalte /\ neu.fzg = v
        /\ neu.done = auftrag[t].done /\ neu.status = auftrag[t].status
    BY <2>2 DEF AuftragZeilen
  <2>4. AuftragGut(neu) BY <2>1, <2>2, <2>3 DEF AuftragGut
  <2> HIDE DEF neu
  <2> QED BY <2>1, <2>3, <2>4, AuftragSetzen
<1>9. \A t \in Auftraege : \A c \in Ziele(t) : c \in Spalten
  BY DEF Ziele, Spalten, FesteSpalten, FahrzeugSpalten
<1>10. \A v \in Fahrzeuge : fzg[v] # None => fzg[v].spalte \in Spalten
  BY DEF BoardIInv, BoardTypen, FahrzeugZeilen, FahrzeugSpalten, Spalten, FesteSpalten
<1> QED BY <1>2, <1>4, <1>5, <1>6, <1>7, <1>8, <1>9, <1>10 DEF AuftragSchritt

LEMMA MeldungSchrittErhaelt ==
  ASSUME BoardIInv, MeldungSchritt
  PROVE  BoardSchritt
<1>1. meldung \in [Meldungen -> MeldungZeilen \cup {None}] BY DEF BoardIInv, BoardTypen
<1>2. ASSUME NEW m \in Meldungen, NEW v \in Fahrzeuge \cup {None}, CreateMessage(m, v)
      PROVE  BoardSchritt
  <2> DEFINE neu == [spalte |-> "messages", fzg |-> v, done |-> FALSE, storniert |-> FALSE]
  <2>1. /\ meldung' = [meldung EXCEPT ![m] = neu] /\ (v # None => fzg[v] # None)
        /\ abschnitt' = abschnitt /\ fzg' = fzg /\ auftrag' = auftrag /\ person' = person
    BY <1>2 DEF CreateMessage
  <2>2. neu \in MeldungZeilen /\ neu.spalte = "messages" /\ neu.fzg = v
    BY DEF MeldungZeilen, Spalten, FesteSpalten
  <2>3. MeldungGut(neu) BY <2>1, <2>2 DEF MeldungGut
  <2> HIDE DEF neu
  <2> QED BY <2>1, <2>2, <2>3, MeldungSetzen
<1>3. ASSUME NEW m \in Meldungen, NEW v \in Fahrzeuge \cup {None}, AssignMessage(m, v)
      PROVE  BoardSchritt
  <2> DEFINE neu == [meldung[m] EXCEPT !.fzg = v]
  <2>1. /\ meldung' = [meldung EXCEPT ![m] = neu] /\ (v # None => fzg[v] # None)
        /\ abschnitt' = abschnitt /\ fzg' = fzg /\ auftrag' = auftrag /\ person' = person
        /\ meldung[m] # None
    BY <1>1, <1>3 DEF AssignMessage
  <2>2. meldung[m] \in MeldungZeilen /\ MeldungGut(meldung[m]) BY <1>1, <2>1 DEF BoardIInv
  <2>3. neu \in MeldungZeilen /\ neu.spalte = meldung[m].spalte /\ neu.fzg = v
    BY <2>2 DEF MeldungZeilen
  <2>4. MeldungGut(neu) BY <2>1, <2>2, <2>3 DEF MeldungGut
  <2> HIDE DEF neu
  <2> QED BY <2>1, <2>3, <2>4, MeldungSetzen
<1>4. ASSUME NEW m \in Meldungen, NEW s, SetMessageAmpel(m, s) PROVE BoardSchritt
  <2> DEFINE neu == [[meldung[m] EXCEPT !.done = (s = "erledigt")]
                       EXCEPT !.storniert = (s = "storniert")]
  <2>1. /\ meldung' = [meldung EXCEPT ![m] = neu] /\ meldung[m] # None
        /\ abschnitt' = abschnitt /\ fzg' = fzg /\ auftrag' = auftrag /\ person' = person
    BY <1>1, <1>4 DEF SetMessageAmpel
  <2>2. meldung[m] \in MeldungZeilen /\ MeldungGut(meldung[m]) BY <1>1, <2>1 DEF BoardIInv
  <2>3. neu \in MeldungZeilen /\ neu.spalte = meldung[m].spalte /\ neu.fzg = meldung[m].fzg
    BY <2>2 DEF MeldungZeilen
  <2>4. MeldungGut(neu) BY <2>1, <2>2, <2>3 DEF MeldungGut
  <2> HIDE DEF neu
  <2> QED BY <2>1, <2>3, <2>4, MeldungSetzen
<1>5. ASSUME NEW m \in Meldungen, ToggleMessage(m) PROVE BoardSchritt
  <2> DEFINE neu == [meldung[m] EXCEPT !.done = ~meldung[m].done]
  <2>1. /\ meldung' = [meldung EXCEPT ![m] = neu] /\ meldung[m] # None
        /\ abschnitt' = abschnitt /\ fzg' = fzg /\ auftrag' = auftrag /\ person' = person
    BY <1>1, <1>5 DEF ToggleMessage
  <2>2. meldung[m] \in MeldungZeilen /\ MeldungGut(meldung[m]) BY <1>1, <2>1 DEF BoardIInv
  <2>3. neu \in MeldungZeilen /\ neu.spalte = meldung[m].spalte /\ neu.fzg = meldung[m].fzg
    BY <2>2 DEF MeldungZeilen
  <2>4. MeldungGut(neu) BY <2>1, <2>2, <2>3 DEF MeldungGut
  <2> HIDE DEF neu
  <2> QED BY <2>1, <2>3, <2>4, MeldungSetzen
<1> QED BY <1>2, <1>3, <1>4, <1>5 DEF MeldungSchritt

LEMMA PersonSchrittErhaelt ==
  ASSUME BoardIInv, PersonSchritt
  PROVE  BoardSchritt
<1>1. person \in [Personen -> PersonZeilen \cup {None}] BY DEF BoardIInv, BoardTypen
<1>2. ASSUME NEW p \in Personen, NEW v \in Fahrzeuge \cup {None},
             CreatePerson(p, v) \/ UpdatePerson(p, v)
      PROVE  BoardSchritt
  <2>1. PICK neu \in PersonZeilen : person' = [person EXCEPT ![p] = neu]
    <3>1. CASE CreatePerson(p, v)
      <4>1. [fzg |-> v] \in PersonZeilen BY DEF PersonZeilen
      <4> QED BY <3>1, <4>1 DEF CreatePerson
    <3>2. CASE UpdatePerson(p, v)
      <4>1. person[p] \in PersonZeilen BY <1>1, <3>2 DEF UpdatePerson
      <4>2. [person[p] EXCEPT !.fzg = v] \in PersonZeilen BY <4>1 DEF PersonZeilen
      <4>3. person' = [person EXCEPT ![p] = [person[p] EXCEPT !.fzg = v]]
        BY <1>1, <3>2 DEF UpdatePerson
      <4> QED BY <4>2, <4>3
    <3> QED BY <1>2, <3>1, <3>2
  <2>2. abschnitt' = abschnitt /\ fzg' = fzg /\ auftrag' = auftrag /\ meldung' = meldung
    BY <1>2 DEF CreatePerson, UpdatePerson
  <2> QED BY <2>1, <2>2, PersonSetzen
<1>3. ASSUME NEW p \in Personen, DeletePerson(p) PROVE BoardSchritt
  BY <1>3, PersonSetzen DEF DeletePerson
<1> QED BY <1>2, <1>3 DEF PersonSchritt

-----------------------------------------------------------------------------
(* Columns, drag and drop *)

\* A section goes only when nothing is in it.
LEMMA AbschnittErhaelt ==
  ASSUME BoardIInv, CreateSection \/ DeleteSection
  PROVE  BoardSchritt
<1>1. /\ fzg' = fzg /\ auftrag' = auftrag /\ meldung' = meldung /\ person' = person
      /\ abschnitt' \in BOOLEAN
  BY DEF CreateSection, DeleteSection
<1>2. CASE CreateSection
  <2>1. abschnitt' BY <1>2 DEF CreateSection
  <2> QED BY <1>1, <2>1, OhneFahrzeug
          DEF BoardSchritt, BoardIInv, BoardTypen, FahrzeugGut, AuftragGut, MeldungGut
<1>3. CASE DeleteSection
  <2>1. InSpalte("section") = {} BY <1>3 DEF DeleteSection, Leer
  <2>2. /\ \A v \in Fahrzeuge : fzg[v] # None => fzg[v].spalte # "section"
        /\ \A t \in Auftraege : auftrag[t] # None => auftrag[t].spalte # "section"
        /\ \A m \in Meldungen : meldung[m] # None => meldung[m].spalte # "section"
    BY <2>1 DEF InSpalte
  <2> QED BY <1>1, <2>2, OhneFahrzeug
          DEF BoardSchritt, BoardIInv, BoardTypen, FahrzeugGut, AuftragGut, MeldungGut
<1> QED BY <1>2, <1>3

\* A drag puts a unit into "Disponiert" only when it is not on site.
LEMMA KarteInSpalteErhaelt ==
  ASSUME BoardIInv, NEW k \in Karten, NEW c \in Ziele(k), NEW zone, KarteInSpalte(k, c, zone),
         Ziehen(k, c)
  PROVE  BoardSchritt
<1>1. /\ fzg \in [Fahrzeuge -> FahrzeugZeilen \cup {None}]
      /\ auftrag \in [Auftraege -> AuftragZeilen \cup {None}]
      /\ meldung \in [Meldungen -> MeldungZeilen \cup {None}]
      /\ person \in [Personen -> PersonZeilen \cup {None}]
  BY DEF BoardIInv, BoardTypen
<1>2. c \in Spalten /\ (k \in Fahrzeuge => c \in FahrzeugSpalten)
  BY DEF Ziele, Spalten, FesteSpalten, FahrzeugSpalten
<1>3. Existiert(c) /\ abschnitt' = abschnitt BY DEF KarteInSpalte
<1>4. CASE k \in Fahrzeuge
  <2> DEFINE neu == NachSpalte(k, c)
  <2>1. /\ fzg' = [fzg EXCEPT ![k] = neu] /\ fzg[k] # None
        /\ auftrag' = auftrag /\ meldung' = meldung /\ person' = person
    BY <1>4, KartenAssumption DEF KarteInSpalte
  <2>2. fzg[k] \in FahrzeugZeilen BY <1>1, <1>4, <2>1
  <2>3. neu \in FahrzeugZeilen /\ neu.spalte = c
    BY <1>2, <1>4, <2>2 DEF NachSpalte, FahrzeugZeilen
  <2>4. ~(neu.spalte = "dispatched" /\ neu.status = "vorort") BY <2>2 DEF NachSpalte, FahrzeugZeilen
  <2>5. neu # None /\ FahrzeugGut(neu)
    BY <1>2, <1>3, <2>3, SpalteDa, BoardNoneAssumption DEF FahrzeugGut
  <2> HIDE DEF neu
  <2>6. /\ fzg' \in [Fahrzeuge -> FahrzeugZeilen \cup {None}] /\ fzg'[k] = neu
        /\ \A x \in Fahrzeuge \ {k} : fzg'[x] = fzg[x]
    BY <1>1, <1>4, <2>1, <2>3
  <2>7. BoardIInv' BY <1>3, <2>1, <2>5, <2>6, FahrzeugeSetzen DEF BoardIInv
  <2>8. neu # [spalte |-> "dispatched", status |-> "vorort"] BY <2>4
  <2> QED BY <1>2, <2>6, <2>7, <2>8 DEF BoardSchritt, StatusFolgt
<1>5. CASE k \in Auftraege
  <2> DEFINE neu == [[auftrag[k] EXCEPT !.spalte = c] EXCEPT !.fzg = None]
  <2>1. /\ auftrag' = [auftrag EXCEPT ![k] = neu] /\ auftrag[k] # None
        /\ fzg' = fzg /\ meldung' = meldung /\ person' = person
    BY <1>1, <1>5, KartenAssumption DEF KarteInSpalte
  <2>2. auftrag[k] \in AuftragZeilen /\ AuftragGut(auftrag[k]) BY <1>1, <1>5, <2>1 DEF BoardIInv
  <2>3. /\ neu \in AuftragZeilen /\ neu.spalte = c /\ neu.fzg = None
        /\ neu.done = auftrag[k].done /\ neu.status = auftrag[k].status
    BY <1>2, <2>2 DEF AuftragZeilen
  <2>4. AuftragGut(neu) BY <1>2, <1>3, <2>1, <2>2, <2>3, SpalteDa DEF AuftragGut
  <2> HIDE DEF neu
  <2> QED BY <1>3, <1>5, <2>1, <2>3, <2>4, AuftragSetzen
<1>6. CASE k \in Meldungen
  <2> DEFINE neu == [[meldung[k] EXCEPT !.spalte = c] EXCEPT !.fzg = None]
  <2>1. /\ meldung' = [meldung EXCEPT ![k] = neu] /\ meldung[k] # None
        /\ fzg' = fzg /\ auftrag' = auftrag /\ person' = person
    BY <1>1, <1>6, KartenAssumption DEF KarteInSpalte
  <2>2. meldung[k] \in MeldungZeilen BY <1>1, <1>6, <2>1
  <2>3. neu \in MeldungZeilen /\ neu.spalte = c /\ neu.fzg = None BY <1>2, <2>2 DEF MeldungZeilen
  <2>4. MeldungGut(neu) BY <1>2, <1>3, <2>3, SpalteDa DEF MeldungGut
  <2> HIDE DEF neu
  <2> QED BY <1>3, <1>6, <2>1, <2>3, <2>4, MeldungSetzen
<1>7. CASE k \in Personen
  <2> DEFINE neu == [person[k] EXCEPT !.fzg = None]
  <2>1. /\ person' = [person EXCEPT ![k] = neu] /\ person[k] # None
        /\ fzg' = fzg /\ auftrag' = auftrag /\ meldung' = meldung
    BY <1>1, <1>7, KartenAssumption DEF KarteInSpalte
  <2>2. person[k] \in PersonZeilen BY <1>1, <1>7, <2>1
  <2>3. neu \in PersonZeilen BY <2>2 DEF PersonZeilen
  <2> HIDE DEF neu
  <2> QED BY <1>3, <1>7, <2>1, <2>3, PersonSetzen
<1> QED BY <1>4, <1>5, <1>6, <1>7 DEF Karten

LEMMA KarteAufFahrzeugErhaelt ==
  ASSUME BoardIInv, NEW k \in Karten \ Fahrzeuge, NEW v \in Fahrzeuge, KarteAufFahrzeug(k, v)
  PROVE  BoardSchritt
<1>1. /\ auftrag \in [Auftraege -> AuftragZeilen \cup {None}]
      /\ meldung \in [Meldungen -> MeldungZeilen \cup {None}]
      /\ person \in [Personen -> PersonZeilen \cup {None}]
  BY DEF BoardIInv, BoardTypen
<1>2. fzg[v] # None /\ abschnitt' = abschnitt /\ fzg' = fzg BY DEF KarteAufFahrzeug
<1>3. CASE k \in Auftraege
  <2> DEFINE neu == [[auftrag[k] EXCEPT !.spalte = None] EXCEPT !.fzg = v]
  <2>1. /\ auftrag' = [auftrag EXCEPT ![k] = neu] /\ auftrag[k] # None
        /\ meldung' = meldung /\ person' = person
    BY <1>1, <1>3, KartenAssumption DEF KarteAufFahrzeug
  <2>2. auftrag[k] \in AuftragZeilen /\ AuftragGut(auftrag[k]) BY <1>1, <1>3, <2>1 DEF BoardIInv
  <2>3. /\ neu \in AuftragZeilen /\ neu.spalte = None /\ neu.fzg = v
        /\ neu.done = auftrag[k].done /\ neu.status = auftrag[k].status
    BY <2>2 DEF AuftragZeilen
  <2>4. AuftragGut(neu)
    BY <1>2, <2>1, <2>2, <2>3, BoardNoneAssumption DEF AuftragGut, Spalten
  <2> HIDE DEF neu
  <2> QED BY <1>2, <1>3, <2>1, <2>3, <2>4, AuftragSetzen
<1>4. CASE k \in Meldungen
  <2> DEFINE neu == [meldung[k] EXCEPT !.fzg = v]
  <2>1. /\ meldung' = [meldung EXCEPT ![k] = neu] /\ meldung[k] # None
        /\ auftrag' = auftrag /\ person' = person
    BY <1>1, <1>4, KartenAssumption DEF KarteAufFahrzeug
  <2>2. meldung[k] \in MeldungZeilen /\ MeldungGut(meldung[k]) BY <1>1, <1>4, <2>1 DEF BoardIInv
  <2>3. neu \in MeldungZeilen /\ neu.spalte = meldung[k].spalte /\ neu.fzg = v
    BY <2>2 DEF MeldungZeilen
  <2>4. MeldungGut(neu) BY <1>2, <2>1, <2>2, <2>3 DEF MeldungGut
  <2> HIDE DEF neu
  <2> QED BY <1>2, <1>4, <2>1, <2>3, <2>4, MeldungSetzen
<1>5. CASE k \in Personen
  <2> DEFINE neu == [person[k] EXCEPT !.fzg = v]
  <2>1. /\ person' = [person EXCEPT ![k] = neu] /\ person[k] # None
        /\ auftrag' = auftrag /\ meldung' = meldung
    BY <1>1, <1>5, KartenAssumption DEF KarteAufFahrzeug
  <2>2. person[k] \in PersonZeilen BY <1>1, <1>5, <2>1
  <2>3. neu \in PersonZeilen BY <2>2 DEF PersonZeilen
  <2> HIDE DEF neu
  <2> QED BY <1>2, <1>5, <2>1, <2>3, PersonSetzen
<1> QED BY <1>3, <1>4, <1>5 DEF Karten

LEMMA SpaltenSchrittErhaelt ==
  ASSUME BoardIInv, SpaltenSchritt
  PROVE  BoardSchritt
<1>1. ASSUME NEW c, SeiteLaden(c) PROVE BoardSchritt
  BY <1>1, BleibtGleich DEF SeiteLaden
<1>2. ASSUME NEW k \in Karten, NEW c \in Ziele(k), Ziehen(k, c) PROVE BoardSchritt
  <2>1. PICK zone : KarteInSpalte(k, c, zone) BY <1>2 DEF Ziehen
  <2> QED BY <1>2, <2>1, KarteInSpalteErhaelt
<1> QED BY <1>1, <1>2, AbschnittErhaelt, KarteAufFahrzeugErhaelt DEF SpaltenSchritt

-----------------------------------------------------------------------------
(* The theorem *)

LEMMA BoardAnfang == BoardInit => BoardIInv
<1> SUFFICES ASSUME BoardInit PROVE BoardIInv OBVIOUS
<1> DEFINE f0 == [spalte |-> "dispatched", status |-> "uebernommen"]
           m0 == [spalte |-> "messages", fzg |-> None, done |-> FALSE, storniert |-> FALSE]
<1>1. f0 \in FahrzeugZeilen /\ f0.spalte = "dispatched" BY DEF FahrzeugZeilen, FahrzeugSpalten
<1>2. m0 \in MeldungZeilen /\ m0.spalte = "messages" /\ m0.fzg = None
  BY DEF MeldungZeilen, Spalten, FesteSpalten
<1>3. /\ fzg \in [Fahrzeuge -> {None, f0}] /\ meldung \in [Meldungen -> {None, m0}]
      /\ abschnitt = FALSE /\ auftrag = [t \in Auftraege |-> None]
      /\ person = [p \in Personen |-> None]
  BY DEF BoardInit, MitFahrzeugen, MitMeldungen
<1> HIDE DEF f0, m0
<1>4. BoardTypen BY <1>1, <1>2, <1>3 DEF BoardTypen
<1> QED BY <1>1, <1>2, <1>3, <1>4 DEF BoardIInv, FahrzeugGut, AuftragGut, MeldungGut

LEMMA BoardNextErhaelt == BoardIInv /\ [BoardNext]_boardVars => BoardSchritt
<1> SUFFICES ASSUME BoardIInv, [BoardNext]_boardVars PROVE BoardSchritt OBVIOUS
<1>1. CASE UNCHANGED boardVars BY <1>1, BleibtGleich DEF boardVars
<1>2. CASE BoardNext
  BY <1>2, FahrzeugSchrittErhaelt, AuftragSchrittErhaelt, MeldungSchrittErhaelt,
     PersonSchrittErhaelt, SpaltenSchrittErhaelt DEF BoardNext
<1> QED BY <1>1, <1>2

LEMMA BoardIInvFolgt == BoardIInv => KartenGueltig /\ StatusUndHaken
<1> SUFFICES ASSUME BoardIInv PROVE KartenGueltig /\ StatusUndHaken OBVIOUS
<1>1. ASSUME NEW v \in Fahrzeuge, fzg[v] # None
      PROVE  /\ fzg[v].spalte \in FahrzeugSpalten
             /\ fzg[v].status \in {"uebernommen", "vorort", "bereit"} /\ Existiert(fzg[v].spalte)
  <2>1. fzg[v] \in FahrzeugZeilen /\ FahrzeugGut(fzg[v]) BY <1>1 DEF BoardIInv, BoardTypen
  <2> QED BY <1>1, <2>1 DEF FahrzeugZeilen, FahrzeugGut, FahrzeugSpalten, Existiert, FesteSpalten
<1>2. ASSUME NEW t \in Auftraege, auftrag[t] # None
      PROVE  /\ auftrag[t].spalte # None =>
                  auftrag[t].spalte \in Spalten /\ Existiert(auftrag[t].spalte)
             /\ auftrag[t].fzg # None => fzg[auftrag[t].fzg] # None
             /\ auftrag[t].status \in {"open", "in_progress", "done", "cancelled"}
             /\ auftrag[t].done <=> auftrag[t].status = "done"
  <2>1. auftrag[t] \in AuftragZeilen /\ AuftragGut(auftrag[t]) BY <1>2 DEF BoardIInv, BoardTypen
  <2> QED BY <1>2, <2>1, SpalteDa DEF AuftragZeilen, AuftragGut
<1>3. ASSUME NEW m \in Meldungen, meldung[m] # None
      PROVE  /\ meldung[m].spalte \in Spalten /\ Existiert(meldung[m].spalte)
             /\ meldung[m].fzg # None => fzg[meldung[m].fzg] # None
  <2>1. meldung[m] \in MeldungZeilen /\ MeldungGut(meldung[m]) BY <1>3 DEF BoardIInv, BoardTypen
  <2> QED BY <1>3, <2>1, SpalteDa DEF MeldungZeilen, MeldungGut
<1> QED BY <1>1, <1>2, <1>3 DEF KartenGueltig, StatusUndHaken

\* The board, for any number of cards (incident_service.py, ui_incident.py): every card is
\* in a column and at a vehicle that exist, flag and status of a task agree on every path,
\* and a unit's column and status follow each other.
THEOREM BoardHaelt ==
  BoardSpec => []KartenGueltig /\ []StatusUndHaken /\ StatusFolgtSpalte
<1> DEFINE Folgen == \A v \in Fahrzeuge : StatusFolgt(v)
<1>1. BoardInit => BoardIInv BY BoardAnfang
<1>2. BoardIInv /\ [BoardNext]_boardVars => BoardIInv' /\ [Folgen]_boardVars
  BY BoardNextErhaelt DEF BoardSchritt
<1>3. BoardIInv => KartenGueltig /\ StatusUndHaken BY BoardIInvFolgt
<1>4. StatusFolgtSpalte <=> [][Folgen]_boardVars BY DEF StatusFolgtSpalte, StatusFolgt
<1> HIDE DEF Folgen
<1> QED BY <1>1, <1>2, <1>3, <1>4, PTL DEF BoardSpec
=============================================================================
