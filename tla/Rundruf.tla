------------------------------ MODULE Rundruf ------------------------------
(***************************************************************************)
(* The registry of the browsers that watch one incident, as one worker     *)
(* keeps it, and the broadcasts to them. Each send is awaited, so that     *)
(* browsers come and go and other broadcasts run in between.               *)
(*                                                                         *)
(* Source: ConnectionManager in app/services/broadcast.py and incident_ws  *)
(* (as lage_ws and global_ws) in app/routers/ws.py.                        *)
(*                                                                         *)
(* A browser that reconnects is another socket. The network may break a    *)
(* socket without either side being told.                                  *)
(***************************************************************************)
EXTENDS FiniteSets

CONSTANTS
  Sockets,   \* connections of browsers
  Rufe       \* broadcasts

VARIABLES
  endpunkt,  \* per socket: "neu", "liest" (incident_ws), "beendet"
  leitung,   \* the sockets whose connection works
  registry,  \* _connections of the incident
  ruf,       \* per broadcast: what it still does
  erhalten   \* history: the sockets a broadcast reached

rundrufVars == <<endpunkt, leitung, registry, ruf, erhalten>>

Ungerufen == [stand |-> "offen", alle |-> {}, rest |-> {}, tot |-> {}]

-----------------------------------------------------------------------------
(* incident_ws *)

\* connect: accept is awaited; what happens before the socket is entered under
\* the lock does not concern the registry.
Eintragen(s) ==
  /\ endpunkt[s] = "neu"
  /\ endpunkt' = [endpunkt EXCEPT ![s] = "liest"]
  /\ registry' = registry \cup {s}
  /\ UNCHANGED <<leitung, ruf, erhalten>>

LeitungBricht(s) ==
  /\ endpunkt[s] = "liest" /\ s \in leitung
  /\ leitung' = leitung \ {s}
  /\ UNCHANGED <<endpunkt, registry, ruf, erhalten>>

\* disconnect after WebSocketDisconnect; a pong that fails with another
\* exception leaves the loop without it.
EndpunktEndet(s) ==
  /\ endpunkt[s] = "liest" /\ s \notin leitung
  /\ endpunkt' = [endpunkt EXCEPT ![s] = "beendet"]
  /\ registry' \in {registry \ {s}, registry}
  /\ UNCHANGED <<leitung, ruf, erhalten>>

-----------------------------------------------------------------------------
(* broadcast *)

\* A copy of the channel is walked through.
Rufen(b) ==
  /\ ruf[b].stand = "offen"
  /\ ruf' = [ruf EXCEPT ![b] = [stand |-> "sendet", alle |-> registry, rest |-> registry,
                               tot |-> {}]]
  /\ UNCHANGED <<endpunkt, leitung, registry, erhalten>>

NachFehler(r, s) == [r EXCEPT !.rest = @ \ {s}, !.tot = @ \cup {s}]

\* send_text: to a socket that works, or to one that is broken, where it fails
\* or is lost in a buffer.
RufSenden(b, s) ==
  /\ ruf[b].stand = "sendet" /\ s \in ruf[b].rest
  /\ \/ /\ s \in leitung
        /\ ruf' = [ruf EXCEPT ![b].rest = @ \ {s}]
        /\ erhalten' = [erhalten EXCEPT ![b] = @ \cup {s}]
     \/ /\ s \notin leitung
        /\ ruf' = [ruf EXCEPT ![b] = NachFehler(@, s)]
        /\ UNCHANGED erhalten
     \/ /\ s \notin leitung /\ endpunkt[s] = "liest"
        /\ ruf' = [ruf EXCEPT ![b].rest = @ \ {s}]
        /\ UNCHANGED erhalten
  /\ UNCHANGED <<endpunkt, leitung, registry>>

\* Mutant: the copy without the dead sockets is written back.
AusDerKopie(r) == r.alle \ r.tot

OhneTote(r) == registry \ r.tot

\* Under the lock; also of a socket that was taken out meanwhile.
Aufraeumen(b) ==
  /\ ruf[b].stand = "sendet" /\ ruf[b].rest = {}
  /\ registry' = IF ruf[b].tot = {} THEN registry ELSE OhneTote(ruf[b])
  /\ ruf' = [ruf EXCEPT ![b].stand = "fertig"]
  /\ UNCHANGED <<endpunkt, leitung, erhalten>>

-----------------------------------------------------------------------------

RundrufInit ==
  /\ endpunkt = [s \in Sockets |-> "neu"]
  /\ leitung = Sockets
  /\ registry = {}
  /\ ruf = [b \in Rufe |-> Ungerufen]
  /\ erhalten = [b \in Rufe |-> {}]

Zustellung(b) == (\E s \in Sockets : RufSenden(b, s)) \/ Aufraeumen(b)

RundrufNext ==
  \/ \E s \in Sockets :
       Eintragen(s) \/ LeitungBricht(s) \/ EndpunktEndet(s)
  \/ \E b \in Rufe : Rufen(b) \/ Zustellung(b)

RundrufSpec == RundrufInit /\ [][RundrufNext]_rundrufVars

-----------------------------------------------------------------------------
(* Properties *)

RundrufTypeOK ==
  /\ endpunkt \in [Sockets -> {"neu", "liest", "beendet"}]
  /\ registry \subseteq {s \in Sockets : endpunkt[s] \in {"liest", "beendet"}}
  /\ \A b \in Rufe : ruf[b].rest \cup ruf[b].tot \subseteq ruf[b].alle

\* A browser whose connection works stays registered, whatever broadcasts clean
\* up around it.
VerbundeneBleiben ==
  \A s \in leitung : endpunkt[s] = "liest" => s \in registry

\* A broadcast that is over has reached every browser that was registered when it
\* began and is connected still, however many others were dead.
AlleVerbundenenErreicht ==
  \A b \in Rufe : ruf[b].stand = "fertig" => ruf[b].alle \cap leitung \subseteq erhalten[b]

\* What a broadcast promises: it reaches every browser that stays connected, and
\* removes none of them from the registry.
RundrufVersprechen ==
  /\ RundrufTypeOK
  /\ VerbundeneBleiben
  /\ AlleVerbundenenErreicht
=============================================================================
