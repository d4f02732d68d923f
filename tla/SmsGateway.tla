----------------------------- MODULE SmsGateway -----------------------------
(***************************************************************************)
(* SMS over the gateways of one organisation: the smsRegistry of connected *)
(* gateways, the jobs sent to them and the answers, in one worker process. *)
(*                                                                         *)
(* Source: sms_gateway_ws, dispatch_sms, is_sms_gateway_connected and      *)
(* _discard_gateway of app/routers/ws.py, called by                        *)
(* app/services/sms_service.py. The smsRegistry and the futures live in the*)
(* memory of one process, so two workers are two copies of this module.    *)
(*                                                                         *)
(* The coroutines of one event loop interleave at every await: while a     *)
(* message is sent and while the answer is awaited. A line can break       *)
(* without the server noticing; the gateway and the network are external.  *)
(***************************************************************************)
EXTENDS Naturals, SequencesExt

CONSTANTS
  Verbindungen,  \* bound: websocket connections of gateways
  SmsAuftraege      \* calls of dispatch_sms, each with a job id of its own

VARIABLES
  smsLeitung,    \* per connection: "neu", "offen", "tot" (broken, unnoticed), "zu"
  smsRegistry,   \* _sms_gateways: the connected gateways, newest last
  smsAuftrag,    \* per job: "neu", "sendet", "wartet", "ok" or "fehler"
  rest,       \* per job: the connections of its snapshot not tried yet, the
              \* current one included
  pending,    \* _sms_pending: jobs with a future in the table
  antwort,    \* per job: the result of its future, "keine" while it is open
  smsErhalten,   \* per job: connections whose gateway received it
  unterwegs   \* answers on their way: pairs of job and result

smsVars == <<smsLeitung, smsRegistry, smsAuftrag, rest, pending, antwort, smsErhalten, unterwegs>>

\* The line the job is sent on: the newest one left.
AktuelleLeitung(j) == Last(rest[j])

\* list.remove: the first occurrence leaves.
Ohne(r, c) == RemoveFirst(r, c)

-----------------------------------------------------------------------------
(* sms_gateway_ws *)

Verbinden(c) ==
  /\ smsLeitung[c] = "neu"
  /\ smsLeitung' = [smsLeitung EXCEPT ![c] = "offen"]
  /\ smsRegistry' = Append(smsRegistry, c)
  /\ UNCHANGED <<smsAuftrag, rest, pending, antwort, smsErhalten, unterwegs>>

\* The receiving loop ends, by a close frame or by the keep-alive.
Trennen(c) ==
  /\ smsLeitung[c] \in {"offen", "tot"}
  /\ smsLeitung' = [smsLeitung EXCEPT ![c] = "zu"]
  /\ smsRegistry' = Ohne(smsRegistry, c)
  /\ UNCHANGED <<smsAuftrag, rest, pending, antwort, smsErhalten, unterwegs>>

\* An answer, over any open line: the job's future leaves the table and is
\* resolved. For a job that is not in the table the answer is dropped.
AntwortEmpfangen(j, ergebnis) ==
  /\ <<j, ergebnis>> \in unterwegs
  /\ \E c \in Verbindungen : smsLeitung[c] = "offen"
  /\ unterwegs' = unterwegs \ {<<j, ergebnis>>}
  /\ pending' = pending \ {j}
  /\ antwort' = [antwort EXCEPT ![j] =
                   IF j \in pending /\ @ = "keine" THEN ergebnis ELSE @]
  /\ UNCHANGED <<smsLeitung, smsRegistry, smsAuftrag, rest, smsErhalten>>

-----------------------------------------------------------------------------
(* dispatch_sms *)

\* The snapshot of the smsRegistry, and the RuntimeError without a gateway.
DispatchBeginnen(j) ==
  /\ smsAuftrag[j] = "neu"
  /\ rest' = [rest EXCEPT ![j] = smsRegistry]
  /\ IF smsRegistry = <<>>
     THEN /\ smsAuftrag' = [smsAuftrag EXCEPT ![j] = "fehler"]
          /\ UNCHANGED <<pending, smsErhalten>>
     ELSE /\ smsAuftrag' = [smsAuftrag EXCEPT ![j] = "sendet"]
          /\ pending' = pending \cup {j}
          /\ smsErhalten' = [smsErhalten EXCEPT ![j] =
               @ \cup {c \in {Last(smsRegistry)} : smsLeitung[c] = "offen"}]
  /\ UNCHANGED <<smsLeitung, smsRegistry, antwort, unterwegs>>

\* send_text returns: on an open line, or into the buffer of a broken one.
SendenGelungen(j) ==
  /\ smsAuftrag[j] = "sendet"
  /\ smsLeitung[AktuelleLeitung(j)] \in {"offen", "tot"}
  /\ smsAuftrag' = [smsAuftrag EXCEPT ![j] = "wartet"]
  /\ UNCHANGED <<smsLeitung, smsRegistry, rest, pending, antwort, smsErhalten, unterwegs>>

\* send_text raises: the line is dropped and the next one of the snapshot is
\* tried, with a new future.
SendenGescheitert(j) ==
  /\ smsAuftrag[j] = "sendet"
  /\ smsLeitung[AktuelleLeitung(j)] \in {"tot", "zu"}
  /\ smsRegistry' = Ohne(smsRegistry, AktuelleLeitung(j))
  /\ rest' = [rest EXCEPT ![j] = Front(@)]
  /\ antwort' = [antwort EXCEPT ![j] = "keine"]
  /\ IF rest'[j] = <<>>
     THEN /\ smsAuftrag' = [smsAuftrag EXCEPT ![j] = "fehler"]
          /\ pending' = pending \ {j}
          /\ UNCHANGED smsErhalten
     ELSE /\ pending' = pending \cup {j}
          /\ smsErhalten' = [smsErhalten EXCEPT ![j] =
               @ \cup {c \in {Last(rest'[j])} : smsLeitung[c] = "offen"}]
          /\ UNCHANGED smsAuftrag
  /\ UNCHANGED <<smsLeitung, unterwegs>>

\* wait_for returns the answer.
Ergebnis(j) ==
  /\ smsAuftrag[j] = "wartet"
  /\ antwort[j] # "keine"
  /\ smsAuftrag' = [smsAuftrag EXCEPT ![j] = antwort[j]]
  /\ UNCHANGED <<smsLeitung, smsRegistry, rest, pending, antwort, smsErhalten, unterwegs>>

\* Mutant: the future stays in the table.
ZeitablaufOhneAustragen(j) ==
  /\ smsAuftrag[j] = "wartet"
  /\ antwort[j] = "keine"
  /\ smsAuftrag' = [smsAuftrag EXCEPT ![j] = "fehler"]
  /\ UNCHANGED <<smsLeitung, smsRegistry, rest, pending, antwort, smsErhalten, unterwegs>>

\* Mutant: a job waits as long as its line is up.
ZeitablaufNurOhneLeitung(j) ==
  /\ smsAuftrag[j] = "wartet"
  /\ antwort[j] = "keine" /\ smsLeitung[AktuelleLeitung(j)] # "offen"
  /\ smsAuftrag' = [smsAuftrag EXCEPT ![j] = "fehler"]
  /\ pending' = pending \ {j}
  /\ UNCHANGED <<smsLeitung, smsRegistry, rest, antwort, smsErhalten, unterwegs>>

Zeitablauf(j) ==
  /\ smsAuftrag[j] = "wartet"
  /\ antwort[j] = "keine"
  /\ smsAuftrag' = [smsAuftrag EXCEPT ![j] = "fehler"]
  /\ pending' = pending \ {j}
  /\ UNCHANGED <<smsLeitung, smsRegistry, rest, antwort, smsErhalten, unterwegs>>

-----------------------------------------------------------------------------
(* The gateway and the network *)

\* A gateway that has the job sends the SMS and answers, at most once per job
\* and result; the answer takes its time.
GatewayAntwortet(j, ergebnis) ==
  /\ smsErhalten[j] # {}
  /\ \A e \in {"ok", "fehler"} : <<j, e>> \notin unterwegs
  /\ antwort[j] = "keine"
  /\ unterwegs' = unterwegs \cup {<<j, ergebnis>>}
  /\ UNCHANGED <<smsLeitung, smsRegistry, smsAuftrag, rest, pending, antwort, smsErhalten>>

SmsLeitungBricht(c) ==
  /\ smsLeitung[c] = "offen"
  /\ smsLeitung' = [smsLeitung EXCEPT ![c] = "tot"]
  /\ UNCHANGED <<smsRegistry, smsAuftrag, rest, pending, antwort, smsErhalten, unterwegs>>

AntwortVerloren(j, ergebnis) ==
  /\ <<j, ergebnis>> \in unterwegs
  /\ unterwegs' = unterwegs \ {<<j, ergebnis>>}
  /\ UNCHANGED <<smsLeitung, smsRegistry, smsAuftrag, rest, pending, antwort, smsErhalten>>

-----------------------------------------------------------------------------

SmsInit ==
  /\ smsLeitung = [c \in Verbindungen |-> "neu"]
  /\ smsRegistry = <<>>
  /\ smsAuftrag = [j \in SmsAuftraege |-> "neu"]
  /\ rest = [j \in SmsAuftraege |-> <<>>]
  /\ pending = {}
  /\ antwort = [j \in SmsAuftraege |-> "keine"]
  /\ smsErhalten = [j \in SmsAuftraege |-> {}]
  /\ unterwegs = {}

\* What the server does by itself once a job has begun.
Fortgang(j) ==
  SendenGelungen(j) \/ SendenGescheitert(j) \/ Ergebnis(j) \/ Zeitablauf(j)

SmsNext ==
  \/ \E c \in Verbindungen : Verbinden(c) \/ Trennen(c) \/ SmsLeitungBricht(c)
  \/ \E j \in SmsAuftraege : DispatchBeginnen(j) \/ Fortgang(j)
  \/ \E j \in SmsAuftraege, ergebnis \in {"ok", "fehler"} :
       \/ GatewayAntwortet(j, ergebnis)
       \/ AntwortEmpfangen(j, ergebnis)
       \/ AntwortVerloren(j, ergebnis)

\* A send returns or raises, and the timeout of 15 s fires.
SmsSpec == SmsInit /\ [][SmsNext]_smsVars /\ \A j \in SmsAuftraege : WF_smsVars(Fortgang(j))

-----------------------------------------------------------------------------
(* Properties *)

\* Registry and table of futures hold what their users expect: connections once
\* each, futures only of jobs under way.
SmsTypeOK ==
  /\ smsLeitung \in [Verbindungen -> {"neu", "offen", "tot", "zu"}]
  /\ ToSet(smsRegistry) \subseteq Verbindungen
  /\ smsAuftrag \in [SmsAuftraege -> {"neu", "sendet", "wartet", "ok", "fehler"}]
  /\ \A j \in SmsAuftraege : /\ ToSet(rest[j]) \subseteq Verbindungen
                          /\ smsAuftrag[j] \in {"sendet", "wartet"} => rest[j] # <<>>
  /\ antwort \in [SmsAuftraege -> {"keine", "ok", "fehler"}]
  /\ smsErhalten \in [SmsAuftraege -> SUBSET Verbindungen]

\* After its handler has ended a gateway is never in the registry again, in whatever
\* order sending jobs, reconnects and the end of handlers touch it: what
\* is_sms_gateway_connected counts is open, or broken without the server knowing.
RegistryOhneGetrennte ==
  /\ \A c \in ToSet(smsRegistry) : smsLeitung[c] \in {"offen", "tot"}
  /\ IsInjective(smsRegistry)

\* A future is in the table exactly while its job can still use an answer: one that
\* arrives then is taken, a later one finds nothing. An answer may still get lost on
\* its way, which ends the job by its timeout.
FutureWirdGebraucht ==
  \A j \in SmsAuftraege :
    (j \in pending) <=> (smsAuftrag[j] \in {"sendet", "wartet"} /\ antwort[j] = "keine")

\* A job is handed to a second gateway only after the line to the first one broke or
\* was closed, never after a timeout. The gateway may have got the job before its line
\* broke: the comment of dispatch_sms (ws.py:264) wants no double SMS after a timeout,
\* and a broken line can still cause one.
ZweiterNurNachBruch ==
  \A j \in SmsAuftraege : \A c \in smsErhalten[j] :
    smsLeitung[c] = "offen" => smsAuftrag[j] # "neu" /\ c = AktuelleLeitung(j)

\* Every call of dispatch_sms ends, whatever gateways do.
DispatchEndet ==
  \A j \in SmsAuftraege : smsAuftrag[j] = "sendet" ~> smsAuftrag[j] \in {"ok", "fehler"}

\* What the code keeps: the registry holds no closed connection, a future is in the
\* table exactly while its job can use an answer, and a second gateway gets a job only
\* after the line to the first one ended.
GatewayVersprechen ==
  /\ SmsTypeOK
  /\ RegistryOhneGetrennte
  /\ FutureWirdGebraucht
  /\ ZweiterNurNachBruch
=============================================================================
