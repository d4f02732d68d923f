# TLA+ specifications of the Einsatzleiter-Hilfswerkzeug

The program is a web application for fire services: an incident commander runs
incidents ("Einsätze") and large-scale incidents ("Grossschadenslagen", "Lagen")
on shared boards; around them there are logs, loans, appointments, alerts and
their administration. It is a FastAPI application over SQLAlchemy and MariaDB,
served by two worker processes (`deploy/einsatzleiter.service:14`, `gunicorn -w 2`).
This directory models what several users, background loops and workers change
together, checks it with TLC and proves the safety of every service with TLAPS.

Names of definitions follow the source where it has a name (`dispatch_to_site` is
`DispatchToSite`, `_scan_and_create` is `ScanAndCreate`); the rest is in the German
of the program.

1. [How the program runs](#how-the-program-runs)
2. [Inventory](#inventory)
3. [Modules](#modules)
4. [Runs](#runs), bounds, fairness
5. [Proofs](#proofs)
6. [Findings and observations](#findings)
7. [Not modelled](#not-modelled) and what is left of the [plan](#plan)

## How the program runs

These facts of the program decide what is one step in the models.

- **There are two workers, and nothing serialises them.** The database is the only
  shared state. Apart from the storage counter no handler takes a row lock, and
  only some tables have a constraint that would reject the second of two equal
  writes. MariaDB reads in a snapshot (REPEATABLE READ) that the first read of a
  transaction fixes; what another transaction commits later it does not see.
- **Requests of one worker overlap, too.** A worker is one event loop, and most handlers
  do not await between their first line and their commit. But the dependency
  `_resolve_current_org` reads with the request's session before the handler runs
  (`core/dependencies.py:61-123`), so the snapshot may be older than the last commit of
  another request of the same worker. And some handlers await after they have read: their
  own form (`ui_verleih.py:492`, `:964`, `ui_fahrtenbuch_admin.py:280`), an SMS, geocoder,
  language model, an upload, the weather, Microsoft's answer.
- **Every background loop runs in every worker.** `app/main.py:104-133` starts
  them in the lifespan of each worker, without a lock or a leader.
- **Websockets, the SMS gateways and their futures, and the codes of the citizens'
  portal are in the memory of one worker.** A broadcast reaches the browsers
  connected to that worker.
- **A commit writes only the columns that changed** (the ORM's unit of work), so
  two transactions on one row may both take effect; a read-modify-write of one
  column loses one of them.
- **The session does not flush before a query** (`autoflush=False`, `app/db.py`), so
  a query does not see what its own transaction has changed.

So a request that changes rows is two steps in the models of services: a read that keeps
what it is going to write, and a commit. `Workers` is the set of places where a transaction
can be open: one of each worker process, or several of one. In the modules of loops, sockets
and memory a worker is a process. A premise "one worker" says that no two transactions
overlap; the comment says what happens when they do. Where that is all there is to say, the
premise is finer: a history variable (`fUeberholt`, `vUeberholt`, `ueberholt`) has what was
written by a request that had read it too early, and the property speaks of the rest.

## Inventory

| Component | State | Operations | Correct when | Module |
|---|---|---|---|---|
| Resources and dispatch of a Lage (`resource_service.py`, `geo_service.py`, `ui_major_incident.py`) | units, dispatches, sections, sites | add, dispatch, on site, relocate, withdraw, release, to pool, section by hand, pin or polygon | a unit is on site at one site; row, dispatches and section agree; no reference dangles; races do no more harm than they must | `Disposition`, `DispositionParallel` |
| Situation-report control loop (`lagemeldung_service.py`, `gsl_lagemeldung_reminder.py`) | due time and phase of a site, automatic orders, settings | every handler that starts or stops a timer, the loop | an overdue site with forces gets an order, none without cause | `Regelkreis`, `Lagemeldung`, `LagemeldungZweiWorker` |
| Incoming alarms (`api_v1.py`, `major_incident_service.py`, `resilience.py`) | incidents, Lagen, sites | alarm and its side effect, opening, ending, reopening | repeated and concurrent alarms leave one incident and one mirror | `Alarmeingang` |
| Enrichment after an alarm, AI (`api_v1.py`, `ai_service.py`, `geocoding.py`, `ui_ai_prompts.py`) | position, priority, section of a site; suggestions; versions of prompts | tasks that await geocoder and model, users meanwhile | what a user set stays; what was accepted stays; the last text is in force | `Anreicherung` |
| Incident board (`incident_service.py`, `ui_incident.py`, `sortable-glue.js`) | columns, order of cards, status of units, tasks, messages, persons | drag from a page that may be old, every button of a card | orders show each card once, finished ones sink, status and column agree | `Einsatzboard` |
| Reminders (`task_reminder.py`) | due dates, `popup_shown` | loops of both workers, change of a due date | what is due is told, by each worker once at most | `Erinnerung` |
| Auto-close (`autoclose.py`) | status, age, warning, pass and request of each worker | loops, keep open, close, reopen, a closing that fails, death of a worker | whole time, a warning, and the forgotten are closed | `Autoclose` |
| Breathing apparatus (`breathing_service.py`, `ui_breathing.py`) | entry, last report, lowest pressure, acknowledgements, watchdog | start, report, acknowledge, watchdog, restart | a due warning is told once and lasts | `Atemschutz` |
| Inspection of apparatus (`ui_atemschutz_pruefung*.py`) | protocols, the message about a defect | protocol from the public page, background task, administration | a defect stays visible, every channel is tried and noted | `Geraetepruefung` |
| Broadcasts (`broadcast.py`, `ws.py`) | sockets per incident | connect, disconnect, broadcast | who stays connected is reached and stays registered | `Rundruf` |
| SMS gateway (`ws.py`, `sms_service.py`) | registry, futures, waiting jobs | connect, send, answer, timeout | exact registry, no second gateway after a timeout, calls end | `SmsGateway` |
| Bulk SMS (`sms_dispatch_service.py`, `ui_sms.py`) | groups, lists, a message under way, the log | lists, alarm, by hand, a worker that ends | one SMS per number, the log counts them | `Massenversand` |
| Guests (`ui_incident.py`, `auth.py`) | tokens, cookies | show, scan, close, reopen, deactivate | a guest works from a code shown since the last closing | `Gastzugang` |
| Accounts (`auth.py`, `sso*.py`, `ui_password_reset.py`, `ui_admin.py`) | password, lock, links, link to Microsoft, roles | sign in, reset, single sign-on, administration | lock after wrong passwords, links once | `Konten` |
| Invitations, tenants (`ui_invitation.py`, `tenant.py`, `permissions.py`) | invitation, participant | invite, answer, revoke | who accepted takes part, nobody else | `Einladung` |
| Citizens' portal (`ui_major_incident.py`) | link, submissions waiting, reports | submit, verify, accept, refuse | one report each; what is accepted leads somewhere | `Buergerportal` |
| Staff and leaders (`gsl_staff_service.py`, `resource_service.py`) | assignments, chain of reliefs | assign, relieve, end, correct | one lead, one chain, no gap | `Stab` |
| Lending (`verleih_service.py`, `verleih_erinnerung.py`, `ui_verleih.py`) | loans, positions, availability, reminder | lend, return, add, loop | open until all is back; free means here; one reminder | `Verleih` |
| Trip book (`fahrtenbuch_service.py`, `schaden_service.py`) | trips, counter, damage notes | enter, correct, cancel, report | counter, distances and corrections fit | `Fahrtenbuch` |
| Drones (`ui_uas.py`, `uas_compliance.py`) | clearance, devices, flights, log | register, crew, flights, check lists, accidents, media | counted once, unaltered, no defective device ready | `Drohnen` |
| Weather alerts (`weather_alert_*.py`) | state of a rule, caches | loops of both workers | entered levels are sent; no warning repeated | `Wetterwarnung` |
| Media (`storage_service.py`, `*media_service.py`) | files, rows, counter | upload by every route, deletions | within the quota; every request ends | `Medien` |
| Appointments (`ui_termin.py`) | appointment, attendance | create, change, enter, delete | lists stay with their appointment | `Termine` |
| Master data, backup (`ui_admin.py`, `master.py`) | alarm types, templates, vehicles, members | all pages, save, restore | used types stay, restored is what was saved | `Stammdaten` |

The components meet in few places, and there the model composes them: the
handlers of the control loop call the resource service (`Lagemeldung` extends
`Disposition`); an alarm enters the sites the loop watches and is enriched afterwards
(`Alarmeingang`, `Anreicherung`); closing an incident ends guests' access, reminders and
auto-close, and is an action of each of these; warnings, reminders and SMS leave through
`Rundruf` and `SmsGateway`, which the other modules treat as sends that arrive or
fail. Otherwise the services share no variables, so they are checked side
by side and not as a product.

## Modules

```
Basis (Workers, None)
  ├─ Rundruf  Massenversand  SmsGateway  Wetterwarnung ──── NachrichtenProof
  ├─ DispositionParallel  Einladung  Termine  Stab  Anreicherung
  │  Autoclose  Erinnerung  Atemschutz ──────────────────── EinsatzProof
  ├─ Gastzugang  Konten  Buergerportal  Verleih
  │  Einsatzboard ───────────────────────────────────────── ZugangProof
  └─ Geraetepruefung  Fahrtenbuch  Drohnen  Medien
     Stammdaten ─────────────────────────────────────────── BestandProof

Disposition ──── MCDisposition, DispositionProof
  ├─ DispositionParallel (INSTANCE Disposition)
  └─ Lagemeldung ── MCLagemeldung, LagemeldungProof
       ├─ Regelkreis (INSTANCE)
       └─ LagemeldungZweiWorker ── MCLagemeldungZweiWorker, LagemeldungZweiWorkerProof
Alarmeingang ─── MCAlarmeingang, AlarmeingangProof

MCFristen    Einsatzboard, Erinnerung, Medien, Verleih, SmsGateway, Fahrtenbuch
MCDienste    DispositionParallel, Einladung, Stab, Termine, Massenversand, Stammdaten,
             Rundruf, SmsGateway, Gastzugang, Konten, Buergerportal, Drohnen,
             Wetterwarnung, Fahrtenbuch, Geraetepruefung, Anreicherung
MCBereiche   Autoclose, Atemschutz
MCAtemschutz, MCEinsatzboard: one service, for a run that ends in a violation
```

Each service has one module with its state, one action per handler or loop step,
its specification and, at the end, its properties, summed up in one definition
`…Versprechen`: what the service promises. `MCDienste`, `MCFristen` and `MCBereiche` put services that share
no state side by side: the variable `teil` is chosen at the start and says which
service a behaviour is of; the others rest in one initial state. So the states of
the run are the sum of the services' states, not their product, and each service
is checked exactly as alone. Many modules have a variable `…Umfang` chosen at the start:
the instance (how many workers, which operations, which items), so that several small
instances, each aimed at some operations, are checked instead of one large one.
What they bound is said where they are declared.

What is worth knowing about how single modules stand for the code:

**Disposition.** One action per function of the resource service or per route that
changes its tables. A dispatch is kept per unit and site with the state of its newest
row. A unit that was ever dispatched cannot be deleted, since the ORM clears the NOT
NULL foreign key of its rows first. `GeometrieGeaendert` lets every site fall into
another section and lets a unit of several moved sites follow any of them, because
the query in `bulk_reassign_section` has no order. The task that enriches an alarm holds the
site it was begun for (`anreicherung`) and moves it into a section when the geocoder has answered.

**DispositionParallel.** The rows of one unit, one by one. `TxLesen` is a handler up
to its last read and keeps what it is going to write, `TxSchreiben` is its commit.
`Aktuell(w)` says that nobody changed what `w` has read. `UngestoerteSchritte`
instantiates `Disposition`: a commit that was not overtaken is one of its steps. `NieUeberholt`
says that none is.

**Regelkreis, Lagemeldung, LagemeldungZweiWorker.** `Regelkreis` is the abstract
control loop: what one site may see of its timer and orders (`Schritte`), and that an
overdue site that owes a report gets an order (`Versprechen`). `Lagemeldung` has the
handlers with all they do to units, timers and orders, and implements both `Regelkreis`
and `Disposition`. The due time is "aus", "laeuft" or "faellig", which is all the code
asks. `LagemeldungZweiWorker` takes each worker's scan apart.

**Alarmeingang.** `vorgang` is the transaction a worker has open: the alarm's
insert, then, after its commit, the trigger's reads and its insert. `Abbruch` loses one:
the unique constraint rejects it, the side effect fails and is only logged, or the worker dies.

**Autoclose.** A pass reads all active incidents with its first query, reads again
after each commit and each rollback, and warns when it is through; a closing may fail. A user's
request has read its incident before the handler runs and writes only the columns that differ: a
keep-open that has read no warning takes none back. Ages are counted up to the
bound where the code stops telling them apart. `gewarnt` is a history variable, and `ueberholt` has the
incidents where a user's answer and a reading crossed.

**SmsGateway.** One worker's registry and futures, with the awaits of `dispatch_sms` as
steps. A line may be dead without the server knowing; then a send may return or raise.

**Atemschutz.** One time step is a third of the planned duration. The watchdog reads the
troop, sends what is new, one await per warning, and then remembers what was due when it read.

**Einsatzboard.** A drag writes the whole list the browser shows. The page may be older than
the board (`alt`), and the glue collects the cards inside a vehicle's card, too.

**Medien.** The reservation locks the counter's row until the commit, and the next file
is awaited before that: a second reservation of the same worker stops the event loop
until the database gives up (`innodb_lock_wait_timeout`). A deletion has its row from the dependency on, which reads
in a thread; its handler waits for the event loop. `Gang(u)` is the next step of an upload or deletion.

**Konten, Verleih, Fahrtenbuch, Stab, Termine, Drohnen, Einladung, Stammdaten.** A
request is two steps: it reads a snapshot, and its commit writes what it changed of it. In `Verleih`
and `Fahrtenbuch`, which await their forms in between, several requests are open in every instance
that is about them.

**Gastzugang.** The table of the tokens has two schemas: the model declares the hash unique
(`models/incident.py:448`), the migration that creates it does not
(`alembic/versions/0001_initial.py:421-438`), and an instance has either (`eindeutig`). Where it
is unique, showing a code again that was withdrawn fails.

**Stammdaten.** A restore knows vehicles by their code, of every organisation: `KennungVon` lets two of
them share one. It writes the places of those it finds and inserts those it does not.

**Wetterwarnung.** The first rule of a round reads its state in the snapshot taken
before the weather was awaited.

**Anreicherung.** A task reads, awaits a geocoder or model, and writes. `anHand` is what a
user has set; the history `danach` of a task says what users set after it began. A version of a prompt that is there already is refused
(`models/master.py:453`).

External, and modelled from how the code uses them: gateways and network, MariaDB's
snapshots, locks and constraints, browsers, Microsoft's answers, the services for weather,
maps and language. Their answers are free choices.

## Runs

Every passing run ends within four minutes on two cores.

| Run | Bounds | Distinct states | What it shows |
|---|---|---|---|
| `disposition` | 2 units (one a vehicle), 2 sites, 1 section | 716 400 | no order of operations puts a unit on site twice, points its row to a site it is not at or to a deleted section; only where a site is located, by a pin or by the enrichment of its alarm, are units separated from its section |
| `lagemeldung` | 1 site, a vehicle with its unit, a labelled resource, 3 phases, 2 open orders | 286 704 | handlers, loop and settings implement `Regelkreis`, with its liveness; a missing timer is started |
| `lagemeldung_zwei_worker` | 2 workers, 2 sites, a vehicle, 2 phases | 207 408 | at most one order per worker; never none for an overdue site |
| `alarmeingang` | 2 workers, 2 keys (one triggering), 2 Lagen, 3 sites | 125 965 | an incident is mirrored once at most; the price of racing `/lage/alarm` is bounded |
| `dienste` | sixteen services, each with its instances | 619 581 | the promises a state or a step can break: see below |
| `fristen` | six services | 207 021 | the promises with something that must happen, and the board |
| `bereiche` | a troop with times 0 to 3; one worker and 2 incidents, two workers and 1, warning and closing after one step each | 115 033 | due warnings are told once and last; the forgotten are closed, after a warning and their whole time |

Runs that end in a violation, because a comment or the documentation says something
else than the code does:

| Run | Property | What the code does |
|---|---|---|
| `lagemeldung_ohne_intervall` | `OhneIntervallKeinAuftrag` | the interval is switched off, a running timer runs out, and an order is written (`lagemeldung_service.py:9`: "NULL ⇒ Logik komplett aus.") |
| `lagemeldung_dedup` | `Dedup` | both workers scan, neither sees the other's order (`gsl_lagemeldung_reminder.py:11`) |
| `autoclose_keepopen` | `KeepopenHaelt` | a user keeps an incident open, and the pass of the other worker, which has read it before, closes it (`ui_incident.py:1723`: "Setzt den Warning-Stempel zurück und aktualisiert started_at, damit der 48h-Zähler von neuem läuft.") |
| `atemschutz_drittel` | `DrittelErneut` | after the first report of an entry the reminder for a third of the time is never raised again (`breathing_service.py:152`) |
| `auftrag_verschwindet` | `AuftragBleibtSichtbar` | a task dropped onto a vehicle and then taken off it is in no column and on no vehicle (`incident_service.py:470`) |

### The promises

`dienste`:

- `ParVersprechen`: a confirmed relocation withdraws whatever racing workers left; a
  transaction that was not overtaken is a step of `Disposition`.
- `EinladungVersprechen`: who accepted takes part, nobody else does (one worker), an answer
  changes only by a withdrawal, which is final.
- `StabVersprechen`: one lead per function, one successor per relief, no gap of a required
  function without an ending; a unit points at a commander who is on duty.
- `TerminVersprechen`: a member is on a list once, a batch is entered as a whole or not at
  all, a list outlives neither its appointment nor, without a change of kind, its page.
- `VersandVersprechen`: one SMS per number, to the numbers the members meant had when it began, and a
  log that counts what was tried, while numbers, groups and lists change.
- `SdVersprechen`: types in use stay, texts stay unique, places of vehicles stay distinct,
  restoring gives what was saved, the places of vehicles too, and takes of other organisations the
  order of turning out and nothing but places.
- `RundrufVersprechen`: a broadcast reaches who stays connected and removes no living socket.
- `GatewayVersprechen`: no closed connection in the registry, a future exactly while its job can use
  an answer, no second gateway but after a broken or closed line.
- `GastVersprechen`, `VerteilteCodesBleiben`: a reopened incident lets in only codes shown
  since it was closed; a code on the screen works, and showing it again breaks none.
- `PortalVersprechen`: one report per submission; what is marked accepted leads to a site or marker;
  nobody's waiting code is thrown away within its ten minutes.
- `DrohnenVersprechen`: flights numbered without gap, hashes that fit, flights counted once
  and all of them, a defective device never ready.
- `KontenVersprechen`: a lock exactly after the allowed wrong passwords, only the newest
  link works, once.
- `WetterVersprechen`: an alarm outlasts one calm round; a level entered is sent; an official warning once.
- `FahrtenVersprechen`: as long as no request wrote over what it had not read, no active trip lies
  above the counter and distances add up to it; a replaced trip leads to one that names it always.
- `PruefVersprechen`: a defect stays visible, each channel is tried and noted.
- `AnVersprechen`: what a user accepted stays; what a user set is replaced without one only by a
  task or request that began before; suggestions do not double, the prompt saved last is in force.

`fristen`:

- `ErinnerungVersprechen`: what is marked was told; each worker tells once; what is due is told.
- `VerleihVersprechen`: a loan is open exactly while something is out, unless an overtaken request
  changed it, an available article is with nobody but for the named causes, one reminder per
  worker, and the late are reminded.
- `BoardVersprechen`: flags, columns, orders and status of the board agree.
- `MedienVersprechen`: the counter never exceeds the quota, it covers the files unless a partner uploads or
  one file is released twice, and every request ends.
- `DispatchEndet`, `SchadenWirdVermerkt`: an SMS call ends; a damage is noted for both channels.

### Why the bounds are enough

- *disposition*: a conflict needs one unit and two sites; the second unit has no vehicle,
  which the status route distinguishes; the task of one alarm moves one site. What holds there for every number is proved.
- *lagemeldung*: sites do not interact except in a scan and in the settings, and the
  two-worker run has two. `MaxOffen = 2` allows one order reopened by hand beside the
  loop's. Phases other than the three are treated alike by the code.
- *lagemeldung_zwei_worker*: the settings stay as they begin, orders are not reopened by hand
  and the resource overview is not used; these are in `lagemeldung`.
- *alarmeingang*: an alarm can be repeated after its Lage was ended and another one
  opened, in both workers; a third site is one more than the claims allow.
- *parallel*: a race needs two transactions; three rows are what two of them can leave
  on top of one committed dispatch.
- *einladung, stab, termine, versand*: two workers and two organisations, persons, members or messages
  meet in every order; three assignments make a chain with a relief of a relief. Three members are two who share a
  number and one more.
- *stammdaten*: two organisations are needed for what restoring does to others; three vehicles
  for a partial order, two of them with one code.
- *rundruf, sms*: three sockets are one broken, one that stays, one that comes; the second
  gateway is another or the reconnect of the first, and with two jobs one removes the line the
  other is using.
- *gast, portal*: three tokens let a code be shown, revoked and shown again, in both schemas; two
  transactions and two submissions meet once.
- *drohnen, konten, wetter, fahrten*: the instances list the operations that touch each other; the rule
  of two flights in a day (`CURRENCY_MINCOUNT`), two wrong passwords (`MaxFehl`) and readings 0 to 2
  scale down numbers the code takes from its settings; two trips are entered or corrected by two requests
  at once.
- *erinnerung, verleih, medien*: two items so that one is told while the other waits; one crash; two
  requests at once over two loans of one article, and over one loan of three positions;
  a quota of two with a file of two units, so that it is met exactly and exceeded.
- *board*: six cuts of a board, with one or two cards each and the columns they may be in, and a page
  that may be old; the code treats cards of a kind alike.
- *atemschutz*: a report can lie in each third of the time; a troop can start again at every
  point. *autoclose*: two incidents of one worker, so that a pass commits one while the other waits in
  it and is closed by a user; two workers and one incident, so that passes and a user's request
  overtake each other; with times of one step each every order of warning, keeping open and closing
  exists. In `autoclose_keepopen` nothing is bounded but the sizes.

Bounds are constants named `Max…`, or fields of the `…Umfang` records, and stand in the guards
of the operations they bound. Deadlock is not checked in `dienste`, `fristen`, `bereiche`, `autoclose_keepopen` and `auftrag_verschwindet`:
a service really may stop there, when every job is done and every bound used up.
Symmetry is used for sites, workers, Lagen and rows, only in `disposition`, `alarmeingang` and, for
the workers and sites of `parallel`, in `dienste`, none of which has a liveness property.

### Fairness

Users are never assumed to do anything. What is assumed:

- `WF(ScanAndCreate)`, and per worker `WF(Scan(w))`: the reminder loop runs every
  45 s, catches the exceptions of an iteration and goes on.
- `WF(Durchgang(w))` in `Erinnerung`: its loop runs every 30 s in every worker, likewise.
- `WF(Fortgang(j))` in `SmsGateway`: a send returns or raises, and `wait_for` ends
  after 15 s.
- `WF(Durchlauf(w))` in `Verleih`: the loop of the reminders runs in every worker and catches what fails.
- `WF(SchadenMelden(f))` in `Fahrtenbuch`: a background task goes on; mail and Teams have timeouts.
- `SF(Gang(u))` in `Medien`: a request goes on whenever its event loop is free again. The
  lock a request waits for is given up by the database after its timeout, which is itself such a step.
- `WF(FristVergeht)`, `WF(Pass(w))` in `Autoclose`: the loop runs every 60 s. A worker may die
  in any pass and a closing may fail; `SF(Verarbeiten(w, i))` says that neither happens each time in
  front of the same warning or closing.
- `WF(Watchdog)` in `Atemschutz`: the loop runs every 5 s. `SF(Senden(k))`: the worker
  does not die each time in front of the same broadcast.

In the collective runs each of these holds for the service the behaviour is of.

## Proofs

The proofs are of every number of units, sites, workers, requests, rows and messages.
Every service has a theorem about its safety; what its liveness needs is left to TLC.

**Assumptions.** The theorems rest on the named assumptions of the modules only, which
TLC evaluates in the runs: NULL (`None`) is no member of the sets it stands beside; sets that are
counted (workers, rows, numbers, positions, files) are finite; bounds, quotas and periods are
natural numbers; vehicles are units, labelled resources are not, the kinds of cards are disjoint.
What holds only while no two transactions overlap, or of what no overtaken request has changed, says
so in the property itself; `UngestoertFuehrtDispositionAus` has `NieUeberholt` as its hypothesis.

**Shape.** Each part of a proof module has the types of the variables and of the
requests under way, the inductive invariant (`…IInv`, its parts named), lemmas about
the operators of the module, one lemma per action or group of actions, and the theorem,
which joins `Init => IInv`, `IInv /\ [Next]_vars => IInv'` and `IInv => P` with `PTL`. Every invariant
was checked by TLC on the module's instances before it was proved. A recurring part is
*what a request has read is still so*: it is what transactions have
that do not overlap, so it stands under that premise, or for what is not in the history of overtaken
writes, and with it the parts it carries.

### The large-scale incident

- **DispositionProof** (`DispositionTyp`, `VorOrtImmerEindeutig`, `StandortImmerBelegt`,
  `VerweiseImmerGueltig`, `OrtungAlleinTrenntSektor`). The inductive invariant is the conjunction of the four
  properties of states. None but the type invariant is inductive alone: a withdrawal keeps
  `StandortBelegt` only because a unit on site is on site at one site, and a relocation keeps
  `VorOrtEindeutig` because it withdraws every other on-site row.
- **LagemeldungProof** (`LagemeldungTyp`, `LagemeldungIstDisposition`, `LagemeldungVorOrtEindeutig`,
  `LagemeldungIstRegelkreis`). Every handler is a step of `Disposition` or leaves its variables alone, so
  what is proved there holds under the handlers. Then every handler, the scan, time and the
  settings are matched, site by site, with a disjunct of `Regelkreis!Next`; this needs the types
  of timer, orders and settings (`KreisTypen`).
- **LagemeldungZweiWorkerProof** (`AuftraegeBegrenzt`). A site's open orders plus the orders in open
  scans never exceed the number of workers: a scan takes a site into its list only while the site has
  no open order, so then the sum counts scans alone; a commit moves one from the second summand to the first.
- **AlarmeingangProof** (`AlarmTyp`, `AlarmEinmalGespiegelt`, `LageAlarmBegrenzt`). A key has at most one
  *bearer*, the worker between the insert of the incident and of its mirror, and no mirror while it has
  one (`EinTraeger`); a transaction that is going to write into a Lage read it when it existed (`LageVorhanden`).
- **EinsatzProof, DispositionParallel** (`ParHaelt`, `UngestoertFuehrtDispositionAus`). The rows that a
  transaction has read are finite in number and are rows of then; from them follows that a commit that was not
  overtaken is a step of `Disposition`, and that a relocation withdraws what others left. A behaviour in
  which no commit is overtaken, however many requests are open, has one row at most per site (`Einzeln`), and
  implements the whole specification `Disposition`: its initial state, its steps or stuttering.

### Messages (NachrichtenProof)

- **Rundruf** (`RundrufHaelt`). Of a broadcast under way: who was there when it began and is still
  connected has been reached or is still to come (`NochUnterwegs`), and a socket found dead stays dead
  (`ToteBleibenTot`), so that taking the dead out at the end takes nobody who is connected.
- **Massenversand** (`VersandHaelt`). Open numbers are untried, open and tried ones together are
  those of the members meant when it began, the total is their count (`Fortschritt`); the log has the
  row of each finished message and no other (`LogPasst`).
- **SmsGateway** (`GatewayHaelt`). The registry is a sequence without repetitions (`RegistryPlaetze`), and `list.remove`
  takes the one and nothing else (`OhneEinen`); a job that sends or waits has a line (`AuftragHatLeitung`).
- **Wetterwarnung** (`WetterHaelt`). With one worker: the round knows the state of the rule, the hold counts
  calm rounds, a level is sent or on its way, and the hash of a forwarded warning blocks it.

### The incident (EinsatzProof)

- **Einladung** (`EinladungHaelt`). Every open acceptance read an open invitation of an organisation that
  does not take part (`AnfragenPassen`), and with one worker what it read is still so.
- **Termine** (`TermineHalten`). As long as the kind was never changed, every open page, request and row
  is about one list (`OhneWechselEineListe`).
- **Stab** (`StabHaelt`). A row names an earlier row of its function (`Ketten`); what a worker is going to write fits the rows
  that are there, and with one worker is current: the function to be filled has no lead, the row to be
  relieved is open, the pointer is the one that was read.
- **Anreicherung** (`AnreicherungHaelt`). A task that fills in a site writes only what differs from its reading, and
  `danach` has whatever users set since (`ArbeitPasst`); open suggestions are of one answer and the alarm (`VorschlagIInv`).
  For the versions of a prompt: those a request leaves, and the requests with a number begun no
  later than its own, are together at most `MaxVersionen` and the number of workers (`BleibenBegrenzt`); each of them may add one.
- **Autoclose** (`AutocloseHaelt`). For every incident no user's answer of which crossed a reading (`ueberholt`): a
  warning was given only at the full age (`WarnungHatAlter`), and what a pass has read as due is still due when it
  comes to it (`FaelligBleibt`). So for any number of workers, without a hypothesis about them.
- **Erinnerung** (`ErinnerungHaelt`). As long as an item is unmarked nobody has been told for this due date, and every
  pass that has it is before its commit; the sum of those told and those about to tell never exceeds the workers.
  With one worker nothing is marked between its look and its commit but by itself (`AlleinMarkiert`).
- **Atemschutz** (`AtemschutzHaelt`). What was told is remembered, or is among what the pass under way found and not
  among what it still sends (`GehoertIstBekannt`). Alarms: a report never raises the lowest pressure.

### Guests, accounts, citizens, loans, board (ZugangProof)

- **Gastzugang** (`GastHaelt`, `VerteilteCodesHalten`). A token that is valid is of a user who has shown
  the code since the last closing (`NurFrischeGelten`), and what a transaction read is still so when it writes.
- **Konten** (`KontenHalten`). With one worker the column `fehl` is the number of wrong attempts, below `MaxFehl`
  without a lock and equal to it with one (`ZaehltRichtig`); a link in an open request is unused (`LinksUnbenutzt`).
- **Buergerportal** (`PortalHaelt`). What waits for a code is no report yet, and waits at one worker (`NurWartende`).
- **Verleih** (`VerleihHaelt`). Every position has its loan and every loan a position; the rows a request read are still
  there and its new numbers are nobody else's (`Grundlage`). Whatever makes an article that is out look available is
  named among the causes (`UrsachenGenannt`), and loans that an overtaken request wrote are set apart. A loan without a
  mark got no more SMS than are on their way, and one for each restart; what it got and the passes that will come
  to it are at most the workers and the restarts (`Erinnert`).
- **Einsatzboard** (`BoardHaelt`). Row by row: column and vehicle exist, and a task has the tick exactly with the status
  "done". It is inductive because vehicles never leave an incident and a section can be deleted only when
  it is empty. With the invariant every action is shown to let the column of a unit follow its status (`BoardSchritt`).

### Equipment and master data (BestandProof)

- **Geraetepruefung** (`PruefHaelt`). Records are numbered without a gap, so that of those of an apparatus there is a newest
  (`NeuesteDa`); a task has tried, once each, what it began with and does not still hold (`Versucht`).
- **Fahrtenbuch** (`FahrtenHalten`). There is a highest reading (`Beschraenkt`), a transaction has a number of its own for its
  trip (`TxGueltig`) and was checked against the readings it saw (`TxGeprueft`); until a request writes over what it
  had not read these are the readings that are there.
- **Drohnen** (`DrohnenHaelt`). What a worker has in hand is about a flight that is there, and a movement is one
  of a closed flight, of its pilot and its day, or entered by hand (`HaendePassen`, `BewegungenPassen`). With one worker the
  number read is still the next, a closing in hand is of an open flight and its movement is not entered yet (`HandAktuell`).
- **Medien** (`MedienHalten`). What a request has reserved it holds the lock for, and it fits into what is left
  (`ReserviertPasst`), so the counter never exceeds the quota. It covers the rows and what is about to be
  released (`ZaehlerDeckt`) under the premises of the property. Sizes are cardinalities of sets of bytes, so that
  sums need no recursion.
- **Stammdaten** (`StammdatenHalten`). The tables of the database and those of the saved file obey the same `Daten`: rows of
  one number are one row, references have their row, and with one organisation texts are unique; restoring
  therefore keeps them, and the places of the vehicles that are in the file (`DateiGanz`). No vehicle is deleted as long as every order sent was complete (`FuhrparkGanz`); with one
  worker a qualification found unused stays unused until it is deleted (`LeuteEinig`).

### What the proofs changed

- The two templates that a restore copies got one number when three organisations had the same
  text: the instances have two. Numbers are now given by `NeueIds`.
- `ParVersprechen` no longer presumes that a unit is on site once: the relocation needs no such premise.
- `VonHandBleibt` speaks of the value a user set, not only of the fields.
- `fehl <= MaxFehl` is false with two workers (two wrong passwords at once, then another), so `KontenVersprechen`
  claims it of transactions that do not overlap. `VolleFrist` and `NurNachWarnung` are false of an incident that was
  kept open between a pass's reading and its closing; they speak of the others, which the history `ueberholt` tells apart.
- That no commit is overtaken is the hypothesis of the refinement of `Disposition` (`NieUeberholt`), not a number of workers.
- `KartenGueltig` is the part of `BoardTypeOK` that is not about stored orders.

### Model-checked only

- All liveness properties, and with them the rest of `RegelkreisVersprechen`, `ZWVersprechen`, `UhrWirdNachgezogen`,
  `DispatchEndet`, `SchadenWirdVermerkt` and of the `…Versprechen` of Autoclose, Erinnerung, Atemschutz, Verleih and Medien, whose
  other parts the theorems above name.
- The stored orders of the board (`NurZiehenVerdoppelt`, `ErledigtesSinkt`, the contents of `reihung` in `BoardTypeOK`): what
  `SelectSeq` and the concatenation of lists do for every list is an induction over the list.
- The properties of the runs that end in a violation.

## Findings

Five disagreements between the code and what it says of itself have a run of their own
(above). The following was met while modelling: the models behave so, and the premises
and comments of the properties name it. Where a document or comment says otherwise it is quoted.

**Two transactions at once.** Those of two workers, and those of one whose snapshots overlap. The code gives up
some of what it keeps in order; the properties say so in their premises.

- A unit can be dispatched twice to one site (`resource_service.py:246`) or put on site at two (`:299`);
  `/lage/alarm` can enter two sites for one key, and a site into a Lage that has just ended (`api_v1.py:907`).
- A pass of auto-close closes an incident that was kept open through the other worker after the pass had read it
  (`autoclose.py:86`, `:117`; the run `autoclose_keepopen`), and a keep-open that has read no warning takes none back.
- The mark of a reminder hits the new due date the other worker has just set (`task_reminder.py:79`).
- Returning the last two positions at once leaves the loan open; a return and an addition at once
  leave a returned loan with a position that is out.
- Two replacements of one function at once leave two open leads.
- Accepting and revoking an invitation at once leaves a participant whose invitation is
  revoked and cannot be revoked again.
- Two closings of a flight count it twice and may mix hash and duration; flight numbers repeat;
  a stage of the reporting chain is lost; the check list after the flight may be written twice.
- Two wrong passwords count as one; a link used twice at once works twice.
- The workers' caches of the weather differ, so that a rule flaps and alerts twice.
- One file deleted by two requests is released from the quota twice.
- Suggestions asked for in both remain side by side; a prompt saved twice at once fails on the unique constraint
  of its versions (500; `models/master.py:453`); the counter of tokens loses one of two calls.
- `delete_qualification` counts before it deletes: a member given the qualification meanwhile loses it.
- An SMS needs the worker the gateway is connected to (`ws.py:34`), the code of the portal the worker it was
  asked from.

**Alarms and the control loop.**

- `site_pin_save` (`ui_major_incident.py:1303`) and `_enrich_site_from_alarm` (`api_v1.py:820-823`) move a site into another
  section without `sync_units_sector_to_site`, against the docstring at `resource_service.py:142`.
- A second Lage opened by hand is active beside the first (`major_incident_service.py:51`); its line 4 says "Weitere
  werden als standby angelegt", a status the code never sets.
- The check mark of the journal closes an automatic order and leaves the timer overdue: the next
  scan writes another (`ui_major_incident.py:2612`; `docs/wiki/Anwender-Grosschadenslage.md:154` says the timer starts anew).
- `move_to_pool` leaves the on-site row of a unit (`resource_service.py:446`), and `has_active_resource` counts it.
- A confirmed relocation does not stop the timer of a site it empties (`ui_major_incident.py:927`), as a withdrawal does.
- An interval of 0 on the settings page of the Lagen is stored as 0 (`ui_settings.py:1396`): every timer is due at once.
- When the trigger of an alarm fails after the incident is committed (`api_v1.py:579`), no
  repetition mirrors the incident: it is answered before the trigger (`:480`).
- `_enrich_site_from_alarm` reads a site, awaits geocoder and model, and writes position,
  section and priority over what users set meanwhile (`api_v1.py:782`; comments `:809` "only if not already set").
  `_geocode_incident` reads again and is right.
- `lage.auto_adopt` (`models/major_incident.py:172`) and `rotate_gsl_leadership` are never used; PATCH reopens an
  ended staff assignment without any check.

**Board.**

- A task created on a vehicle's card is stored twice by any drag in that lane (`sortable-glue.js:144`).
- `sink_done_cards` sinks cards in a stored order only, `cancel_task` none.
- The selection "move" of a vehicle does not follow up its status; deleting a section that a
  vehicle's task keeps as its column fails on the foreign key.
- The task form always offers "due after 0 minutes" (`_task_modal.html:48`): saving a text deletes the reminder.

**Breathing apparatus.**

- `start_troop` clears no acknowledgement (`breathing_service.py:95`): a troop started again after its
  maximum-time alarm was acknowledged gets no second one.
- An inspected apparatus can never be deactivated (`ui_atemschutz_pruefung_admin.py:67`, `Form(True)`); a page
  sent twice makes two protocols and two messages; a message lost in a crash is not repeated.

**SMS.**

- A gateway that reconnects while the send on its old line fails is not in the snapshot of
  `dispatch_sms`: the call raises beside a connected gateway (`ws.py:270`). After a line that broke a second gateway is
  asked, although the first may have sent the SMS already; the comment at `ws.py:264` is about timeouts only.
- The Excel import makes members active again who left; `+43` and `0` are two numbers; a group of a row
  that is rolled back stays in the import's cache (`ui_sms.py:333`); a crash while sending leaves SMS without a log. A number
  that is changed while a message is under way gets it at the old one.

**Guests, accounts, invitations, portal.**

- The token of a QR code is computed from incident and user. Where the migrated schema is in force
  (`alembic/versions/0001_initial.py:421-438`, no unique constraint) a code issued before a closing works again when the user
  shows it after the reopening; with the model's unique hash (`models/incident.py:448`) showing it fails with an
  `IntegrityError` (`ui_incident.py:846-856`, `:1778-1781`, `:1811-1814`). The tokens of a Lage are never revoked, so reopening it lets its guests in.
  The PIN hash survives the closing.
- An administrator's password reset leaves the lock. A person with a local account of the same
  mail cannot sign in with Microsoft unless accounts are linked (500). `docs/wiki/Administration-Single-Sign-On.md:119` says that roles are
  synchronised at each sign-in; the code sets them for new users only (`sso.py:293`), and links no accounts by default. No
  property takes a side.
- Inviting an organisation again that declined or was revoked fails on the unique constraint (500;
  `ui_invitation.py:54`). The WebSocket of a revoked organisation stays open (`docs/multi-tenancy-konzept.md:153`).
- A code of the portal is accepted after the Lage has ended; a report accepted twice makes two sites, one refused after
  its acceptance keeps its site.

**Logs and loans.**

- A cancelled trip keeps the counter (`autoflush=False`; `fahrtenbuch_service.py:246` and
  `docs/wiki/Administration-Fahrtenbuch.md:183` say it is recomputed). A reading that is too high cannot be corrected
  downwards. A damage entered with a correction is not reported.
- The routes of loans and trips read, await their forms and commit (`ui_verleih.py:492`, `:964`,
  `ui_fahrtenbuch_admin.py:280`): two requests overlap in one worker, too, and the later commit wins.
- Nothing refuses to lend an article that is out; returning a position twice makes an article
  available that was lent again; the loop does not look at a loan again after the SMS.
- A defect of a drone is never closed (`uas_compliance.py`); an accident's state "geloescht" leaves the file;
  closing a flight has two commits; check lists stay done when an item is unticked; a new flight asks neither clearance nor readiness.
- The functions of a young organisation are only flushed (`ui_termin.py:68`): choosing one fails. Changing the kind of an
  appointment leaves its list behind. One member entered meanwhile fails a whole batch.

**Weather.** The switches for early warning, escalation and cooldown have no effect. A second
official warning while one is in force is never sent (`docs/wiki/Administration-Wetterwarnungen.md:55`). A warning that was stored during
the hold is swallowed. The state is committed before the dispatch, so a failed dispatch is not repeated.

**Media.** Photos of sites and deletions by cascade release no quota; `delete_incident` removes a
directory the files are not in; a partner's upload is charged to the partner and released from the leader;
`reconcile_storage` has no caller. An upload of several large files holds the counter's lock across an await, and a second one in the same
worker stops the event loop until the lock's timeout.

**AI and prompts.** `prune` keeps one version more than "Keep only the latest" ten (`autoflush=False`); suggestions are added to incidents that
are closed; an edited address keeps its old position; the monthly quota is set by no page.

**Master data.** The backup has the members and the restore never reads them (`admin/backup.html` promises it).
The restore finds vehicles by their code in all organisations, writes their places and inserts those it does not
know (`ui_admin.py:2178`, `:2191`); it deletes the dispatch order of all organisations (`:2268`) and rebuilds one; with two
organisations it copies the texts of the other. A vehicle switched on from an old page after its deletion is
dispatched and not listed. Orders from a filtered page give two vehicles one place, and moving them then has no effect. The import
makes every group commander a "ZK" where "GK" does not exist.

## Not modelled

| What | Why |
|---|---|
| Reports, PDF, Excel, map | read-only views |
| Mail, Teams | calls to external services: they succeed or fail in the modules that make them |
| Templates, static files, migrations | presentation and schema history; the script of the drag and drop is part of `Einsatzboard` |
| Update scripts and database backups | shell scripts outside the running program |
| Values behind a weather level, station imports, retention | arithmetic on measurements and pure I/O |
| Water levels, addresses, situation briefs, hints, quota of the AI | the answer of a service, stored as it is |
| Push subscriptions, PINs, API keys | rows that are written once and compared; no interplay |
| Geometry | which polygon holds a point is a free choice |
| The tenant filter as such | a filter on every query by an ORM event; what it shows of incidents is in `Einladung` |

Within the modelled components: journal texts, labels, wording, time stamps beyond what
the code compares, quantities, members of a troop, purposes of trips, exports,
thumbnails, and the permission check in front of every route.

## Plan

Done: the modules, the runs, and a safety theorem for every service. What is left, most useful first:

1. *Abstract specifications*, with the step of each shown by proof as it is for `Regelkreis` and `Disposition`: a queue of
   SMS with at-most-once delivery under `SmsGateway`; an alarm with a lifetime under `Atemschutz`; a lease
   that a keep-open renews under `Autoclose`.
2. *Stored orders of the board*: `ErledigtesSinkt` follows from where a card stands, without counting, if
   the order is modelled by positions instead of lists.
3. *Compositions*: `Massenversand` over two copies of `SmsGateway`; `Erinnerung` over `Rundruf`.
4. *Operations left out*: quantities and leaders in the summary of forces; PINs and the own change of a password.
