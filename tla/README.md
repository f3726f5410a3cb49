# cinnamon-session in TLA+

cinnamon-session is the session manager of the Cinnamon desktop. It starts the
programs of a session phase by phase, keeps track of the clients that register
with it over D-Bus (`org.gnome.SessionManager`) and XSMP, keeps the inhibitors
that programs take, ends the session with the clients' consent, and asks logind
or ConsoleKit to suspend, reboot or power off.

This directory models the program from its source in `src/`, checks the models
with TLC and proves theorems about them with TLAPS. `PROJECT.json` lists the
components, runs, mutants, the lines every definition stands for, the findings,
the hazards and the theorems.

## 1. The system

One process, one thread: a GLib main loop dispatches D-Bus calls and signals,
XSMP messages, child exits, timers and replies of asynchronous calls. A handler
runs to its end before the next one. What is concurrent is everything around
it: clients, the dialog's process, logind, the bus, the user.

| Component | State | Operations | Hard behaviour |
|---|---|---|---|
| End of session (`csm-manager.c`) | phase, logout mode and type, pending lists, two timers, dialog action | Logout, Shutdown, Reboot, the dialog's calls, answers, timeouts, cancellation, departures | handlers that go through several phases; answers after timeouts; clients leaving at any point; a dialog that acts on its own |
| Startup (`csm-manager.c`) | phase, pending and required apps, phase timer | start apps by phase, app registered, exited, died, phase timeout, delayed start, condition changed | which event ends the phase, restarts, failure of required apps |
| Clients (`csm-client.c`, `csm-dbus-client.c`) | status, ids, name watch | register, query, end session, stop, answer, vanish | departure noticed twice |
| XSMP clients (`csm-xsmp-client.c`) | current and next SaveYourself, properties | save, query, end, phase 2, interact, save done | one save at a time, the rest queued |
| XSMP server (`csm-xsmp-server.c`) | listening sockets, `stopping`, connections being authenticated | start, stop accepting, accept, authenticate, time out | connections that never finish |
| Stores (`csm-store.c`) | id to object, locked | add, remove, foreach, foreach_remove, clear | signals sent after removal; handlers that change the store |
| Inhibitors (`csm-inhibitor.c`, manager) | cookie, client, bus name, flags; union of flags | Inhibit, Uninhibit, removal with the connection | just-in-time inhibitors; changes reported only when the union changes |
| End-session dialog (`cinnamon-session-quit.py`, `inhibit-dialog-info.c`) | countdown, inhibited, default response | show, countdown, button, inhibitors changed, terminate | countdown against button; goes on by itself when the inhibitors are gone |
| Applications (`csm-app.c`, `csm-autostart-app.c`) | pid, child watch, restart times, condition monitors | start, stop, restart, exited, died, condition changed | the old process's exit after a restart |
| Presence (`csm-presence.c`) | status, saved status, screensaver proxy | SetStatus, idle, screensaver signal | an asynchronous reply against a signal |
| System (`csm-system.c`, `csm-systemd.c`, `csm-consolekit.c`) | lock descriptor, list of inhibitors | add and remove inhibitor, reboot, power off, suspend | an asynchronous lock that is given back before it came |
| Display manager (`mdm*.c`) | socket, actions | query and set the logout action | I/O |
| Main (`main.c`) | main loop, bus name | start, SIGTERM, name lost | one-shot signal source |
| Session files (`csm-session-fill.c`, `csm-session-save.c`) | required components, saved clients | read, fall back, save, clear | partial files |
| Utilities, hardware check tools, test programs | - | - | not part of the protocol |

How they interact: the manager connects to signals of its clients
(`end-session-response`, `disconnected`, `register-request`), of its apps
(`registered`, `exited`, `died`, `condition-changed`), of its stores (`added`,
`removed`), of presence and of the system. It drives the dialog with
`InhibitorsChanged` and SIGTERM and is called back on the `EndSessionDialog`
interface. Removing an inhibitor anywhere updates the union of inhibited
actions, which may make the dialog call back, which ends a phase.

What makes it correct, per component: the end of session goes through its phases
in order, asks every client once per phase, never waits for nobody, honours
inhibitors unless forced, leaves nothing behind when cancelled, and ends the
process only after every client was told. Startup ends every phase exactly once.
XSMP saves are neither lost nor sent twice. Union and list of inhibitors agree.
The dialog sends one choice. An app's pid is that of its live process. The lock
of logind is held exactly while somebody inhibits.

## 2. Modules

| Module | What it is | Extends |
|---|---|---|
| `EndSession` | the end of a session: manager, clients, inhibitors, dialog, bus and timers | |
| `EndSessionProtocol` | what the manager promises its clients: asked together, saved together, stopped together | |
| `EndSession_proof` | the inductive invariant of `EndSession` and the theorems | `EndSession` |
| `EndSession_refinement` | that `EndSession` implements `EndSessionProtocol`, clients in step, inhibitors kept | `EndSession_proof` |
| `XsmpClient` | the SaveYourself queue of one XSMP client, against the manager and the client | |
| `XsmpClient_proof` | its inductive invariant and theorems | `XsmpClient` |
| `AutostartApp` | one application: process, child watches, restart limit, condition | |
| `Startup` | the manager's phases up to RUNNING with the applications, their clients and their processes | `AutostartApp` |
| `Startup_proof` | the inductive invariant of `Startup`, its invariants, and what no step of it does: its action properties as theorems | `Startup` |
| `Presence` | status, idle watches and screensaver | |
| `Inhibition` | inhibitors of suspend and idle with the presence, logind's lock and the screensaver | `Presence` |
| `Inhibition_proof` | the inductive invariant of `Inhibition` and the theorems | `Inhibition` |
| `DialogWindow` | the end-session dialog: buttons, countdown, views | |
| `QuitDialog` | the dialog's process, the manager and the power actions, with messages between them | `DialogWindow` |
| `QuitDialog_proof` | its inductive invariant and theorems | `QuitDialog` |
| `IceAuthority` | the authority file and what is written to it | |
| `XsmpServer` | servers, connections and the file's lock | `IceAuthority` |
| `XsmpServer_proof` | its inductive invariant and theorems | `XsmpServer` |
| `SessionFill` | which session is run and what it is filled with | |
| `SavedSession` | saving at the end of one login and coming back in the next, with crashes | `SessionFill` |
| `SavedSession_proof` | its inductive invariant and theorems | `SavedSession` |
| `MC...` | the instances for TLC, with the `.cfg` files | |

The pairs are composed: the first module has the object's operations as operators
on its record, the second has the variables and applies them where the code calls
them. `EndSession`, `XsmpClient`, `Startup`, `QuitDialog` and `SavedSession` each
see one side of the manager in full and the others as far as they disturb it: the
phases of the logout are one action in `Startup`, the clients' part in it one in
`QuitDialog`, the manager three variables in `XsmpClient`.

### EndSession and the code

`m` is `CsmManagerPrivate`, together with what the manager last told each client
(`told`), the dialog (`dialog`, and `calls`, its calls on their way), and what
became of the process (`loop`). `lockdown` is the setting `disable-log-out`,
`left` the connections whose departure has not been handled yet, `holders` is a
history variable: who took a logout inhibitor and has not let it go.

Handlers call each other deeply: a client's last answer calls `end_phase`, which
calls `start_phase`, which tells everybody to save or, if nobody is there, calls
`end_phase` again; and some handlers may end a phase twice. A guard and primed
variables per function would lose that, so every C function is an operator from
the structure to the structure, of the same name, and an action applies one
operator to `m`. Each call a handler makes is in the operator; `start_phase` is
folded into `do_phase_query_end_session`, `do_phase_end_session` and
`do_phase_exit`. A record passed to an operator may be one no state shows: that
is the structure in the middle of a handler.

What is abstracted:

- An inhibitor is the connection that took it, with the LOGOUT flag, or, if it is
  a just-in-time one, the client it stands for. Inhibitors that do not hold up a
  logout matter neither to a phase nor to the list in the dialog.
- Just-in-time inhibitors of a client are one, though the code may add several:
  they are removed together.
- `Tell` collects the loop over the store and what each client's class does with
  it; `told` is the last signal sent. A cancellation sets it to "none".
- The dialog is the one this repository brings (`cinnamon-session-quit.py`);
  Cinnamon's own dialog speaks the same interface. Its call on the manager is
  asynchronous (`calls`, in order); `InhibitorsChanged` and SIGTERM are taken to
  reach it at once. It sends a choice once; its countdown is left to
  `QuitDialog`. A closed dialog is forgotten at once, where the code waits for
  the process to end, and shows no new one in the meantime.
- `Suspend` stands for the dialog's Suspend, Hibernate and SwitchUser, which
  logout inhibitors do not hold up.
- A D-Bus client's departure is noticed by two routes, its own name watch and
  `NameOwnerChanged`, in either order, any time after it left. `Releasers` are
  connections that own a well-known name and may give it up: the manager sees
  `NameOwnerChanged` with their unique name as old owner.
- An XSMP client's `disconnected` handler runs once or twice
  (`registered`), as it is connected twice.
- The use of a freed client is recorded (`freed_use`); it may or may not crash
  (`FreedClientCrash`).
- A second request to logind while one is not answered is not counted.

### EndSessionProtocol

Its variables are the phase, the clients, what they were told, whether the
system was asked to go down, and whether the process has left its main loop. Its
steps are Ask, Save, SaveLast, Stop and Cancel, each of which tells every client
that stays, and Join and Leave. `EndSession` implements it under the mapping
`Protocol`: a handler that goes through several phases is one step, from the
first to the last of them, which the protocol allows only where nobody is left
to be told. That is the point of the refinement: from the query straight to the
exit is a step of the protocol only without clients, and every step tells
everybody the same thing.

### XsmpClient and the code

`x` is `CsmXSMPClientPrivate` (the save in progress, the queued one and its
bit), the messages on their way to the client, and how the manager stands to it:
the phase, whether the logout is forced, whether the client is in
`query_clients` or `next_query_clients`, and whether it has a just-in-time
inhibitor. `asked` is a history variable. `client` is the peer and `from_client`
its messages; the connection keeps their order in both directions.

Object and manager call each other: `save_yourself_done_callback` reports an
answer, which may end the phase, which starts the next save or stops the client,
all before the callback looks at its queue. The callbacks are therefore operators
again, and those that report an answer return a set: the manager goes on, or
waits for other clients, which are not modelled. `go_on` is the end of
`_handle_client_end_session_response`. The user's setting whether to save the
session chooses the save of END_SESSION, either one.

The save types keep their integers, because one test of the code depends on
them: `next_save_yourself` is compared with 0 in `send_next`, where -1 is the
empty queue and 0 is `SmSaveGlobal`. So a save of type -1 goes out after most
answers. It is none of the protocol's three, and the peer's library refuses it;
the properties are about saves of the three types (`IsSave`).

What the peer may do is the part of the protocol that the callbacks are for: it
answers every save it is told of, with SaveYourselfDone or a request for phase 2,
interacts once in a save if that is allowed, checkpoints itself, finishes a save
that was cancelled, and exits at any time. A client that asks to register during
a logout is turned down. Left out: properties, errors of the connection (they
end as CloseConnection does), and a known id that is refused.

### Startup, AutostartApp and the code

`m` is what `CsmManagerPrivate` has for the startup, `app[x]` the object of an
application together with the processes it started (`procs`), `client[x]` its
client. `kind` is its desktop file, which is read before the manager starts and
does not change; disabled applications are left out. As in `EndSession`, a function
of the code is an operator of the same name, on `st`, the manager with the
applications in the middle of a handler. `start_phase` folds the recursion of
`end_phase` and `do_phase_startup` into the set of phases that are started at once:
a phase that waits for nobody ends in the call that starts it.

A child watch stays with its process, so that the end of an old process is noticed
after its successor was started; a slot of `procs` is free again when its process
was reaped. Which launches succeed (`ok`) is chosen with the action. `events` are the
notifications of a monitor that were not delivered yet; what the file or the
setting says now is `world`. The condition about the session's name never changes
and counts as none. What the manager does for a logout is one action here
(`EndSession`), for that nothing is restarted or registered in it.

Not modelled: the reasons why a launch fails, a change of the desktop files while
the session runs, and `Spawn` of helpers before the first phase.

### Inhibition, Presence and the code

The store of inhibitors with their flags, `InhibitedActions`, the presence, what
csm-systemd.c knows of its lock (`systemd`) and what logind knows (`logind`), the
screensaver and its messages. An answer of logind arrives after any number of
further calls, in order, or is a refusal. `history` is kept for the properties only.
The screensaver may vanish and come back with messages on their way; bus signals
keep their order.

### QuitDialog, DialogWindow and the code

The dialog is a process: calls of its proxy (`calls`) and the manager's signals
(`signals`) are queues, SIGTERM is a flag, and its end is noticed by a child watch.
`handle_response`, `update_timer` and `inhibitor_info_received` are the methods of
`cinnamon-session-quit.py`. The countdown can end while the process answers
something else, because its source is never removed. `system` is logind or
ConsoleKit with the calls it has not answered; a power request may be refused,
by the system or by PolicyKit, and the manager then falls back on MDM.
Nothing is locked down, `logout-prompt` is set, and Cinnamon's own dialog does not
run.

### XsmpServer, IceAuthority and the code

The file is a sequence of entries, of which the first that fits is found. A server
goes through locking, reading, writing and unlocking, and may crash between any two
of them. A connection is queued, authenticated, registered or dropped; its timer
runs from the moment it is accepted. Assumed: the lock is broken only when its
holder is dead (a living holder would have to keep it for ten minutes); the contents
of the file change at once when it is closed, and what they do not cover of the old
ones stays (which is proved never to happen, section 5); entries without a network id,
and those of other protocols, do not occur; cookies are numbered by the server's start;
a process listens once on a local address. A server that ends does not take its entries
out of the file, as the code does not.

### SavedSession, SessionFill and the code

`SessionFill` computes what the code computes: the first valid key file, the
fallback if the session cannot run, the search through the directories, the
order in which required applications, those of the autostart directories and the
saved ones are added, and who is dropped because an application of that id or
service is there. A file is its startup id, what it provides, the program it starts
and the state it names; the black list is compared by name, where the code looks
for a part of the name. `SavedSession` runs it login after login: clients register,
save and leave; a logout writes one file per client, discards, unlinks and renames
in steps, with a crash possible between any two, and a write that may fail.
Assumed: nobody uninstalls a program; a client whose state is gone starts without
one; D-Bus clients are not saved, as the code has it; a login that finds no session
to run gives up. The fallbacks are tried one per step (`get_session_keyfile`), each with
an answer of its own from the helper; where the code calls itself, the model goes on
with `job.session`. Fallbacks that name each other may be tried for ever, in the model as
in the code. `Ids` stands for startup ids without end: a step that needs a new one is not
taken when none is left (`IdIsLeft`).

## 3. Runs

| Run | Constants | What it shows | Distinct states |
|---|---|---|---|
| `safety` | one D-Bus client, which may inhibit, one XSMP client, one call of the dialog in flight | what the phases set up and undo, what becomes of inhibitors, and the refinement of `EndSessionProtocol` | 575,680 |
| `liveness` | one XSMP client, one connection that owns and gives up a well-known name | queries are reported, saves end, a forced logout ends, with departures of nobody's name | 60,464 |
| `xsmp_client` | one client with all features, two messages on the way | the queue's safety, and that a queued save is sent | 152,539 |
| `startup` | eight pairs of applications, X11 and Wayland, two processes of each at a time, two notifications on the way | whom a phase waits for and when it ends, who runs when, restarts, conditions, and that the startup ends | 242,646 |
| `inhibition` | two inhibitors of one connection, two locks, two messages of the screensaver, two watches | the lock and the status, and that idling ends | 806,400 |
| `quit_dialog` | one inhibitor at a time with either flag, logind, two calls and signals on the way | the dialog's races and what follows at the system | 314,543 |
| `xsmp_server` | two sessions at a time of four, two process ids, one connection, two lists of sockets | the authority file and the handshakes | 369,167 |
| `saved_session` | three logins, two clients at a time, one state, crashes and failed writes | the saved session from login to login | 4,463,401 |
| `v_assert`, `v_unasked`, `v_consolekit`, `v_provides` | the smallest that show it | each one a disagreement between code and a comment, an assertion or a declaration (section 6) | |

The bounds are the sets of clients and connections and `MaxCalls`. They are enough
for the cases that matter: a phase is over when the *last* of several clients
answered, so two clients of different kinds give "the last" and "not the last"
with every kind of answer and departure; a connection that is no client gives the
events that belong to nobody. One call of the dialog in flight can be overtaken by
any number of steps of the others, which is what the dialog's races need.
`MaxMessages` of `XsmpClient` bounds the messages on the way when a logout or a
checkpoint begins; what follows is not bounded. With two, a logout can begin with an
answer to an earlier one outstanding, and its own save queued behind. `Features` says
what the client uses; the run has all three.

In `startup` two applications give a phase that waits for one and for both, and two
phases that wait one after the other; two processes give the old and the new one
of a restart; two notifications give a condition that is false and true again
before anybody looked. Each desktop file is there for one route: Cinnamon for the
launcher and Wayland's compositor, the daemon for autorestart and a condition before
its phase, services for D-Bus activation, panel and applet for conditions with and
without a client, the latecomer for the delay. In `inhibition` two locks are what
overlapping calls take, and two messages a signal that overtakes an answer that was
asked before it. In `quit_dialog` two calls are the countdown's behind the user's.
In `xsmp_server` two servers of four starts, with two process ids, meet at the file
and come back with the address of a dead one. In `saved_session` the third login
reads what the second saved over what the first left behind; its nine startup ids are
more than the session can use up at any time.

The proofs do not depend on these bounds.

`CHECK_DEADLOCK` is on where a program that has ended stutters in `Terminated`
(`EndSession`, `Startup`), so that a deadlock would be a running manager that nothing
can happen to. It is off in `quit_dialog`, `xsmp_server` and `saved_session` and their
violations: the machine goes down, the last session ends, the last login is over.

### Properties

Of `EndSession`:

- `RunningIsClean`, `TimersFitPhase`, `PendingClientsAlive` and `QueryNeverSilent`
  relate the phase to everything it set up. They can be broken
  only by a path through several handlers, and are proved (section 5).
- `ClientsInStep`: every client was last told what the phase is about. Clients
  register, leave, answer "last" and are cancelled in all phases.
- `HoldersKept`: an inhibitor lives through queries, timeouts and cancellations.
  It leaves out `Releasers` (hazard at `csm-manager.c:2700`) and anything after a
  request to power off, when `csm_manager_quit` has dropped all inhibitors (a
  cancellation may still follow; hazard at `csm-manager.c:506`).
- `ImplementsProtocol`: every step of the manager, through all its nested handlers,
  is one of the protocol or changes nothing of it. The session is over only when
  everybody who is left was told to stop, or the system was asked to go down.
- `QueryIsReported`, `SaveEnds`, `ForcedLogoutEnds`: see section 4.

Of `XsmpClient`:

- `SaveInProgressIsAnswered`: a save that counts as in progress has an answer to
  come. The queue moves only with an answer, so this is what keeps it from
  standing still; cancellations and the second phase change one without the other.
- `RunningSavesAreLocal`, `ShutdownSavesBelongToLogout`: a logout may be cancelled
  with one save in progress and another queued, and both answers come after that.
  After EXIT a queued save may still be sent: the client was told to die on the
  strength of an earlier answer.
- `TooLateToInteract`: what comes out of the queue was put there in another phase.
- `QueuedSaveIsSent`: for local and complete saves; global ones are never sent from
  the queue (`v_unasked`). A client that waits for phase 2 is excused: it has no
  save in progress and gets none from the queue before it sends a SaveYourselfDone,
  for which it waits for SaveYourselfPhase2, which outside a logout nobody sends
  (hazard at `csm-xsmp-client.c:1170`).

Of `Startup`:

- `StartupWaits`: a phase of the startup always has its timer and somebody to wait
  for, started in this phase and followed. Registrations, exits and deaths of
  applications of this phase and of earlier ones all end in `app_event_during_startup`.
- `WaitsForTheLiving`: nobody is waited for who can no longer be heard of. It excuses
  applications with autorestart, which the code does wait for after they died
  (hazard at `csm-manager.c:703`).
- `NobodyIsOvertaken`: a phase ends by its timer or by the last one it waits for.
- `NotBeforeItsPhase`: conditions change and launchers are restarted while the
  session starts.
- `StoppedStaysStopped`: for D-Bus clients; the departure of XSMP clients is processed
  twice (hazard at `csm-manager.c:3330`).
- `RestartsAreLimited`: over all routes to a restart.
- `ConditionIsHonoured`: over the orders in which a monitor's notifications, starts
  and ends are noticed.

Of `Inhibition`: `MonitorRespectsInhibitors` (the manager's flags, the presence and
the idle monitor's watches keep step), `LockIsHeld` (calls and answers of logind overlap;
that a lock may stay afterwards is the hazard at `csm-systemd.c:615`),
`StatusIsRemembered` and `ScreensaverIsKnown` (two sources of idleness, with late
messages; a screensaver asked before it vanished is excused by `missed`),
`IdleEnds`.

Of `QuitDialog`: `InhibitViewIsOfAction`, `NoDialogInTheEnd`, `ChoiceIsAnswered`,
`EndedSessionLeaves`. The last is for logind; `v_consolekit` shows why.

Of `XsmpServer`: `LookupIsAccepted`, `EveryConnectionIsSettled`.

Of `SavedSession`: `SavedIsWhole`, `StatesSurvive`, `EverybodyComesBack`,
`RequiredAreThere`.

Each module has a `TypeOK`. `safety` and `startup` check theirs, those of `XsmpClient`,
`Inhibition`, `QuitDialog`, `SavedSession` and `XsmpServer` are proved, as those of
`EndSession` and `Startup` are.

Every property has a mutant: a definition of the model changed the way a plausible
bug would change the code, under which the property fails. The mutants stand
before the definitions they change.

## 4. Fairness

`Fairness` of `EndSession` assumes weak fairness of the three steps that GLib and
logind owe the manager: an armed timer fires (`QueryEndSessionTimeout`,
`PhaseTimeout`), and a power request is answered (`PowerRequestAnswered`). A timer
that is removed and armed again may never fire: that would need an infinite number of
cancellations, each of which leaves the phase, so the properties are not affected. No
fairness is assumed of clients, dialog, user or bus. In particular `SaveEnds` holds
because of the timer alone, whatever the clients do, and `ForcedLogoutEnds` needs the
query timer, the phase timer and logind in turn. It allows a cancellation: an XSMP
client's InteractDone may cancel even a forced logout.

`FairSpec` of `XsmpClient` assumes weak fairness of the main loop's handling of
messages, and that the client reads its messages and ends its saves and its
interactions, as the protocol demands. It assumes nothing of the manager.

`FairSpec` of `Startup`: the phase timer fires, child watches and monitors are
served, and a process that was sent SIGTERM ends. Nothing is assumed of
applications otherwise: `StartupEnds` holds by the timers, whatever they do. The
phases are a finite sequence, each with a timer of its own, so weak fairness of the
one action is enough.

`FairSpec` of `Inhibition`: the idle monitor reports activity while the user is there.
Of `QuitDialog`: the main loops of manager and dialog serve calls, signals and
SIGTERM, the query ends, and the system answers; nothing of the user, the
inhibitors and the clients. Of `XsmpServer`: sessions start, queued connections are
accepted, and the timer of a connection fires; nothing of the peers. `SavedSession`
has no liveness.

`SaveEnds` takes handlers to end. `maybe_play_logout_sound` waits for the sound in a
loop without limit (`csm-manager.c:3093`); if its callback never comes, neither the
main loop nor the phase timer runs again.

## 5. Proofs

`EndSession_proof` proves, for any sets of clients, connections and releasers and any
`MaxCalls > 0` (`ConstantsAssumption`), that in every reachable state `TypeOK`,
`RunningIsClean`, `PendingClientsAlive`, `QueryNeverSilent`, `TimersFitPhase` and
`QuitKnowsHow` hold.

The five are not inductive one by one. That the query's timer is safe
(`PendingClientsAlive`) needs that a cancellation cleans up, that `QuitKnowsHow`
holds needs that the dialog has no action to force in RUNNING (`RunningIsClean`:
`IgnoreInhibitors` in RUNNING would otherwise start a logout without a type), and
`TimersFitPhase` needs a logout type to go on to EXIT. `Settled` is their
conjunction, written for any record rather than for `m`, so that it can be said
of what a handler starts from and ends with; `Inv == TypeOK /\ Settled(m)` is
inductive.

In the middle of a handler `Settled` does not hold: each operator has a lemma that
says what it needs and what it leaves. `Endable` is what `end_phase` needs (in a
phase, with a logout type), `Answered` what the end of a query needs. From the
bottom: the dialog and the inhibitors change nothing else (`DialogHears`,
`Emitted`, `InhibitorsSet`); the phases (`QuitFacts`, `ExitFacts`, `SaveFacts`,
`QueryFacts`, `EndPhase`, `SecondPart`, `Cancelled`); the end of the query
(`Reported`, `Completed`, `QueryTimedOut`); answers and departures (`Responded`,
`Disconnected`, `Removed`, `NobodyLeft`, `ClientLeft`, `NameLost`); requests and
the dialog. `Removed` is where it is delicate: the handler of a leaving client may
end the query and start the save with that client still in the store, and what
saves `PendingClientsAlive` is that its own answer took it off the list
(`OffTheList`) before the client is removed.

`EndSession_refinement` proves, from the same assumptions, that `EndSession`
implements `EndSessionProtocol` (`Refinement`), that clients stay in step
(`ClientsStayInStep`), and that inhibitors live on (`HoldersStayKept`). The steps of
the protocol are written as relations of two records (`Asks`, `Saves`, `SavesLast`,
`Stops`, `StopsAgain`, `Cancels`, `Leaves`), so that they can be said of a part of a
handler, and each operator of the manager has a lemma that says which of them it may
be. `Composed` says when two parts in a row are one step: always, unless the first
tells clients to save and the second tells those who stay something else. It is
needed where handlers end a phase twice. The delicate place is `DepartureTwiceStep`:
an XSMP client's `disconnected` handler runs twice, and the first time may have ended
the query and told the others to save; the second finds those still awaited, so it can
only be a leave. What the steps need of the state before them (`Tracked`: who is not
there was told nothing, in EXIT everybody was told to stop) follows from
`ClientsInStep`, which is part of the invariant of `StepHolds`. `ProtocolKeepsStep`
shows it of the protocol itself: whatever implements it keeps clients in step.

`XsmpClient_proof` proves, for any features and any `MaxMessages > 0`, `TypeOK`,
`SaveInProgressIsAnswered`, `RunningSavesAreLocal`, `ShutdownSavesBelongToLogout` and
`TooLateToInteract`. The invariant `Sound` adds to the types and `RunningSavesAreLocal` that a queued
complete save has no interaction queued with it: a save leaves the queue in another
phase than it entered it, and only these two facts travel with it. The action
properties follow from `Delivers(s, r)`, which says of a piece of a handler that it
only adds messages, and that the new ones fit the phase it leaves. `Composed` is
the heart: two pieces make one if the second keeps the phase, or the first sends
no save (`Quiet`). Every handler is made of such pieces: SaveComplete is quiet, the
manager's answer may change the phase, and what the queue sends then keeps it.
`SavesAreAnswered` needs the types and itself (`Pending`) only. `Owes(s, r)` says of a
piece of a handler that it leaves the save in progress as it was, or ends it, or has
put one on the wire, which nothing that follows takes back (`OwesTwice`,
`StillCarries`). The two callbacks that take an answer off the wire
(`DoneOwes`, `Phase2Owes`) end the save before they call the manager, so that whatever
is in progress when they return was sent in between. The mutant that lets a client
wait for phase 2 with its save in progress breaks just that.

`Startup_proof` proves, for any finite set of applications, any desktop files and any
`MaxProcs`, `MaxEvents > 0` (`SessionsAssumption`, `BoundsAssumption`), `TypeOK`,
`StartupWaits`, `WaitsForTheLiving` and `NotBeforeItsPhase`. `Good` is their
conjunction for a state in the middle of a handler. It adds that an application whose
phase has not come is `Asleep` (no process, no timer, nobody listening, no client): a
phase that starts must find the applications it starts without a process, and
nobody else may start them before; and that no restart of the launcher is asked for
before the session runs. `GoodBut(st, {x})` is `Good` for everybody but `x`, which has
just lost its process: every way on from there, a restart, a failure that takes it
off the list, the end of the session, leads back to `Good` (`RestartGood`,
`EventGood`, `DiedGood`, `ExitedGood`). `StartPhase` is where the phases are
skipped that wait for nobody. Whoever is asleep was not restarted within the last minute
either, which `RestartsAreLimited` needs. `AppState` is a set of records with the condition that
the pid's slot is not free, so `TypeCorrect` says that the application never signals a
process that was reaped.

The second part of `Startup_proof` proves the action properties `NobodyIsOvertaken`,
`StoppedStaysStopped` and `RestartsAreLimited` from the same invariant. A handler is about one application:
`About(st, x, t)` says that the phase is left only if nobody but x is waited for, that
everybody else is left alone or was asleep and is started by its phase, and that x
itself, if it was restarted within the last minute, is not touched. `AboutTwice` puts
two parts of a handler together: an application that the first part started cannot be
started by the second, because its phase has come. `Steps` says of every step
that it is such a handler, or the phase timer, or the launcher's restart, or a change of
one application alone. For `RestartsAreLimited` one route is left: the timer of a delayed
start, which looks at nothing. `DelayedNeverStarted` excludes it: without a condition,
nobody else starts an application while that timer runs.

`QuitDialog_proof` proves, for any inhibitors, flags, backends and answers of the system
and any `MaxMessages > 1` (`QuitDialogAssumption`), `TypeOK`, `NoDialogInTheEnd` and
`InhibitViewIsOfAction`. `Fine` is the invariant of the structure that a handler works
on; every operator of the manager has a lemma that it keeps it and sends one signal at
most (`Grows`). `Ending` is what the handlers take for granted: a phase of the end has a
logout type, and an action that ends the session was reported during the end, so that
"continue anyway" never begins one without a type. `Informed` makes
`InhibitViewIsOfAction` inductive: the *last* signal on its way, or the view if there is
none, is how the present action stands. It holds because whoever changes the action
signals (`Emits`), because the union of the flags decides (`Updates`), and
because what forgets the action also closes the dialog (`Cancels`). Earlier signals may
be wrong by the time they arrive, and are overtaken in order.

`Inhibition_proof` proves, for any cookies, connections and sets of flags and any
bounds on locks, messages and watches (`InhibitionAssumption`, `WatchesAssumption`),
`TypeOK`, `LockIsHeld`, `StatusIsRemembered`, `ScreensaverIsKnown` and
`MonitorRespectsInhibitors`. The invariant has five parts. `InStep`: the manager's
store, the presence and logind's list agree on who inhibits what. `LockSound`: a
descriptor is that of a lock, which is what `LockIsHeld` needs when a lock is given
back while another call is under way. `StatusKept`: the saved status is never "idle",
though the screensaver and the idle monitor may each begin and end being idle in any
order. `SaverKnown`: the last message on its way is true of the screensaver; the
others may be out of date, and are overtaken by it, because messages keep their order.
The parts touch little of each other, so that a lemma each says of a step that it
keeps one, given the types and the parts before it.

`SavedSession_proof` proves, for whatever is installed and asked for and any number of
logins, clients, states and startup ids, `TypeOK`, `SavedIsWhole`, `StatesSurvive`,
`EverybodyComesBack` and `RequiredAreThere`. It takes from `InstalledAssumption` that
files are well-formed, and that no installed file is named like a startup id, which is
a long number with the time and the process id in it (`csm-util.c:475-522`). The invariant
follows the session from login to login. `Named`: a file that is named by a startup id is
that client's, on disk, as an app and as the client the app becomes. Without it, two
clients might be given one file: the first comes back under the name of the other's id.
`Saves`: while clients are saved, the new directory has the files of those who were, and
no other, under different names, and what they name is not discarded and exists. From
this the renamed directory is whole (`AllAreWhole`, by a bijection between files and
startup ids). `Restored` and `Required` say of each saved file and each requirement that it
is still to be added (`Waiting`, `Todo`) or there (`Back`, `IsRequired`). An app that was
added as required under the name of a saved file must have come from that file; this
holds because what is looked for by name is looked for in the saved session first
(`FoundFile`), and the saved session's directory is added before the others. `Added` is
what adding an app does, on each of its four ways; `Grows`, that nothing is taken away,
is what keeps what was there. The first directory of a search and the first
valid key file are least elements of a set of numbers, which exist by `LeastOfSet`, from
the well-foundedness of the order.

`XsmpServer_proof` proves, for any number of sessions, connections and starts, any
finite set of process ids and any lists of sockets with a local one and no local address
twice (`XsmpServerAssumption`), `TypeOK` and `LookupIsAccepted`. The argument is that the
file is `Single`: it has one entry at most for each protocol and network id. So it does
not matter in which order `update_iceauthority` prepends and appends entries, which of
them is found first (`LookupFacts`), or whose entries a dead session left; the file is
never longer than four entries for each process id (`FileIsShort`, by counting); and what
is written has all the ids of what was read, so it is not shorter and nothing of the old
contents is left behind it (`NothingIsLeft`), though the code does not truncate. `Others`
and `LocalFirst` are recursive functions, as long as the list they read. What they
compute is shown by `UpTo`: a set that has 0, and with i-1 also i, has every number up to
n. It follows from the well-foundedness of the order and is about a set, where the
library's theorem takes an operator. `Moved` and `Rest` are the loop invariants, of the
sort of the local sockets and of the reading loop. `Sound` says of a server that it holds
the lock from reading to unlocking, that what it is about to write was made from the file
as it is *now*, and that once it wrote its entries they stay. Only `WriteKeeps` changes the
file: nobody else holds the lock, so nobody else is between reading and writing, and the
entries of the others are kept because their process id is another one (`PidsDiffer`).

Only model-checked:

- Liveness (`QueryIsReported`, `SaveEnds`, `ForcedLogoutEnds`, `QueuedSaveIsSent`,
  `StartupEnds`, `ConditionIsHonoured`, `IdleEnds`, `ChoiceIsAnswered`,
  `EndedSessionLeaves`, `EveryConnectionIsSettled`): out of the prover's reach.

## 6. Where code and text disagree

- `v_assert`: cancelling a logout while the dialog's IgnoreInhibitors is on its way
  runs into `g_assert_not_reached` (`csm-manager.c:1315`).
- `v_unasked`: a client that is still at its initial save is never asked, and is
  taken to have answered (`csm-xsmp-client.c:731-733`, `1250`). The query's save
  stays in the queue for good (`1254`), where it makes later saves "redundant"
  (`410-412`).
- `v_consolekit`: `csm-consolekit.c:292,314` emit `request_completed`, the name of the
  slot in `csm-system.h:49`; the signal is called `request-failed`
  (`csm-system.c:44-47`). A power request that ConsoleKit refuses leaves the session in
  EXIT.
- `v_provides`: a required application that is dropped because a service of its own
  desktop file is provided already does not hand on what it was required for
  (`csm-manager.c:4325-4352`, against the comment at `4293-4297`).

Other things the code does against what one may expect are listed as hazards with a
note: an XSMP client's departure processed twice, a client freed while it is in
`next_query_clients`, a query whose dialog has gone, inhibitors lost with a well-known
name, a lock of logind that is never given back, a saved state discarded though the
save failed.

## 7. Not modelled

Marked in `PROJECT.json` with the reason. Of the end of session: the sound in
`end_phase`, `dbus_disconnected` and losing the bus name, inhibitors of user
switching and automounting, and dialogs of Cinnamon itself. Of the applications: what
a desktop file says beyond the fields of `DesktopFile`. Of clients: properties, except
what saving keeps of them. MDM's socket, sockets of ICE, the hardware check, most
utilities and the test programs are I/O or not part of the protocol.

Seen while reading, and left out of the models or stated by no property:

- `main.c:109`: SIGTERM is handled once; a refused request leaves the next one to
  its default action.
- `csm-manager.c:279`: a compositor that cannot be launched at all is only warned about.
- `csm-manager.c:750`: a delayed start does not look whether the application runs
  already by its condition; the model keeps both processes.
- `csm-manager.c:377`: a condition that turns false and true again before the old process
  is reaped leaves the application stopped.
- `csm-manager.c:2783`: Cancel while the dialog is busy and shows no inhibitors closes the
  dialog only.
- `csm-manager.c:502`: `quit_request_failed` is connected anew with every request.
- `csm-consolekit.c:821`: ConsoleKit has no `can_hybrid_sleep`, which
  `csm-manager.c:2805` calls with `prefer-hybrid-sleep` set.
- `csm-session-fill.c:458`: fallbacks that name each other are tried for ever.
- `csm-manager.c:4319`: a required component whose file does not load is left out silently.
- `csm-autostart-app.c:1187`, `csm-session-save.c:124`: errors handed on after they were
  freed; memory is not modelled.

## 8. Plan

Done: the modules of section 2, in the order in which they stand there.

Left, in this order:

1. That what `XsmpClient` sees of the manager is what `EndSession` does to one client
   (a refinement), and the same for the dialog in `EndSession` and `QuitDialog`.
2. MDM's protocol, if more of it than one call at a time turns out to matter.
