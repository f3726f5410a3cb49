------------------------------- MODULE Startup -------------------------------
(***************************************************************************)
(* The startup of the session and the life of its applications: the        *)
(* manager of csm-manager.c starts the applications of one phase after     *)
(* the other, waits in each phase for those that it started to register    *)
(* or to end, or for its timer, and keeps them running afterwards.         *)
(*                                                                         *)
(* Beside the manager run the applications' processes, which register as   *)
(* clients, leave and die at any time, the files and settings that the     *)
(* conditions of applications are about, and the end of the session, of    *)
(* which only the phase is kept here (it is the subject of EndSession).    *)
(*                                                                         *)
(* A handler may end a phase, start the next, find nothing to wait for     *)
(* and go on: st is the manager with the applications in the middle of a   *)
(* handler, and every function is an operator on it.  Which launches       *)
(* succeed is chosen before the handler runs (ok).                         *)
(***************************************************************************)
EXTENDS AutostartApp, FiniteSets

CONSTANTS
    Apps,           \* the applications that are not disabled
    Sessions        \* the desktop files that they may have

ASSUME SessionsAssumption ==
    /\ Sessions \subseteq [Apps -> DesktopFile]
    /\ IsFiniteSet(Apps)

VARIABLES
    kind,           \* the desktop files, read before the manager starts
    wayland,        \* whether this is a Wayland session
    m,              \* CsmManagerPrivate
    app,            \* the applications
    client          \* the client of an application, if it has one

vars == <<kind, wayland, m, app, client>>

-----------------------------------------------------------------------------
(* Types.                                                                  *)

\* A client of an application: the process it is in, whether its hint is to
\* restart it immediately, whether it has left; condition counts how often
\* it is in condition_clients.
NoClient == [proc |-> NoPid, type |-> "none", immediately |-> FALSE,
             left |-> FALSE, condition |-> 0]

Client ==
    [ proc : Slots, type : {"dbus", "xsmp"}, immediately : BOOLEAN,
      left : BOOLEAN, condition : 0 .. 2 ] \cup {NoClient}

Manager ==
    [ phase    : EARLY_INITIALIZATION .. QUERY_END_SESSION,
      pending  : SUBSET Apps,       \* pending_apps
      timer    : BOOLEAN,           \* phase_timeout_id
      relaunch : BOOLEAN,           \* the idle source of RestartCinnamonLauncher
      quit     : BOOLEAN ]          \* csm_quit was called

TypeOK ==
    /\ kind \in Sessions
    /\ wayland \in BOOLEAN
    /\ m \in Manager
    /\ app \in [Apps -> AppState]
    /\ client \in [Apps -> Client]

Registered(c, x) == c[x] # NoClient

-----------------------------------------------------------------------------
(* The phases of the startup.                                              *)

_start_app(k, r, launched) ==
    LET c == [peek_is_conditionally_disabled(k, r) EXCEPT !.watched = TRUE]
    IN  IF conditionally_disabled(k, r) THEN c
        ELSE IF k.delayed THEN [c EXCEPT !.delay = TRUE]
        ELSE IF ~(launched \/ k.activated) THEN c
        ELSE [csm_app_start(k, c) EXCEPT !.followed = (k.phase < APPLICATION)]

\* The applications that a phase waits for once it has started: those that
\* were started, except in the last phase.
awaited(st, p, ok) ==
    { x \in Apps : /\ kind[x].phase = p
                   /\ p < APPLICATION
                   /\ ~conditionally_disabled(kind[x], st.app[x])
                   /\ x \in ok \/ kind[x].activated }

\* do_phase_startup, in start_phase: a phase that waits for nobody ends at
\* once, so the applications of all phases up to the first that waits are
\* started, or all of them if none waits and the session runs.
start_phase(st, p, ok) ==
    LET waits == {q \in p .. APPLICATION : awaited(st, q, ok) # {}}
        now == IF waits = {} THEN RUNNING
               ELSE CHOOSE q \in waits : \A r \in waits : q <= r
    IN  [ m |-> [ st.m EXCEPT !.phase = now,
                              !.pending = awaited(st, now, ok),
                              !.timer = (now < RUNNING) ],
          app |-> [ x \in Apps |->
                      IF kind[x].phase \in p .. now
                        THEN _start_app(kind[x], st.app[x], x \in ok)
                        ELSE st.app[x] ] ]

end_phase(st, ok) == start_phase(st, st.m.phase + 1, ok)

\* Mutant: nobody looks whether that was the last one.
app_event_during_startup_stuck(st, x, ok) ==
    IF st.m.phase >= APPLICATION THEN st
    ELSE [st EXCEPT !.m.pending = @ \ {x}]

\* Mutant: any application of a phase ends it.
app_event_during_startup_any(st, x, ok) ==
    IF st.m.phase >= APPLICATION THEN st ELSE end_phase(st, ok)

app_event_during_startup(st, x, ok) ==
    IF st.m.phase >= APPLICATION
      THEN st
      ELSE LET rest == st.m.pending \ {x}
           IN  IF rest = {} THEN end_phase(st, ok)
               ELSE [st EXCEPT !.m.pending = rest]

-----------------------------------------------------------------------------
(* Applications that fail.                                                 *)

\* On Wayland the session cannot go on without its compositor.
on_required_app_failure(st, x) ==
    [st EXCEPT !.m.quit = @ \/ (wayland /\ kind[x].wm)]

csm_app_restart_failed(st, x, ok) ==
    LET t == IF kind[x].required THEN on_required_app_failure(st, x) ELSE st
    IN  app_event_during_startup(t, x, ok)

\* Mutant: the phase goes on waiting for an application that is given up.
_restart_app_awaited(st, x, ok) ==
    LET t == [st EXCEPT !.app[x] = csm_app_restart(kind[x], @, x \in ok)]
    IN  IF wayland /\ kind[x].wm THEN [st EXCEPT !.m.quit = TRUE]
        ELSE IF ~restarted(kind[x], st.app[x], x \in ok) /\ kind[x].required
          THEN on_required_app_failure(t, x)
        ELSE t

_restart_app(st, x, ok) ==
    LET t == [st EXCEPT !.app[x] = csm_app_restart(kind[x], @, x \in ok)]
    IN  IF wayland /\ kind[x].wm THEN [st EXCEPT !.m.quit = TRUE]
        ELSE IF restarted(kind[x], st.app[x], x \in ok) THEN t
        ELSE csm_app_restart_failed(t, x, ok)

app_died(st, x, ok) ==
    IF kind[x].autorestart THEN st ELSE _restart_app(st, x, ok)

\* A component of the session that ends with an error has crashed; anything
\* else has done what it was started for.
exited(st, x, how, ok) ==
    IF how # "exit0" /\ kind[x].required
      THEN IF kind[x].autorestart THEN st ELSE _restart_app(st, x, ok)
      ELSE app_event_during_startup(st, x, ok)

-----------------------------------------------------------------------------
(* Handlers.                                                               *)

Room(x) == Free(app[x]) # {}                    \* bound

Handle(st) == m' = st.m /\ app' = st.app

Now == [m |-> m, app |-> app]

\* A child watch: the process is reaped, and its end is what the manager
\* hears of it if it follows the application.
ChildExited(x) ==
    \E s \in Dead(app[x]), ok \in SUBSET Apps :
        LET how == app[x].procs[s]
            st == [Now EXCEPT !.app[x] = app_exited(@, s)]
        IN  /\ Handle(IF ~app[x].followed THEN st
                      ELSE IF how = "signal" THEN app_died(st, x, ok)
                                             ELSE exited(st, x, how, ok))
            /\ UNCHANGED <<kind, wayland, client>>

\* Mutant: the timer warns and is armed again.
on_phase_timeout_again(st, ok) == st

on_phase_timeout(st, ok) ==
    LET lost == {x \in st.m.pending : kind[x].required}
        t == [st EXCEPT !.m.timer = FALSE,
                        !.m.quit = @ \/ \E x \in lost : wayland /\ kind[x].wm]
    IN  end_phase(t, ok)

PhaseTimeout ==
    /\ m.timer
    /\ \E ok \in SUBSET Apps : Handle(on_phase_timeout(Now, ok))
    /\ UNCHANGED <<kind, wayland, client>>

\* The timer of a delayed start does not ask whether the application runs.
_autostart_delay_timeout(k, r, launched) ==
    LET c == [peek_is_conditionally_disabled(k, r) EXCEPT !.delay = FALSE]
    IN  IF conditionally_disabled(k, r) \/ ~(launched \/ k.activated)
          THEN c ELSE csm_app_start(k, c)

DelayTimeout(x) ==
    /\ app[x].delay /\ Room(x)
    /\ \E launched \in BOOLEAN :
         Handle([Now EXCEPT
             !.app[x] = _autostart_delay_timeout(kind[x], @, launched)])
    /\ UNCHANGED <<kind, wayland, client>>

\* csm_client_stop asks the client to go; it may not.  Nobody listens to the
\* condition of an application before its phase.
app_condition_changed(r, x, condition, launched) ==
    CASE condition /\ ~is_running(r) /\ ~Registered(client, x) /\
             (launched \/ kind[x].activated) -> csm_app_start(kind[x], r)
      [] ~condition /\ ~Registered(client, x) -> csm_app_stop(kind[x], r)
      [] OTHER -> r

\* Mutant: the manager listens from the beginning.
heard_always(x) == condition_changed(kind[x], app[x])

heard(x) == condition_changed(kind[x], app[x]) /\ app[x].watched

ConditionChanged(x) ==
    /\ app[x].events # << >> /\ Room(x)
    /\ LET r == condition_cb(kind[x], app[x])
       IN  /\ \E launched \in BOOLEAN :
                Handle([Now EXCEPT !.app[x] =
                    IF heard(x)
                      THEN app_condition_changed(r, x, r.condition, launched)
                      ELSE r])
           /\ IF heard(x) /\ ~r.condition /\ Registered(client, x)
                THEN /\ client[x].condition < 2
                     /\ client' = [client EXCEPT ![x].condition = @ + 1]
                ELSE UNCHANGED client
    /\ UNCHANGED <<kind, wayland>>

-----------------------------------------------------------------------------
(* Clients.                                                                *)

\* During the startup a startup id is looked up among the applications that
\* the phase waits for; a D-Bus client is then recognised by its app id, an
\* XSMP client is turned away (it comes back as a client of no application).
find_app_for_startup_id(x) == m.phase >= APPLICATION \/ x \in m.pending

app_registered(st, x, ok) ==
    IF app[x].followed THEN app_event_during_startup(st, x, ok) ELSE st

RegisterClient(x) ==
    /\ m.phase < QUERY_END_SESSION
    /\ ~Registered(client, x)
    /\ kind[x].client # "none"
    /\ find_app_for_startup_id(x) \/ kind[x].client = "dbus"
    /\ \E s \in Slots, immediately \in BOOLEAN :
         /\ app[x].procs[s] = "running"
         /\ immediately => kind[x].client = "xsmp"
         /\ client' = [client EXCEPT ![x] =
                [proc |-> s, type |-> kind[x].client, immediately |-> immediately,
                 left |-> FALSE, condition |-> 0]]
    /\ \E ok \in SUBSET Apps : Handle(app_registered(Now, x, ok))
    /\ UNCHANGED <<kind, wayland>>

\* What _disconnect_client does about the application of a client.  A client
\* that its condition stopped is not restarted.
_disconnect_client(st, x, condition, ok) ==
    IF /\ st.m.phase < QUERY_END_SESSION
       /\ kind[x].autorestart \/ client[x].immediately
       /\ condition = 0
      THEN _restart_app(st, x, ok)
      ELSE st

\* Mutant: condition_clients is not looked at.
disconnected_unconditionally(st, x, ok) == _disconnect_client(st, x, 0, ok)

\* An XSMP client's handler is connected when it comes and when it registers:
\* it runs twice, and takes the client off condition_clients each time.
disconnected(st, x, ok) ==
    LET once == _disconnect_client(st, x, client[x].condition, ok)
        again == IF client[x].condition = 2 THEN 1 ELSE 0
    IN  IF client[x].type = "xsmp" THEN _disconnect_client(once, x, again, ok)
                                   ELSE once

ClientDisconnected(x) ==
    /\ Registered(client, x) /\ client[x].left
    /\ Cardinality(Free(app[x])) >= (IF kind[x].launcher THEN 2 ELSE 1)  \* bound
    /\ \E ok \in SUBSET Apps : Handle(disconnected(Now, x, ok))
    /\ client' = [client EXCEPT ![x] = NoClient]
    /\ UNCHANGED <<kind, wayland>>

-----------------------------------------------------------------------------
(* RestartCinnamonLauncher, and the end of the session.                    *)

RestartCinnamonLauncher ==
    /\ m.phase = RUNNING
    /\ Handle([Now EXCEPT !.m.relaunch = TRUE])
    /\ UNCHANGED <<kind, wayland, client>>

restart_cinnamon_launcher ==
    /\ m.relaunch
    /\ \A x \in Apps : kind[x].launcher => Room(x)
    /\ \E launched \in BOOLEAN :
         Handle([ m |-> [m EXCEPT !.relaunch = FALSE],
                  app |-> [x \in Apps |->
                      IF kind[x].launcher
                        THEN csm_app_restart(kind[x], app[x], launched)
                        ELSE app[x]] ])
    /\ UNCHANGED <<kind, wayland, client>>

\* The phases of the end of the session are one here: nothing is restarted or
\* registered in any of them.
EndSession ==
    /\ m.phase = RUNNING
    /\ Handle([Now EXCEPT !.m.phase = QUERY_END_SESSION])
    /\ UNCHANGED <<kind, wayland, client>>

CancelEndSession ==
    /\ m.phase = QUERY_END_SESSION
    /\ Handle([Now EXCEPT !.m.phase = RUNNING])
    /\ UNCHANGED <<kind, wayland, client>>

Quit ==
    /\ m.phase = QUERY_END_SESSION
    /\ Handle([Now EXCEPT !.m.quit = TRUE])
    /\ UNCHANGED <<kind, wayland, client>>

-----------------------------------------------------------------------------
(* Processes and the world.                                                *)

\* A process ends by itself or because it was told to; its connection to the
\* session goes with it.  How it ends matters only to one who follows it.
ProcessEnds(x) ==
    \E s \in Live(app[x]), how \in IF app[x].followed THEN Ended ELSE {"exit0"} :
        /\ how = "exit1" => kind[x].required
        /\ app' = [app EXCEPT ![x].procs[s] = how]
        /\ client' = [client EXCEPT ![x].left = @ \/ client[x].proc = s]
        /\ UNCHANGED <<kind, wayland, m>>

\* A client may close its connection some time before its process ends.
ClientLeaves(x) ==
    /\ Registered(client, x) /\ ~client[x].left
    /\ client' = [client EXCEPT ![x].left = TRUE]
    /\ UNCHANGED <<kind, wayland, m, app>>

WorldChanges(x) ==
    /\ kind[x].condition # "none"
    /\ Len(app[x].events) < MaxEvents
    /\ app' = [app EXCEPT ![x].world = ~@, ![x].events = Append(@, ~app[x].world)]
    /\ UNCHANGED <<kind, wayland, m, client>>

MinutePasses(x) ==
    /\ app[x].recent
    /\ app' = [app EXCEPT ![x].recent = FALSE]
    /\ UNCHANGED <<kind, wayland, m, client>>

-----------------------------------------------------------------------------

\* csm_manager_start: the debug summary asks every application for its
\* condition before the first phase starts.
Init ==
    /\ kind \in Sessions
    /\ wayland \in BOOLEAN
    /\ \E world \in [Apps -> BOOLEAN], ok \in SUBSET Apps :
         /\ \A x \in Apps : kind[x].condition = "none" => world[x]
         /\ LET st == start_phase(
                   [ m |-> [phase |-> EARLY_INITIALIZATION, pending |-> {},
                            timer |-> FALSE, relaunch |-> FALSE, quit |-> FALSE],
                     app |-> [x \in Apps |-> NewApp(world[x])] ],
                   EARLY_INITIALIZATION, ok)
            IN  m = st.m /\ app = st.app
    /\ client = [x \in Apps |-> NoClient]

Terminated == m.quit /\ UNCHANGED vars

Next ==
    \/ /\ ~m.quit
       /\ \/ \E x \in Apps :
               \/ ChildExited(x) \/ DelayTimeout(x) \/ ConditionChanged(x)
               \/ RegisterClient(x) \/ ClientDisconnected(x)
               \/ ProcessEnds(x) \/ ClientLeaves(x) \/ WorldChanges(x)
               \/ MinutePasses(x)
          \/ PhaseTimeout \/ RestartCinnamonLauncher \/ restart_cinnamon_launcher
          \/ EndSession \/ CancelEndSession \/ Quit
    \/ Terminated

Spec == Init /\ [][Next]_vars

\* The main loop serves timers, child watches and monitors, and a process
\* that is told to terminate does so.
Terminates(x) ==
    /\ ProcessEnds(x)
    /\ \E s \in Slots : app[x].procs[s] = "terminating" /\ app'[x].procs[s] \in Ended

FairSpec ==
    /\ Spec
    /\ WF_vars(PhaseTimeout)
    /\ \A x \in Apps : /\ WF_vars(ChildExited(x))
                       /\ WF_vars(ConditionChanged(x))
                       /\ WF_vars(Terminates(x))

-----------------------------------------------------------------------------
(* Properties.                                                             *)

\* While the session starts it always waits for somebody: a phase before the
\* last has its timer running and somebody on pending_apps, all of them
\* started in this very phase and followed; once it runs nothing is left of
\* the startup.  (An application of an earlier phase that comes late, and one
\* that ends while the next phase is being started, must not spoil this.)
StartupWaits ==
    \/ m.quit
    \/ /\ m.phase < APPLICATION /\ m.timer /\ m.pending # {}
       /\ \A x \in m.pending : kind[x].phase = m.phase /\ app[x].followed
    \/ m.phase > APPLICATION /\ ~m.timer /\ m.pending = {}

\* A phase does not wait for the dead: an application that was spawned and
\* that nobody else restarts has a process, or one whose end is still to be
\* noticed, as long as it is waited for.
WaitsForTheLiving ==
    \A x \in m.pending :
        m.quit \/ kind[x].activated \/ kind[x].autorestart
            \/ Live(app[x]) \cup Dead(app[x]) # {}

\* No application is overtaken: a phase is left when its time is up, or when
\* the only application still waited for is the one the step is about.
NobodyIsOvertaken ==
    [][ m.phase < APPLICATION /\ m'.phase # m.phase =>
          \/ PhaseTimeout
          \/ \E x \in Apps : m.pending = {x} /\ <<app[x], client[x]>>' # <<app[x], client[x]>>
      ]_vars

\* However conditions change while the session starts, no application runs
\* before its phase has come.
NotBeforeItsPhase ==
    \A x \in Apps : Live(app[x]) # {} => kind[x].phase <= m.phase

\* A client that its condition told to stop, and that stops, is not started
\* again by its own departure.  Stated for D-Bus clients.
StoppedStaysStopped ==
    [][ \A x \in Apps :
          /\ client[x].condition > 0 /\ client[x].type = "dbus"
          /\ client'[x] = NoClient
        => Live(app'[x]) \subseteq Live(app[x]) ]_vars

\* Restarts are limited: without a minute in between, an application that is
\* not Cinnamon's launcher is started again at most once by its failures.
RestartsAreLimited ==
    [][ \A x \in Apps :
          /\ app[x].recent /\ app'[x].recent /\ ~kind[x].launcher
          /\ kind[x].condition = "none"
        => Live(app'[x]) \subseteq Live(app[x]) ]_vars

\* The startup ends, whatever applications do.
StartupEnds == m.phase < RUNNING ~> (m.phase >= RUNNING \/ m.quit)

\* An application of the last phase that is neither a client nor delayed
\* comes to an end when its condition stays false, in whatever order changes
\* of the condition, starts and ends were noticed.
ConditionIsHonoured ==
    \A x \in Apps :
        /\ kind[x].condition # "none" /\ kind[x].phase = APPLICATION
        /\ kind[x].client = "none" /\ ~kind[x].delayed /\ ~kind[x].launcher
      => (<>[](~app[x].world) => <>(m.quit \/ Live(app[x]) = {}))
=============================================================================
