----------------------------- MODULE AutostartApp -----------------------------
(***************************************************************************)
(* An application of the session as csm-app.c and csm-autostart-app.c keep *)
(* it: its desktop file k, and its object r with the process it started    *)
(* last, the child watches of all processes it started, and the condition  *)
(* under which it runs.  A function of the code that changes the object is *)
(* an operator from r to r.                                                *)
(*                                                                         *)
(* Module Startup composes the applications with the manager.              *)
(***************************************************************************)
EXTENDS Integers, Sequences

CONSTANTS
    MaxProcs,       \* bound: processes of one application, dead ones included
    MaxEvents       \* bound: changes of a condition not noticed yet

ASSUME BoundsAssumption ==
    /\ MaxProcs \in Nat \ {0}
    /\ MaxEvents \in Nat \ {0}

-----------------------------------------------------------------------------
(* Phases of CsmManagerPhase, in their order.                              *)

EARLY_INITIALIZATION == 1
APPLICATION == 8
RUNNING == 9
QUERY_END_SESSION == 10

StartupPhases == EARLY_INITIALIZATION .. APPLICATION

(* The conditions: "file" stands for if-exists and unless-exists, "setting" *)
(* for GSettings; one about the session's name never changes.              *)
Conditions == {"none", "file", "setting"}

(* What a desktop file says of the application.  A delay counts only in    *)
(* the last phase.                                                         *)
DesktopFile ==
    { k \in [ phase       : StartupPhases,
              required    : BOOLEAN,    \* a component of the session
              autorestart : BOOLEAN,
              delayed     : BOOLEAN,
              activated   : BOOLEAN,    \* started by D-Bus, not spawned
              condition   : Conditions,
              wm          : BOOLEAN,    \* provides "windowmanager"
              launcher    : BOOLEAN,    \* cinnamon.desktop
              client      : {"none", "dbus", "xsmp"} ] :
        k.delayed => k.phase = APPLICATION }

Slots == 1 .. MaxProcs
NoPid == 0          \* priv->pid is -1

\* A process: running, told to terminate, or dead and not reaped yet, with
\* how it ended.  A slot is free again when its process is reaped.
Ended == {"exit0", "exit1", "signal"}
ProcStates == {"free", "running", "terminating"} \cup Ended

AppFields ==
    [ pid       : Slots \cup {NoPid},
      procs     : [Slots -> ProcStates],
      condition : BOOLEAN,          \* priv->condition
      world     : BOOLEAN,          \* what the file or the setting says
      events    : Seq(BOOLEAN),     \* notifications of the monitor
      recent    : BOOLEAN,          \* restarted less than a minute ago
      watched   : BOOLEAN,          \* the manager listens to the condition
      followed  : BOOLEAN,          \* the manager listens to its end
      delay     : BOOLEAN ]         \* the timer of a delayed start

\* The application never signals a process that was reaped: its pid may be
\* that of a stranger.
AppState ==
    { r \in AppFields : r.pid # NoPid => r.procs[r.pid] # "free" }

NewApp(world) ==
    [ pid |-> NoPid, procs |-> [s \in Slots |-> "free"],
      condition |-> world, world |-> world, events |-> << >>,
      recent |-> FALSE, watched |-> FALSE, followed |-> FALSE, delay |-> FALSE ]

Live(r) == {s \in Slots : r.procs[s] \in {"running", "terminating"}}
Dead(r) == {s \in Slots : r.procs[s] \in Ended}
Free(r) == {s \in Slots : r.procs[s] = "free"}

-----------------------------------------------------------------------------
(* Operations of the application.                                          *)

is_running(r) == r.pid # NoPid

conditionally_disabled(k, r) == k.condition # "none" /\ ~r.world

\* Asking whether the condition holds also remembers the answer.
peek_is_conditionally_disabled(k, r) ==
    IF k.condition = "none" THEN r ELSE [r EXCEPT !.condition = r.world]

\* A process that is started becomes the application's pid; D-Bus activation
\* starts none that the application knows of.
csm_app_start(k, r) ==
    IF k.activated \/ Free(r) = {}
      THEN r
      ELSE LET s == CHOOSE f \in Free(r) : TRUE
           IN  [r EXCEPT !.pid = s, !.procs[s] = "running"]

csm_app_stop(k, r) ==
    IF k.activated \/ r.pid = NoPid \/ r.procs[r.pid] # "running"
      THEN r
      ELSE [r EXCEPT !.procs[r.pid] = "terminating"]

csm_autostart_app_restart(k, r) == csm_app_start(k, csm_app_stop(k, r))

\* Mutant: the time of the last restart is not looked at.
restart_limit_off(k, r) == FALSE

\* Restarting twice within a minute fails, except for Cinnamon's launcher.
restart_limit(k, r) == ~k.launcher /\ r.recent

csm_app_restart(k, r, launches) ==
    IF restart_limit(k, r)
      THEN r
      ELSE LET t == [r EXCEPT !.recent = @ \/ ~k.launcher]
           IN  IF launches \/ k.activated
                 THEN csm_autostart_app_restart(k, t)
                 ELSE csm_app_stop(k, t)

restarted(k, r, launches) == ~restart_limit(k, r) /\ (launches \/ k.activated)

\* Mutant: a process that is reaped stays the application's.
app_exited_unreset(r, s) == [r EXCEPT !.procs[s] = "free"]

\* Whatever process is reaped, the application has none afterwards.
app_exited(r, s) == [r EXCEPT !.procs[s] = "free", !.pid = NoPid]

\* A change is announced if it is one of what the application remembers; a
\* setting is read when it is announced, a file's event says what happened.
announced(k, r) == IF k.condition = "setting" THEN r.world ELSE Head(r.events)

\* Mutant: what was announced is not remembered.
condition_cb_forgets(k, r) == [r EXCEPT !.events = Tail(@)]

condition_cb(k, r) ==
    [r EXCEPT !.events = Tail(@), !.condition = announced(k, r)]

condition_changed(k, r) == announced(k, r) # r.condition
=============================================================================
