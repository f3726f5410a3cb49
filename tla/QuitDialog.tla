------------------------------ MODULE QuitDialog ------------------------------
(***************************************************************************)
(* Leaving the session through the end-session dialog, and what follows at *)
(* the system: the session manager starts the dialog on a request from     *)
(* the bus, the dialog's choice suspends, switches users or begins a       *)
(* logout, inhibitors turn the dialog into a list with the question        *)
(* whether to go on, and a session that has ended asks logind or           *)
(* ConsoleKit to restart or stop, with MDM to fall back on.                *)
(*                                                                         *)
(* The dialog (DialogWindow) and the manager are processes: calls and      *)
(* signals between them arrive later, in order.  The clients' part in the  *)
(* end of the session is EndSession's; here they take their time, or       *)
(* cancel.  Cinnamon's own dialog, which is not of this repository, is not *)
(* running, nothing is locked down, and logout-prompt is set.  What becomes *)
(* of the machine after the manager left or the system went down is not    *)
(* modelled.                                                               *)
(***************************************************************************)
EXTENDS DialogWindow, FiniteSets, Naturals

CONSTANTS
    Inhibitors,     \* bound: inhibitors at a time
    Flags,          \* the sets of flags they come with
    Backends,       \* the implementations of CsmSystem
    Answers,        \* what they answer to CanReboot, CanPowerOff, ...
    MaxMessages     \* bound: calls, and signals, on their way

ASSUME QuitDialogAssumption ==
    /\ Flags \subseteq (SUBSET {"logout", "suspend", "switch user"}) \ {{}}
    /\ Backends \subseteq {"logind", "consolekit"}
    /\ Answers \in [{"restart", "stop", "suspend", "hibernate"} ->
                       {"yes", "challenge", "no", "true", "false", "failed"}]
    /\ MaxMessages \in Nat \ {0, 1}

VARIABLES
    m,              \* CsmManagerPrivate
    d,              \* the dialog's process
    calls,          \* of the dialog at the manager
    signals,        \* InhibitorsChanged: whether the list has an entry
    inhibitors,     \* the store: from inhibitors to flags
    system          \* CsmSystem

vars == <<m, d, calls, signals, inhibitors, system>>

-----------------------------------------------------------------------------
(* Types.                                                                  *)

LogoutTypes == {"NONE", "LOGOUT", "REBOOT_INTERACT", "SHUTDOWN_INTERACT"}
Actions == {"UNDEFINED", "LOGOUT", "SHUTDOWN", "REBOOT", "SWITCH_USER", "HIBERNATE", "SLEEP"}

\* GONE: the main loop was left, or the manager died.
Manager ==
    [ phase  : {"RUNNING", "QUERY_END_SESSION", "END_SESSION", "EXIT", "GONE"},
      type   : LogoutTypes,         \* logout_type
      force  : BOOLEAN,             \* logout_mode; the others differ before
      action : Actions,             \* dialog_action
      timer  : BOOLEAN ]            \* query_timeout_id

\* hybrid: prefer-hybrid-sleep, which matters with ConsoleKit only; calls:
\* what was asked of the system and not answered.
System ==
    [ backend : Backends, hybrid : BOOLEAN,
      calls : SUBSET {"restart", "stop"}, down : BOOLEAN ]

TypeOK ==
    /\ m \in Manager
    /\ d \in Dialog
    /\ calls \in Seq(Commands) /\ Len(calls) <= MaxMessages
    /\ signals \in Seq(BOOLEAN) /\ Len(signals) <= MaxMessages
    /\ inhibitors \in [Inhibitors -> Flags \cup {{}}]
    /\ system \in System

AllFlags(i) == UNION {i[x] : x \in Inhibitors}

\* The flag that stands in the way of an action (add_to_builder).
FlagOf(action) ==
    CASE action \in {"LOGOUT", "SHUTDOWN", "REBOOT"} -> "logout"
      [] action = "SWITCH_USER" -> "switch user"
      [] action \in {"HIBERNATE", "SLEEP"} -> "suspend"

\* A handler works on the manager, the dialog, the signals, the store and the
\* system at a time.
Now == [m |-> m, d |-> d, signals |-> signals, inhibitors |-> inhibitors, system |-> system]

Handle(s) ==
    /\ m' = s.m /\ d' = s.d /\ system' = s.system /\ inhibitors' = s.inhibitors
    /\ signals' = IF Runs(s.d) THEN s.signals ELSE << >>

is_inhibited(s, flag) == flag \in AllFlags(s.inhibitors)

csm_manager_is_logout_inhibited(s) == ~s.m.force /\ is_inhibited(s, "logout")

-----------------------------------------------------------------------------
(* What the manager tells the dialog.                                      *)

emit_inhibitor_info_to_dialog(s, action) ==
    IF action = "UNDEFINED" THEN s
    ELSE [s EXCEPT !.m.action = action,
                   !.signals = Append(@, is_inhibited(s, FlagOf(action)))]

\* Mutant: the dialog is told of new inhibitors only.
update_inhibitors_added_only(s, i) ==
    LET t == [s EXCEPT !.inhibitors = i]
    IN  IF AllFlags(i) \subseteq AllFlags(s.inhibitors) THEN t
        ELSE emit_inhibitor_info_to_dialog(t, t.m.action)

\* The dialog is told if the union of the flags has changed.
update_inhibitors(s, i) ==
    LET t == [s EXCEPT !.inhibitors = i]
    IN  IF AllFlags(i) = AllFlags(s.inhibitors) THEN t
        ELSE emit_inhibitor_info_to_dialog(t, t.m.action)

close_end_session_dialog(s) == [s EXCEPT !.d.sigterm = Runs(s.d)]

-----------------------------------------------------------------------------
(* The end of the session.                                                 *)

csm_quit(s) == [s EXCEPT !.m.phase = "GONE"]

ask_system(s, what) == [s EXCEPT !.system.calls = @ \cup {what}]

csm_manager_quit(s) ==
    LET t == update_inhibitors(s, [x \in Inhibitors |-> {}])
    IN  CASE t.m.type = "LOGOUT" -> csm_quit(t)
          [] t.m.type = "REBOOT_INTERACT" -> ask_system(t, "restart")
          [] t.m.type = "SHUTDOWN_INTERACT" -> ask_system(t, "stop")

\* Mutant: the dialog stays while the session is saved.
do_phase_end_session_with_dialog(s) == s

do_phase_end_session(s) == close_end_session_dialog(s)

do_phase_exit(s) == csm_manager_quit(s)

end_phase(s) ==
    CASE s.m.phase = "RUNNING" ->
           [s EXCEPT !.m.phase = "QUERY_END_SESSION", !.m.timer = TRUE]
      [] s.m.phase = "QUERY_END_SESSION" ->
           do_phase_end_session([s EXCEPT !.m.phase = "END_SESSION", !.m.timer = FALSE])
      [] s.m.phase = "END_SESSION" ->
           do_phase_exit([s EXCEPT !.m.phase = "EXIT"])
      [] s.m.phase = "EXIT" -> csm_manager_quit(s)

cancel_end_session(s) ==
    IF s.m.phase = "RUNNING" THEN s
    ELSE [close_end_session_dialog(s) EXCEPT
            !.m = [ phase |-> "RUNNING", type |-> "NONE", force |-> FALSE,
                    action |-> "UNDEFINED", timer |-> FALSE ]]

end_session_or_report_inhibitors(s) ==
    IF ~csm_manager_is_logout_inhibited(s) THEN end_phase(s)
    ELSE emit_inhibitor_info_to_dialog(s,
           CASE s.m.type = "LOGOUT" -> "LOGOUT"
             [] s.m.type = "REBOOT_INTERACT" -> "REBOOT"
             [] s.m.type = "SHUTDOWN_INTERACT" -> "SHUTDOWN")

query_end_session_complete(s) ==
    end_session_or_report_inhibitors([s EXCEPT !.m.timer = FALSE])

-----------------------------------------------------------------------------
(* What the dialog asks for.                                               *)

\* ConsoleKit's table has no can_hybrid_sleep: the call is of address 0.
calls_nothing(s) == s.system.backend = "consolekit" /\ s.system.hybrid

manager_attempt_suspend(s) ==
    LET t == close_end_session_dialog(s)
    IN  IF calls_nothing(s) THEN csm_quit(t) ELSE t

manager_attempt_hibernate(s) == close_end_session_dialog(s)

manager_switch_user(s) == close_end_session_dialog(s)

\* Mutant: the dialog of a suspend that is inhibited is not told why.
request_suspend_untold(s) ==
    IF ~is_inhibited(s, "suspend") THEN manager_attempt_suspend(s)
    ELSE [s EXCEPT !.m.action = "SLEEP"]

request_suspend(s) ==
    IF ~is_inhibited(s, "suspend") THEN manager_attempt_suspend(s)
    ELSE emit_inhibitor_info_to_dialog(s, "SLEEP")

request_hibernate(s) ==
    IF ~is_inhibited(s, "suspend") THEN manager_attempt_hibernate(s)
    ELSE emit_inhibitor_info_to_dialog(s, "HIBERNATE")

request_switch_user(s) ==
    IF ~is_inhibited(s, "switch user") THEN manager_switch_user(s)
    ELSE emit_inhibitor_info_to_dialog(s, "SWITCH_USER")

request_reboot(s) == end_phase([s EXCEPT !.m.type = "REBOOT_INTERACT"])
request_shutdown(s) == end_phase([s EXCEPT !.m.type = "SHUTDOWN_INTERACT"])
request_logout(s, force) == end_phase([s EXCEPT !.m.type = "LOGOUT", !.m.force = force])

\* The assertion fails if the action is undefined.
do_inhibit_dialog_action(s) ==
    CASE s.m.action = "SWITCH_USER" -> manager_switch_user(s)
      [] s.m.action = "HIBERNATE" -> manager_attempt_hibernate(s)
      [] s.m.action = "SLEEP" -> manager_attempt_suspend(s)
      [] s.m.action \in {"SHUTDOWN", "REBOOT", "LOGOUT"} ->
           end_phase([s EXCEPT !.m.force = TRUE])
      [] s.m.action = "UNDEFINED" -> csm_quit(s)

handle_dialog_method_call(s, method) ==
    CASE method = "Suspend" -> request_suspend(s)
      [] method = "Hibernate" -> request_hibernate(s)
      [] method = "Restart" -> request_reboot(s)
      [] method = "Shutdown" -> request_shutdown(s)
      [] method = "SwitchUser" -> request_switch_user(s)
      [] method = "Logout" -> request_logout(s, FALSE)
      [] method = "Cancel" ->
           close_end_session_dialog(
             IF s.m.action # "UNDEFINED" THEN cancel_end_session(s) ELSE s)
      [] method = "IgnoreInhibitors" ->
           do_inhibit_dialog_action(close_end_session_dialog(s))

\* Neither has the main loop been left nor has the machine gone.
Lives == m.phase # "GONE" /\ ~system.down
Room == Len(signals) < MaxMessages              \* bound
RoomForTwo == Len(signals) + 1 < MaxMessages    \* bound: leaves the others room

DialogCalls ==
    /\ Lives /\ Room /\ calls # << >>
    /\ Handle(handle_dialog_method_call(Now, Head(calls)))
    /\ calls' = Tail(calls)

\* The strings that count as a yes, or for ConsoleKit's older methods a
\* boolean; a call that fails is a no.
csm_systemd_can(what) == Answers[what] \in {"yes", "challenge"}
csm_consolekit_can(what) ==
    IF what \in {"restart", "stop"} THEN Answers[what] = "true" ELSE csm_systemd_can(what)

csm_system_can(s, what) ==
    IF s.system.backend = "logind" THEN csm_systemd_can(what) ELSE csm_consolekit_can(what)

\* Switching users is not asked of the system, logging out is always offered.
Offered(s) ==
    LET has(c) ==
          CASE c = "Logout" -> TRUE
            [] c = "SwitchUser" -> ~is_inhibited(s, "switch user")
            [] c = "Shutdown" -> csm_system_can(s, "stop")
            [] c = "Restart" -> csm_system_can(s, "restart")
            [] c = "Suspend" -> csm_system_can(s, "suspend")
            [] c = "Hibernate" -> csm_system_can(s, "hibernate")
    IN  {c \in Choices : has(c)}

\* GetCapabilities, which the dialog waits for before it shows its window.
GetCapabilities ==
    /\ Lives /\ d.state = "starting"
    /\ \E timed \in BOOLEAN :
         IF calls_nothing(Now) THEN Handle(csm_quit(Now))
         ELSE Handle([Now EXCEPT !.d = run_dialog(d, Offered(Now), timed)])
    /\ UNCHANGED calls

-----------------------------------------------------------------------------
(* Requests from the bus: Logout, Shutdown, Reboot.                        *)

launch_gtk_dialog(s, mode) ==
    [s EXCEPT !.d = [NoDialog EXCEPT !.state = "starting", !.mode = mode]]

\* The dialog may fail to start; while one is known there is no other.
ShowDialog(mode) ==
    /\ Lives /\ m.phase = "RUNNING"
    /\ LET s == [Now EXCEPT !.m.force = FALSE]
       IN  \/ Handle(s)
           \/ d.state = "none" /\ Handle(launch_gtk_dialog(s, mode))
    /\ UNCHANGED calls

\* Logout with a mode other than NORMAL asks nobody.
Logout(force) ==
    /\ Lives /\ Room /\ m.phase = "RUNNING"
    /\ Handle(request_logout(Now, force))
    /\ UNCHANGED calls

-----------------------------------------------------------------------------
(* Inhibitors, clients, timers and the system.                             *)

InhibitorComes(x) ==
    /\ Lives /\ RoomForTwo /\ inhibitors[x] = {}
    /\ \E f \in Flags : Handle(update_inhibitors(Now, [inhibitors EXCEPT ![x] = f]))
    /\ UNCHANGED calls

InhibitorGoes(x) ==
    /\ Lives /\ RoomForTwo /\ inhibitors[x] # {}
    /\ Handle(update_inhibitors(Now, [inhibitors EXCEPT ![x] = {}]))
    /\ UNCHANGED calls

\* All clients have answered, or the query's timer has fired.
QueryCompletes ==
    /\ Lives /\ Room /\ m.timer
    /\ Handle(query_end_session_complete(Now))
    /\ UNCHANGED calls

\* All clients have saved, or the timer of the phase has fired.
SaveCompletes ==
    /\ Lives /\ Room /\ m.phase = "END_SESSION"
    /\ Handle(end_phase(Now))
    /\ UNCHANGED calls

\* An XSMP client that was allowed to interact cancels the logout.
ClientCancels ==
    /\ Lives /\ m.phase # "RUNNING"
    /\ Handle(cancel_end_session(Now))
    /\ UNCHANGED calls

\* Mutant: the refusal is logged and forgotten.
quit_request_failed_quietly(s) == s

\* The rest is left to MDM, which is told with quit.
quit_request_failed(s) == csm_quit(s)

\* restart_done and stop_done of logind: a refusal is "request-failed".
logind_done(s, refused) ==
    IF refused THEN quit_request_failed(s) ELSE [s EXCEPT !.system.down = TRUE]

\* The same of ConsoleKit: whatever the answer is, the signal that it becomes
\* is one that CsmSystem does not have.
consolekit_done(s, refused) ==
    IF refused THEN s ELSE [s EXCEPT !.system.down = TRUE]

SystemAnswers ==
    /\ Lives
    /\ \E what \in system.calls, refused \in BOOLEAN :
         LET s == [Now EXCEPT !.system.calls = @ \ {what}]
         IN  Handle(IF system.backend = "logind" THEN logind_done(s, refused)
                    ELSE consolekit_done(s, refused))
    /\ UNCHANGED calls

-----------------------------------------------------------------------------
(* The dialog's process.                                                   *)

Window(r) ==
    /\ Len(calls) + Len(r.calls) <= MaxMessages
    /\ d' = r.d /\ calls' = calls \o r.calls
    /\ UNCHANGED <<m, inhibitors, system>>

Press(code) ==
    /\ Lives /\ d.state = "shown" /\ code \in Pressable(d)
    /\ Window(handle_response(d, code))
    /\ signals' = IF Runs(d') THEN signals ELSE << >>

CountdownEnds ==
    /\ Lives /\ d.state = "shown" /\ d.countdown
    /\ Window(update_timer(d))
    /\ UNCHANGED signals

ReceiveInfo ==
    /\ Lives /\ d.state \in {"shown", "hidden"} /\ signals # << >>
    /\ Window(inhibitor_info_received(d, Head(signals)))
    /\ signals' = Tail(signals)

\* Closing the window, or the end of the process for another reason.
Vanish == Lives /\ d.state = "shown" /\ Window(Just(quit(d))) /\ signals' = << >>

\* SIGTERM, and the timer of finish_up.
Leave ==
    /\ Lives /\ d.state \in {"shown", "hidden"} /\ (d.sigterm \/ d.finishing)
    /\ Window(Just(quit(d)))
    /\ signals' = << >>

\* on_dialog_exited
DialogReaped ==
    /\ Lives /\ d.state = "ended"
    /\ Window(Just(NoDialog))
    /\ UNCHANGED signals

-----------------------------------------------------------------------------

Init ==
    /\ m = [ phase |-> "RUNNING", type |-> "NONE", force |-> FALSE,
             action |-> "UNDEFINED", timer |-> FALSE ]
    /\ d = NoDialog
    /\ calls = << >>
    /\ signals = << >>
    /\ inhibitors = [x \in Inhibitors |-> {}]
    /\ \E b \in Backends : \E h \in IF b = "logind" THEN {FALSE} ELSE BOOLEAN :
         system = [backend |-> b, hybrid |-> h, calls |-> {}, down |-> FALSE]

Next ==
    \/ DialogCalls \/ GetCapabilities
    \/ \E mode \in Modes : ShowDialog(mode)
    \/ \E force \in BOOLEAN : Logout(force)
    \/ \E x \in Inhibitors : InhibitorComes(x) \/ InhibitorGoes(x)
    \/ QueryCompletes \/ SaveCompletes \/ ClientCancels \/ SystemAnswers
    \/ \E code \in Commands : Press(code)
    \/ CountdownEnds \/ ReceiveInfo \/ Vanish \/ Leave \/ DialogReaped

Spec == Init /\ [][Next]_vars

\* The main loops run, timers fire, and the system answers.
FairSpec ==
    /\ Spec
    /\ WF_vars(DialogCalls) /\ WF_vars(QueryCompletes) /\ WF_vars(SystemAnswers)
    /\ WF_vars(ReceiveInfo) /\ WF_vars(Leave)

-----------------------------------------------------------------------------
(* Properties.                                                             *)

\* While the dialog shows a list and nothing is on its way, somebody inhibits
\* the action that "continue anyway" would perform, although the dialog is
\* told only of changes of the flags' union, and in whatever order requests,
\* inhibitors and cancellations came.
InhibitViewIsOfAction ==
    d.state = "shown" /\ d.view = "inhibit" /\ ~d.sigterm /\ signals = << >> /\ Lives
        => m.action # "UNDEFINED" /\ is_inhibited(Now, FlagOf(m.action))

\* Once the session is being ended no dialog stays or comes up, whoever began
\* the end and whenever the dialog was started.
NoDialogInTheEnd ==
    m.phase \in {"END_SESSION", "EXIT"} /\ Runs(d) => d.sigterm

\* A choice does not leave the user with a spinner: the dialog closes or
\* shows who inhibits it.
Spinning == d.state = "shown" /\ d.view = "busy" /\ ~d.inhibited
ChoiceIsAnswered == Spinning ~> ~Spinning \/ ~Lives

\* With logind: a session that ended leaves, by itself, with the system, or
\* by MDM when the system refuses, unless somebody cancels even then.
EndedSessionLeaves ==
    system.backend = "logind" /\ m.phase = "EXIT"
        ~> m.phase = "RUNNING" \/ ~Lives

\* Violated.  "request_completed" of csm-system.h, which reports that a request
\* failed: the same with whatever CsmSystem is there.
AnySessionLeaves ==
    m.phase = "EXIT" ~> m.phase = "RUNNING" \/ ~Lives
=============================================================================
