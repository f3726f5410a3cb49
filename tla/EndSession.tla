------------------------------ MODULE EndSession ------------------------------
(***************************************************************************)
(* The end of a session as csm-manager.c runs it: from the Running phase,  *)
(* through QUERY_END_SESSION (every client is asked), END_SESSION (every   *)
(* client saves and leaves) to EXIT (the main loop quits, or logind is     *)
(* asked to reboot or power off), and back to RUNNING when the logout is   *)
(* cancelled.                                                              *)
(*                                                                         *)
(* The manager is single threaded: a D-Bus call, an XSMP message, a timer  *)
(* or a bus signal is handled to the end before the next one.  A handler   *)
(* may go through several phases on the way (end_phase calls start_phase,  *)
(* which calls end_phase again when nobody is left to wait for) and may    *)
(* call end_phase more than once, so the handlers are operators that take  *)
(* the manager's private structure and return it changed, one per C        *)
(* function and with its name, and an action applies one of them to m.     *)
(* Interleavings are between handlers, the dialog, the clients, the bus    *)
(* and the timers.                                                         *)
(***************************************************************************)
EXTENDS Integers, Sequences, FiniteSets

CONSTANTS
    DBusClients,    \* session clients registered over D-Bus, one connection each
    XSMPClients,    \* session clients that speak XSMP
    OtherNames,     \* bus connections that are not session clients
    Releasers,      \* connections owning a well-known name they may give up
    MaxCalls        \* bound: calls of the dialog in flight to the manager

Clients == DBusClients \cup XSMPClients
Connections == DBusClients \cup OtherNames

ASSUME ConstantsAssumption ==
    /\ DBusClients \cap XSMPClients = {}
    /\ OtherNames \cap Clients = {}
    /\ Releasers \subseteq Connections
    /\ MaxCalls \in Nat \ {0}

VARIABLES
    m,          \* CsmManagerPrivate, and what it last told clients and dialog
    lockdown,   \* the disable-log-out setting
    left,       \* connections that left the bus, NameOwnerChanged not handled yet
    holders     \* connections that took a logout inhibitor and have not let it go

vars == <<m, lockdown, left, holders>>

-----------------------------------------------------------------------------
(* Types.                                                                  *)

Phases == {"RUNNING", "QUERY_END_SESSION", "END_SESSION", "EXIT"}
LogoutModes == {"NORMAL", "NO_CONFIRMATION", "FORCE"}
LogoutTypes == {"NONE", "LOGOUT", "REBOOT", "SHUTDOWN"}
LogoutActions == {"UNDEFINED", "LOGOUT", "REBOOT", "SHUTDOWN"}

\* What the end-session dialog calls on the manager; "Suspend" stands for
\* Suspend, Hibernate and SwitchUser.
DialogCalls ==
    {"Logout", "Shutdown", "Restart", "Suspend", "Cancel", "IgnoreInhibitors"}

\* The dialog as the manager's signals drive it: not on screen, waiting for
\* the user's choice, choice sent, showing the list of inhibitors, and
\* finishing up after "continue anyway".
DialogStates == {"none", "asking", "busy", "inhibit", "finishing"}

\* The last end-session signal a client received.
Signals == {"none", "QueryEndSession", "EndSession", "EndSessionLast", "Stop"}

\* The main loop: running, left on purpose, ended by g_assert_not_reached, or
\* by the use of freed memory.
Loops == {"running", "quit", "aborted", "crashed"}

ManagerState ==
    [ phase              : Phases,
      logout_mode        : LogoutModes,
      logout_type        : LogoutTypes,
      dialog_action      : LogoutActions,
      clients            : SUBSET Clients,      \* the client store
      query_clients      : SUBSET Clients,
      next_query_clients : SUBSET Clients,
      query_timer        : BOOLEAN,             \* query_timeout_id > 0
      phase_timer        : BOOLEAN,             \* phase_timeout_id > 0
      jit_inhibitors     : SUBSET Clients,      \* clients with a just-in-time inhibitor
      app_inhibitors     : SUBSET Connections,  \* connections with a logout inhibitor
      told               : [Clients -> Signals],
      dialog             : DialogStates,
      calls              : Seq(DialogCalls),    \* from the dialog, not handled yet
      power_request      : BOOLEAN,             \* Reboot or PowerOff asked of logind
      freed_use          : BOOLEAN,             \* a freed CsmClient was dereferenced
      loop               : Loops ]

InShutdown(s) == s.phase # "RUNNING"

HasInhibitors(s) == s.jit_inhibitors # {} \/ s.app_inhibitors # {}

csm_manager_is_logout_inhibited(s) ==
    s.logout_mode # "FORCE" /\ HasInhibitors(s)

-----------------------------------------------------------------------------
(* The dialog process, as far as the manager's signals reach it.           *)

close_end_session_dialog(s) == [s EXCEPT !.dialog = "none"]

\* inhibitor_info_received of cinnamon-session-quit.py.  A list that becomes
\* empty while inhibitors are on screen makes the dialog go on by itself; a
\* dialog with MaxCalls calls in flight sends no more.
inhibitor_info_received(s) ==
    IF HasInhibitors(s)
      THEN IF s.dialog \in {"busy", "inhibit", "finishing"}
             THEN [s EXCEPT !.dialog = "inhibit"]
             ELSE s
      ELSE IF s.dialog \in {"inhibit", "finishing"}
             THEN [s EXCEPT !.dialog = "finishing",
                            !.calls = IF Len(@) < MaxCalls
                                        THEN Append(@, "IgnoreInhibitors")
                                        ELSE @]
             ELSE s

emit_inhibitor_info_to_dialog(s, action) ==
    IF action = "UNDEFINED"
      THEN s
      ELSE inhibitor_info_received([s EXCEPT !.dialog_action = action])

\* A change of the inhibitor store; the dialog hears of it when the set of
\* inhibited actions changes (update_inhibited_actions).
SetInhibitors(s, jit, app) ==
    LET t == [s EXCEPT !.jit_inhibitors = jit, !.app_inhibitors = app]
    IN  IF HasInhibitors(s) = HasInhibitors(t)
          THEN t
          ELSE emit_inhibitor_info_to_dialog(t, t.dialog_action)

AddJIT(s, C) == SetInhibitors(s, s.jit_inhibitors \cup C, s.app_inhibitors)
RemoveJIT(s, c) == SetInhibitors(s, s.jit_inhibitors \ {c}, s.app_inhibitors)

-----------------------------------------------------------------------------
(* The phases.  end_phase and start_phase both drop the pending lists and   *)
(* remove both timers before anything else.                                 *)

Tell(s, C, signal) ==
    [s EXCEPT !.told = [c \in Clients |-> IF c \in C THEN signal ELSE @[c]]]

reset_state(s) ==
    [s EXCEPT !.query_clients = {}, !.next_query_clients = {},
              !.query_timer = FALSE, !.phase_timer = FALSE]

csm_manager_quit(s) ==
    LET cleared == SetInhibitors(s, {}, {})
    IN  CASE s.logout_type = "LOGOUT" -> [cleared EXCEPT !.loop = "quit"]
          [] s.logout_type \in {"REBOOT", "SHUTDOWN"} ->
                 [cleared EXCEPT !.power_request = TRUE]
          [] s.logout_type = "NONE" -> [cleared EXCEPT !.loop = "aborted"]

\* start_phase in EXIT, which ends the phase as soon as every client was
\* told to stop.
do_phase_exit(s) ==
    csm_manager_quit(Tell(reset_state([s EXCEPT !.phase = "EXIT"]),
                          s.clients, "Stop"))

\* Mutant: the 30 second timer is not armed.
do_phase_end_session_untimed(s) ==
    LET t == close_end_session_dialog(reset_state([s EXCEPT !.phase = "END_SESSION"]))
    IN  IF s.clients = {}
          THEN do_phase_exit(t)
          ELSE Tell([t EXCEPT !.query_clients = s.clients], s.clients, "EndSession")

\* start_phase in END_SESSION; without clients the phase ends at once.
do_phase_end_session(s) ==
    LET t == close_end_session_dialog(reset_state([s EXCEPT !.phase = "END_SESSION"]))
    IN  IF s.clients = {}
          THEN do_phase_exit(t)
          ELSE Tell([t EXCEPT !.query_clients = s.clients, !.phase_timer = TRUE],
                    s.clients, "EndSession")

\* Mutant: only a forced query times out.
do_phase_query_end_session_untimed(s) ==
    Tell([reset_state([s EXCEPT !.phase = "QUERY_END_SESSION"])
             EXCEPT !.query_clients = s.clients,
                    !.query_timer = s.logout_mode = "FORCE"],
         s.clients, "QueryEndSession")

\* Mutant: a forced query does not time out.
do_phase_query_end_session_patient(s) ==
    Tell([reset_state([s EXCEPT !.phase = "QUERY_END_SESSION"])
             EXCEPT !.query_clients = s.clients,
                    !.query_timer = s.logout_mode # "FORCE"],
         s.clients, "QueryEndSession")

\* start_phase in QUERY_END_SESSION; the timer runs even without clients.
do_phase_query_end_session(s) ==
    Tell([reset_state([s EXCEPT !.phase = "QUERY_END_SESSION"])
             EXCEPT !.query_clients = s.clients, !.query_timer = TRUE],
         s.clients, "QueryEndSession")

\* Mutant: the phase is advanced after EXIT too.
end_phase_past_exit(s) ==
    CASE s.phase = "RUNNING" ->
             IF lockdown THEN reset_state(s) ELSE do_phase_query_end_session(s)
      [] s.phase = "QUERY_END_SESSION" -> do_phase_end_session(s)
      [] s.phase = "END_SESSION" -> do_phase_exit(s)
      [] s.phase = "EXIT" ->
             [csm_manager_quit(reset_state(s)) EXCEPT !.phase = "AFTER_EXIT"]

\* Mutant: a forced logout skips the save.
end_phase_unsaved(s) ==
    CASE s.phase = "RUNNING" ->
             IF lockdown THEN reset_state(s) ELSE do_phase_query_end_session(s)
      [] s.phase = "QUERY_END_SESSION" ->
             IF s.logout_mode = "FORCE" THEN do_phase_exit(close_end_session_dialog(s))
                                        ELSE do_phase_end_session(s)
      [] s.phase = "END_SESSION" -> do_phase_exit(s)
      [] s.phase = "EXIT" -> csm_manager_quit(reset_state(s))

end_phase(s) ==
    CASE s.phase = "RUNNING" ->
             IF lockdown THEN reset_state(s) ELSE do_phase_query_end_session(s)
      [] s.phase = "QUERY_END_SESSION" -> do_phase_end_session(s)
      [] s.phase = "END_SESSION" -> do_phase_exit(s)
      [] s.phase = "EXIT" -> csm_manager_quit(reset_state(s))

\* Mutant: the phase timer is not kept.
do_phase_end_session_part_2_untimed(s) ==
    Tell([reset_state(s) EXCEPT !.query_clients = s.next_query_clients,
                                !.freed_use = @ \/ ~(s.next_query_clients \subseteq s.clients)],
         s.next_query_clients \cap s.clients, "EndSessionLast")

\* The clients that answered "do last" are told again.  A client that has
\* left since is a freed object in the list.
do_phase_end_session_part_2(s) ==
    Tell([s EXCEPT !.query_clients = s.next_query_clients,
                   !.next_query_clients = {},
                   !.freed_use = @ \/ ~(s.next_query_clients \subseteq s.clients)],
         s.next_query_clients \cap s.clients, "EndSessionLast")

\* Mutant: the mode of the cancelled logout stays.
cancel_end_session_keeps_mode(s) ==
    IF ~InShutdown(s)
      THEN s
      ELSE LET closed == close_end_session_dialog(s)
               cleared == SetInhibitors(closed, {}, s.app_inhibitors)
           IN  Tell(reset_state([cleared EXCEPT !.phase = "RUNNING",
                                                !.logout_type = "NONE",
                                                !.dialog_action = "UNDEFINED"]),
                    s.clients, "none")

\* Mutant: all inhibitors go, not just the just-in-time ones.
cancel_end_session_uninhibits(s) ==
    IF ~InShutdown(s)
      THEN s
      ELSE LET closed == close_end_session_dialog(s)
               cleared == SetInhibitors(closed, {}, {})
           IN  Tell(reset_state([cleared EXCEPT !.phase = "RUNNING",
                                                !.logout_mode = "NORMAL",
                                                !.logout_type = "NONE",
                                                !.dialog_action = "UNDEFINED"]),
                    s.clients, "none")

cancel_end_session(s) ==
    IF ~InShutdown(s)
      THEN s
      ELSE LET closed == close_end_session_dialog(s)
               cleared == SetInhibitors(closed, {}, s.app_inhibitors)
           IN  Tell(reset_state([cleared EXCEPT !.phase = "RUNNING",
                                                !.logout_mode = "NORMAL",
                                                !.logout_type = "NONE",
                                                !.dialog_action = "UNDEFINED"]),
                    s.clients, "none")

\* A dialog spawned in the query phase first resets the phase.
launch_gtk_dialog(s) ==
    IF s.dialog # "none"
      THEN s
      ELSE [(IF s.phase = "QUERY_END_SESSION" THEN cancel_end_session(s) ELSE s)
               EXCEPT !.dialog = "asking"]

end_session_or_report_inhibitors(s) ==
    IF csm_manager_is_logout_inhibited(s)
      THEN emit_inhibitor_info_to_dialog(s,
               IF s.logout_type = "NONE" THEN "LOGOUT" ELSE s.logout_type)
      ELSE end_phase(s)

query_end_session_complete(s) ==
    end_session_or_report_inhibitors([s EXCEPT !.query_timer = FALSE])

\* Mutant: the inhibitors it found are not reported.
_on_query_end_session_timeout_unreported(s) ==
    LET fired == [s EXCEPT !.query_timer = FALSE]
        noted == IF s.logout_mode = "FORCE" THEN fired
                                            ELSE AddJIT(fired, s.query_clients)
    IN  IF HasInhibitors(noted) THEN [noted EXCEPT !.query_clients = {}]
                                ELSE query_end_session_complete(noted)

_on_query_end_session_timeout(s) ==
    LET fired == [s EXCEPT !.query_timer = FALSE]
        noted == IF s.logout_mode = "FORCE" THEN fired
                                            ELSE AddJIT(fired, s.query_clients)
    IN  query_end_session_complete([noted EXCEPT !.query_clients = {}])

on_phase_timeout(s) == end_phase([s EXCEPT !.phase_timer = FALSE])

-----------------------------------------------------------------------------
(* The clients' answers and departures.                                    *)

\* In END_SESSION the next step waits for every answer and for the inhibitors.
EndSessionStep(s) ==
    CASE s.query_clients # {} \/ csm_manager_is_logout_inhibited(s) -> s
      [] s.query_clients = {} /\ ~csm_manager_is_logout_inhibited(s) ->
             IF s.next_query_clients # {} THEN do_phase_end_session_part_2(s)
                                          ELSE end_phase(s)

_handle_client_end_session_response(s, c, is_ok, do_last, cancel) ==
    LET answered == [s EXCEPT !.query_clients = @ \ {c}]
        noted == IF ~is_ok /\ s.logout_mode # "FORCE" THEN AddJIT(answered, {c})
                                                      ELSE RemoveJIT(answered, c)
    IN  CASE ~InShutdown(s) -> s
          [] InShutdown(s) /\ cancel -> cancel_end_session(s)
          [] s.phase = "QUERY_END_SESSION" /\ ~cancel ->
                 IF noted.query_clients = {} THEN query_end_session_complete(noted)
                                             ELSE noted
          [] s.phase = "END_SESSION" /\ ~cancel ->
                 EndSessionStep(IF do_last
                                  THEN [noted EXCEPT !.next_query_clients = @ \cup {c}]
                                  ELSE noted)
          [] s.phase = "EXIT" /\ ~cancel -> noted

\* Mutant: a client that exits during the query is not taken off the list.
_disconnect_client_unanswered(s, c) ==
    LET t == RemoveJIT(s, c)
    IN  IF s.phase = "END_SESSION" /\ c \in s.query_clients
          THEN _handle_client_end_session_response(t, c, TRUE, FALSE, FALSE)
          ELSE t

\* A client that exits during the query has answered yes; one that exits
\* during the save has answered, unless it still owes its answer.
_disconnect_client(s, c) ==
    LET t == RemoveJIT(s, c)
    IN  IF \/ s.phase = "QUERY_END_SESSION"
           \/ s.phase = "END_SESSION" /\ c \in s.query_clients
          THEN _handle_client_end_session_response(t, c, TRUE, FALSE, FALSE)
          ELSE t

\* The client is in the store, and told things, until its handler returns.
RemoveClient(s, c) ==
    LET t == _disconnect_client(s, c)
    IN  [t EXCEPT !.clients = @ \ {c}, !.told[c] = "none"]

EndPhaseIfNobodyIsLeft(s) ==
    IF InShutdown(s) /\ s.clients = {} THEN end_phase(s) ELSE s

on_client_disconnected(s, c) == EndPhaseIfNobodyIsLeft(RemoveClient(s, c))

\* NameOwnerChanged: the inhibitors of the connection go first, then its
\* client; the last line runs for every name that loses its owner.
on_name_lost_owner(s, o) ==
    LET t == SetInhibitors(s, s.jit_inhibitors \ {o}, s.app_inhibitors \ {o})
    IN  EndPhaseIfNobodyIsLeft(IF o \in s.clients THEN RemoveClient(t, o) ELSE t)

-----------------------------------------------------------------------------
(* What the dialog asks.  None of these looks at the phase.  A logout       *)
(* inhibitor holds up neither a suspend nor a change of user, so those      *)
(* leave the manager as it is.                                              *)

request_logout(s, mode) ==
    end_phase([s EXCEPT !.logout_mode = mode, !.logout_type = "LOGOUT"])

request_power(s, type) == end_phase([s EXCEPT !.logout_type = type])

do_inhibit_dialog_action(s) ==
    IF s.dialog_action = "UNDEFINED"
      THEN [s EXCEPT !.loop = "aborted"]
      ELSE end_phase([s EXCEPT !.logout_mode = "FORCE"])

handle_dialog_method_call(s, call) ==
    CASE call = "Logout"   -> request_logout(s, "NO_CONFIRMATION")
      [] call = "Shutdown" -> request_power(s, "SHUTDOWN")
      [] call = "Restart"  -> request_power(s, "REBOOT")
      [] call = "Suspend"  -> s
      [] call = "Cancel"   ->
             close_end_session_dialog(IF s.dialog_action # "UNDEFINED"
                                        THEN cancel_end_session(s)
                                        ELSE s)
      [] call = "IgnoreInhibitors" ->
             do_inhibit_dialog_action(close_end_session_dialog(s))

-----------------------------------------------------------------------------
(* Initial state: the session is running, nobody has registered yet.       *)

InitialManager ==
    [ phase |-> "RUNNING", logout_mode |-> "NORMAL", logout_type |-> "NONE",
      dialog_action |-> "UNDEFINED", clients |-> {}, query_clients |-> {},
      next_query_clients |-> {}, query_timer |-> FALSE, phase_timer |-> FALSE,
      jit_inhibitors |-> {}, app_inhibitors |-> {},
      told |-> [c \in Clients |-> "none"], dialog |-> "none", calls |-> <<>>,
      power_request |-> FALSE, freed_use |-> FALSE, loop |-> "running" ]

Init ==
    /\ m = InitialManager
    /\ lockdown \in BOOLEAN
    /\ left = {}
    /\ holders = {}

env == <<lockdown, left, holders>>

Running == m.loop = "running"

-----------------------------------------------------------------------------
(* Requests from D-Bus, from XSMP clients and from SIGTERM.                *)

\* Logout, and csm_manager_logout for SIGTERM (FORCE) and XSMP requests.
Logout(mode, prompt) ==
    /\ Running
    /\ m.phase = "RUNNING"
    /\ ~lockdown
    /\ m' = IF mode = "NORMAL" /\ prompt
              THEN launch_gtk_dialog([m EXCEPT !.logout_mode = "NORMAL"])
              ELSE request_logout(m, mode)
    /\ UNCHANGED env

\* Shutdown and Reboot only show the dialog.
ShowShutdownDialog ==
    /\ Running
    /\ m.phase = "RUNNING"
    /\ ~lockdown
    /\ m' = launch_gtk_dialog([m EXCEPT !.logout_mode = "NORMAL"])
    /\ UNCHANGED env

\* RequestShutdown and RequestReboot show no dialog.
RequestPower(type) ==
    /\ Running
    /\ m.phase = "RUNNING"
    /\ m' = request_power(m, type)
    /\ UNCHANGED env

\* Mutant: clients are accepted during the query.
RegisterClient_in_query(c) ==
    /\ Running
    /\ m.phase \in {"RUNNING", "QUERY_END_SESSION"}
    /\ c \notin m.clients \cup left
    /\ m' = [m EXCEPT !.clients = @ \cup {c}]
    /\ UNCHANGED env

\* RegisterClient, and the acceptance of an XSMP connection, are refused from
\* the query phase on.
RegisterClient(c) ==
    /\ Running
    /\ m.phase = "RUNNING"
    /\ c \notin m.clients \cup left
    /\ m' = [m EXCEPT !.clients = @ \cup {c}]
    /\ UNCHANGED env

Inhibit(o) ==
    /\ Running
    /\ o \notin left
    /\ m.logout_mode # "FORCE"
    /\ m' = SetInhibitors(m, m.jit_inhibitors, m.app_inhibitors \cup {o})
    /\ holders' = holders \cup {o}
    /\ UNCHANGED <<lockdown, left>>

Uninhibit(o) ==
    /\ Running
    /\ o \in m.app_inhibitors \ left
    /\ m' = SetInhibitors(m, m.jit_inhibitors, m.app_inhibitors \ {o})
    /\ holders' = holders \ {o}
    /\ UNCHANGED <<lockdown, left>>

-----------------------------------------------------------------------------
(* The clients.  An answer may come late, twice or unasked.                *)

Respond(c, is_ok, do_last, cancel) ==
    /\ Running
    /\ c \in m.clients \ left
    /\ m' = _handle_client_end_session_response(m, c, is_ok, do_last, cancel)
    /\ UNCHANGED env

EndSessionResponse(c, is_ok) == c \in DBusClients /\ Respond(c, is_ok, FALSE, FALSE)

\* A client asks for the second phase once per SaveYourself.
SaveYourselfPhase2Request(c) ==
    /\ c \in XSMPClients \ m.next_query_clients
    /\ Respond(c, TRUE, TRUE, FALSE)

InteractRequest(c) == c \in XSMPClients /\ Respond(c, FALSE, FALSE, FALSE)

InteractDone(c, cancel) == c \in XSMPClients /\ Respond(c, TRUE, FALSE, cancel)

SaveYourselfDone(c) == c \in XSMPClients /\ Respond(c, TRUE, FALSE, FALSE)

\* "disconnected" is connected when the client enters the store and once more
\* when it registers, so a registered client's handler runs twice.
XSMPDisconnected(c, registered) ==
    /\ Running
    /\ c \in XSMPClients \cap m.clients
    /\ LET once == on_client_disconnected(m, c)
       IN  m' = IF registered THEN on_client_disconnected(once, c) ELSE once
    /\ UNCHANGED env

-----------------------------------------------------------------------------
(* The bus.  A D-Bus client that leaves is noticed twice, in either order:  *)
(* by its own name watch and by NameOwnerChanged.                           *)

LeaveBus(o) ==
    /\ Running
    /\ o \notin left
    /\ left' = left \cup {o}
    /\ holders' = holders \ {o}
    /\ UNCHANGED <<m, lockdown>>

\* The watch is removed with the client.
ClientVanished(c) ==
    /\ Running
    /\ c \in DBusClients \cap m.clients \cap left
    /\ m' = on_client_disconnected(m, c)
    /\ UNCHANGED env

NameOwnerChanged(o) ==
    /\ Running
    /\ o \in left
    /\ m' = on_name_lost_owner(m, o)
    /\ left' = left \ {o}
    /\ UNCHANGED <<lockdown, holders>>

\* A connection gives up a well-known name: its unique name is the old owner.
ReleaseName(o) ==
    /\ Running
    /\ o \in Releasers \ left
    /\ m' = on_name_lost_owner(m, o)
    /\ UNCHANGED env

-----------------------------------------------------------------------------
(* The dialog and its user.                                                *)

DialogSends(call, then) ==
    /\ Running
    /\ Len(m.calls) < MaxCalls
    /\ m' = [m EXCEPT !.calls = Append(@, call), !.dialog = then]
    /\ UNCHANGED env

PressAction(call) == m.dialog = "asking" /\ DialogSends(call, "busy")

PressCancel == m.dialog \in {"asking", "inhibit"} /\ DialogSends("Cancel", "none")

PressContinue == m.dialog = "inhibit" /\ DialogSends("IgnoreInhibitors", "finishing")

\* The window is closed, the process dies, or it has finished up.
DialogExits ==
    /\ Running
    /\ m.dialog # "none"
    /\ m' = close_end_session_dialog(m)
    /\ UNCHANGED env

HandleDialogCall ==
    /\ Running
    /\ m.calls # <<>>
    /\ m' = handle_dialog_method_call([m EXCEPT !.calls = Tail(@)], Head(m.calls))
    /\ UNCHANGED env

-----------------------------------------------------------------------------
(* Timers, logind, settings, and memory that was freed.                    *)

QueryEndSessionTimeout ==
    /\ Running
    /\ m.query_timer
    /\ m' = _on_query_end_session_timeout(m)
    /\ UNCHANGED env

PhaseTimeout ==
    /\ Running
    /\ m.phase_timer
    /\ m' = on_phase_timeout(m)
    /\ UNCHANGED env

\* logind obeys, or refuses and the login manager is asked instead: the
\* session is over either way.
PowerRequestAnswered ==
    /\ Running
    /\ m.power_request
    /\ m' = [m EXCEPT !.loop = "quit"]
    /\ UNCHANGED env

\* A freed client that was used may or may not bring the manager down.
FreedClientCrash ==
    /\ Running
    /\ m.freed_use
    /\ m' = [m EXCEPT !.loop = "crashed"]
    /\ UNCHANGED env

ToggleLockdown ==
    /\ Running
    /\ lockdown' = ~lockdown
    /\ UNCHANGED <<m, left, holders>>

\* The process is gone.
Terminated == ~Running /\ UNCHANGED vars

Request ==
    \/ \E mode \in LogoutModes, prompt \in BOOLEAN : Logout(mode, prompt)
    \/ ShowShutdownDialog
    \/ \E type \in {"SHUTDOWN", "REBOOT"} : RequestPower(type)

ClientStep ==
    \E c \in Clients :
        \/ RegisterClient(c)
        \/ \E is_ok \in BOOLEAN : EndSessionResponse(c, is_ok)
        \/ SaveYourselfPhase2Request(c)
        \/ InteractRequest(c)
        \/ \E cancel \in BOOLEAN : InteractDone(c, cancel)
        \/ SaveYourselfDone(c)
        \/ \E registered \in BOOLEAN : XSMPDisconnected(c, registered)
        \/ ClientVanished(c)

BusStep ==
    \E o \in Connections :
        Inhibit(o) \/ Uninhibit(o) \/ LeaveBus(o) \/ NameOwnerChanged(o) \/ ReleaseName(o)

DialogStep ==
    \/ \E call \in {"Logout", "Shutdown", "Restart", "Suspend"} : PressAction(call)
    \/ PressCancel
    \/ PressContinue
    \/ DialogExits
    \/ HandleDialogCall

SystemStep ==
    \/ QueryEndSessionTimeout
    \/ PhaseTimeout
    \/ PowerRequestAnswered
    \/ FreedClientCrash
    \/ ToggleLockdown

Next == Request \/ ClientStep \/ BusStep \/ DialogStep \/ SystemStep \/ Terminated

Spec == Init /\ [][Next]_vars

\* GLib fires the timers that are armed, and logind answers.
Fairness ==
    /\ WF_vars(QueryEndSessionTimeout)
    /\ WF_vars(PhaseTimeout)
    /\ WF_vars(PowerRequestAnswered)

FairSpec == Spec /\ Fairness

-----------------------------------------------------------------------------
(* Properties.                                                             *)

\* Every field of the manager has its type, the dialog never has more than
\* MaxCalls calls in flight, and only connections on the bus hold inhibitors.
TypeOK ==
    /\ m \in ManagerState
    /\ Len(m.calls) <= MaxCalls
    /\ lockdown \in BOOLEAN
    /\ left \subseteq Connections
    /\ holders \subseteq Connections \ left

\* Back in RUNNING, nothing is left of an end of session that was cancelled or
\* refused: no pending client, no timer, no just-in-time inhibitor, no action
\* for the dialog, and no FORCE mode that would overrule the next inhibitors.
RunningIsClean ==
    m.phase = "RUNNING" =>
        /\ m.query_clients = {} /\ m.next_query_clients = {}
        /\ ~m.query_timer /\ ~m.phase_timer
        /\ m.jit_inhibitors = {}
        /\ m.dialog_action = "UNDEFINED"
        /\ m.logout_mode # "FORCE"

\* The query timer walks query_clients, and the dialog looks the clients of the
\* just-in-time inhibitors up: neither ever names a client that has gone.
PendingClientsAlive ==
    /\ m.phase = "QUERY_END_SESSION" => m.query_clients \subseteq m.clients
    /\ m.jit_inhibitors \subseteq m.clients

\* A query whose timer is off has been answered by everybody and its inhibitors
\* have been reported to the dialog: it never stands still unnoticed.
QueryNeverSilent ==
    m.phase = "QUERY_END_SESSION" =>
        \/ m.query_timer
        \/ m.query_clients = {} /\ m.dialog_action # "UNDEFINED"

\* The 30 second timer runs in the whole of END_SESSION, its second part too,
\* and no timer outlives its phase.
TimersFitPhase ==
    /\ m.phase_timer <=> m.phase = "END_SESSION"
    /\ m.query_timer => m.phase = "QUERY_END_SESSION"

\* From the query on the manager knows how the session ends, so that
\* csm_manager_quit never reaches its g_assert_not_reached.
QuitKnowsHow == InShutdown(m) => m.logout_type # "NONE"

\* Every client in the store was last told what the phase is about, whatever
\* came in between, and a client that was told goodbye is told no more.
ClientsInStep ==
    \A c \in Clients :
        m.told[c] \in
            CASE c \notin m.clients -> {"none"}
              [] c \in m.clients ->
                   CASE m.phase = "RUNNING" -> {"none"}
                     [] m.phase = "QUERY_END_SESSION" -> {"QueryEndSession"}
                     [] m.phase = "END_SESSION" -> {"EndSession", "EndSessionLast"}
                     [] m.phase = "EXIT" -> {"Stop"}

\* A connection keeps its inhibitor through queries and cancellations until it
\* gives it back or leaves the bus, or until the system was asked to power off.
HoldersKept ==
    Running /\ ~m.power_request => holders \ Releasers \subseteq m.app_inhibitors

\* A query is reported to the dialog if it does not end.
QueryIsReported ==
    m.phase = "QUERY_END_SESSION" ~>
        (m.phase # "QUERY_END_SESSION" \/ m.dialog_action # "UNDEFINED" \/ ~Running)

\* The save ends, whatever the clients answer.
SaveEnds == m.phase = "END_SESSION" ~> (m.phase # "END_SESSION" \/ ~Running)

\* A forced end of session ends the process or is cancelled.
ForcedLogoutEnds ==
    InShutdown(m) /\ m.logout_mode = "FORCE" ~> (~InShutdown(m) \/ ~Running)

-----------------------------------------------------------------------------
(* The manager implements the protocol it promises its clients.            *)

Protocol ==
    INSTANCE EndSessionProtocol WITH
        phase    <- m.phase,
        clients  <- m.clients,
        told     <- m.told,
        poweroff <- m.power_request,
        over     <- m.loop = "quit"

\* All clients are asked, told to save and told to stop together and in this
\* order, through every interleaving of answers, departures and timeouts.
ImplementsProtocol == Protocol!Spec

-----------------------------------------------------------------------------
(* What comments and documents say, and the code does not do.              *)

\* The action the dialog forces is always one the manager knows: the default
\* case of do_inhibit_dialog_action is not reached.
NoAssertFailure == m.loop # "aborted"
=============================================================================
