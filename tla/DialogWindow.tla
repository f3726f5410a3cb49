----------------------------- MODULE DialogWindow -----------------------------
(***************************************************************************)
(* The end-session dialog, cinnamon-session-quit.py started by the session *)
(* manager: a process with a window, a countdown and at most one answer    *)
(* that counts.  Its methods are operators from the dialog d to what       *)
(* becomes of it and the methods it calls at the manager, which is in      *)
(* QuitDialog.                                                             *)
(***************************************************************************)
EXTENDS Sequences

Modes == {"LOGOUT", "SHUTDOWN", "RESTART"}
Choices == {"Suspend", "Hibernate", "Restart", "SwitchUser", "Logout", "Shutdown"}
Commands == Choices \cup {"Cancel", "IgnoreInhibitors"}

default_response(mode) ==
    CASE mode = "LOGOUT" -> "Logout"
      [] mode = "SHUTDOWN" -> "Shutdown"
      [] mode = "RESTART" -> "Restart"

Buttons(mode) ==
    CASE mode = "LOGOUT" -> {"SwitchUser", "Logout"}
      [] mode = "SHUTDOWN" -> {"Suspend", "Hibernate", "Restart", "Shutdown"}
      [] mode = "RESTART" -> {"Restart"}

\* A process without a window runs as long as one with a window.
DialogStates == {"none", "starting", "shown", "hidden", "ended"}

Dialog ==
    [ state     : DialogStates,
      mode      : Modes,
      response  : Choices \cup {"NONE"},        \* dialog_response
      inhibited : BOOLEAN,
      offered   : SUBSET Choices,               \* what GetCapabilities allows
      view      : {"prompt", "busy", "inhibit"},
      countdown : BOOLEAN,      \* update_timer is scheduled
      finishing : BOOLEAN,      \* quit is scheduled by finish_up
      sigterm   : BOOLEAN ]     \* SIGTERM was sent

NoDialog ==
    [ state |-> "none", mode |-> "LOGOUT", response |-> "NONE",
      inhibited |-> FALSE, offered |-> {}, view |-> "prompt",
      countdown |-> FALSE, finishing |-> FALSE, sigterm |-> FALSE ]

Runs(d) == d.state \in {"starting", "shown", "hidden"}

\* The process has gone; that it was there is known until it is reaped.
quit(d) == [NoDialog EXCEPT !.state = "ended"]

Just(d) == [d |-> d, calls |-> << >>]

\* GetCapabilities has been answered.  A restart that the system does not
\* offer: gtk_main_quit comes before gtk_main, and the process goes on
\* without a window.
run_dialog(d, offered, timed) ==
    IF d.mode = "RESTART" /\ "Restart" \notin offered THEN [d EXCEPT !.state = "hidden"]
    ELSE [d EXCEPT !.state = "shown", !.countdown = timed,
                   !.offered = offered \cap Buttons(d.mode)]

finish_up(d) == [d EXCEPT !.view = "busy", !.finishing = TRUE]

\* What may be pressed: the buttons of the mode that are offered, and once there were
\* inhibitors only the one that ignores them; to cancel at any time.
Pressable(d) ==
    {"Cancel"} \cup IF d.inhibited THEN {"IgnoreInhibitors"} ELSE d.offered

\* stop_timer, which comes first, stops nothing: timer_id is never set.
handle_response(d, code) ==
    LET b == [d EXCEPT !.view = "busy"]
    IN  CASE code = "Cancel" ->
               [d |-> quit(b), calls |-> <<"Cancel">>]
          [] d.inhibited /\ code = "IgnoreInhibitors" ->
               [d |-> finish_up(b), calls |-> <<"IgnoreInhibitors">>]
          [] d.inhibited /\ code \in Choices -> Just(b)
          [] ~d.inhibited /\ code \in Choices ->
               [d |-> [b EXCEPT !.response = code], calls |-> <<code>>]

update_timer(d) == handle_response([d EXCEPT !.countdown = FALSE], default_response(d.mode))

inhibitor_info_received(d, some) ==
    IF d.response = "NONE" THEN Just(d)
    ELSE IF some THEN Just([d EXCEPT !.inhibited = TRUE, !.view = "inhibit"])
    ELSE IF d.inhibited THEN handle_response(d, "IgnoreInhibitors")
    ELSE Just(d)
=============================================================================
