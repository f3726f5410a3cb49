--------------------------- MODULE EndSession_proof ---------------------------
(***************************************************************************)
(* Proofs about EndSession.                                                *)
(***************************************************************************)
EXTENDS EndSession, TLAPS

Typed(s) == s \in ManagerState /\ Len(s.calls) <= MaxCalls

\* r differs from s in the dialog, its calls and the inhibitors at most.
SameButDialog(s, r) ==
    /\ r.phase = s.phase
    /\ r.logout_mode = s.logout_mode
    /\ r.logout_type = s.logout_type
    /\ r.clients = s.clients
    /\ r.query_clients = s.query_clients
    /\ r.next_query_clients = s.next_query_clients
    /\ r.query_timer = s.query_timer
    /\ r.phase_timer = s.phase_timer
    /\ r.told = s.told
    /\ r.power_request = s.power_request
    /\ r.freed_use = s.freed_use
    /\ r.loop = s.loop

LEMMA DialogHears ==
    ASSUME NEW s, Typed(s)
    PROVE  LET r == inhibitor_info_received(s)
           IN  /\ Typed(r)
               /\ SameButDialog(s, r)
               /\ r.dialog_action = s.dialog_action
               /\ r.jit_inhibitors = s.jit_inhibitors
               /\ r.app_inhibitors = s.app_inhibitors
  <1> DEFINE shown == [s EXCEPT !.dialog = "inhibit"]
             calls == IF Len(s.calls) < MaxCalls
                        THEN Append(s.calls, "IgnoreInhibitors")
                        ELSE s.calls
             done == [s EXCEPT !.dialog = "finishing", !.calls = calls]
  <1>1. inhibitor_info_received(s) \in {s, shown, done}
    BY DEF inhibitor_info_received
  <1>2. Typed(shown) /\ SameButDialog(s, shown) /\ shown.dialog_action = s.dialog_action
        /\ shown.jit_inhibitors = s.jit_inhibitors /\ shown.app_inhibitors = s.app_inhibitors
    BY DEF Typed, ManagerState, SameButDialog, DialogStates
  <1>3. calls \in Seq(DialogCalls) /\ Len(calls) <= MaxCalls
    BY ConstantsAssumption DEF Typed, ManagerState, DialogCalls
  <1>4. Typed(done) /\ SameButDialog(s, done) /\ done.dialog_action = s.dialog_action
        /\ done.jit_inhibitors = s.jit_inhibitors /\ done.app_inhibitors = s.app_inhibitors
    <2> HIDE DEF calls
    <2> QED
      BY <1>3 DEF Typed, ManagerState, SameButDialog, DialogStates
  <1>5. SameButDialog(s, s)
    BY DEF SameButDialog
  <1> QED
    BY <1>1, <1>2, <1>4, <1>5

LEMMA Emitted ==
    ASSUME NEW s, Typed(s), NEW action \in LogoutActions
    PROVE  LET r == emit_inhibitor_info_to_dialog(s, action)
           IN  /\ Typed(r)
               /\ SameButDialog(s, r)
               /\ r.dialog_action = IF action = "UNDEFINED" THEN s.dialog_action ELSE action
               /\ r.jit_inhibitors = s.jit_inhibitors
               /\ r.app_inhibitors = s.app_inhibitors
  <1>1. CASE action = "UNDEFINED"
    BY <1>1 DEF emit_inhibitor_info_to_dialog, SameButDialog
  <1>2. CASE action # "UNDEFINED"
    <2> DEFINE t == [s EXCEPT !.dialog_action = action]
    <2>1. /\ Typed(t) /\ SameButDialog(s, t) /\ t.dialog_action = action
          /\ t.jit_inhibitors = s.jit_inhibitors /\ t.app_inhibitors = s.app_inhibitors
      BY DEF Typed, ManagerState, SameButDialog
    <2>2. emit_inhibitor_info_to_dialog(s, action) = inhibitor_info_received(t)
      BY <1>2 DEF emit_inhibitor_info_to_dialog
    <2> HIDE DEF t
    <2> QED
      BY <1>2, <2>1, <2>2, DialogHears DEF SameButDialog
  <1> QED
    BY <1>1, <1>2

LEMMA InhibitorsSet ==
    ASSUME NEW s, Typed(s), NEW jit \in SUBSET Clients, NEW app \in SUBSET Connections
    PROVE  LET r == SetInhibitors(s, jit, app)
           IN  /\ Typed(r)
               /\ SameButDialog(s, r)
               /\ r.dialog_action = s.dialog_action
               /\ r.jit_inhibitors = jit
               /\ r.app_inhibitors = app
  <1> DEFINE t == [s EXCEPT !.jit_inhibitors = jit, !.app_inhibitors = app]
  <1>1. /\ Typed(t) /\ SameButDialog(s, t) /\ t.dialog_action = s.dialog_action
        /\ t.jit_inhibitors = jit /\ t.app_inhibitors = app
        /\ t.dialog_action \in LogoutActions
    BY DEF Typed, ManagerState, SameButDialog
  <1>2. \/ SetInhibitors(s, jit, app) = t
        \/ SetInhibitors(s, jit, app) = emit_inhibitor_info_to_dialog(t, t.dialog_action)
    BY DEF SetInhibitors
  <1> HIDE DEF t
  <1> QED
    BY <1>1, <1>2, Emitted DEF SameButDialog

-----------------------------------------------------------------------------
(* The invariant, of any record a handler starts from or ends with.  The    *)
(* handlers pass through records that violate it, so each operator gets a   *)
(* lemma with the condition it needs and the one it leaves.                 *)

Settled(s) ==
    /\ s.jit_inhibitors \subseteq s.clients
    /\ s.phase = "RUNNING" =>
           /\ s.query_clients = {} /\ s.next_query_clients = {}
           /\ ~s.query_timer /\ ~s.phase_timer
           /\ s.jit_inhibitors = {}
           /\ s.dialog_action = "UNDEFINED"
           /\ s.logout_mode # "FORCE"
    /\ s.phase = "QUERY_END_SESSION" =>
           /\ ~s.phase_timer
           /\ s.query_clients \subseteq s.clients
           /\ s.query_timer \/ (s.query_clients = {} /\ s.dialog_action # "UNDEFINED")
    /\ s.phase = "END_SESSION" => s.phase_timer /\ ~s.query_timer
    /\ s.phase = "EXIT" => ~s.phase_timer /\ ~s.query_timer
    /\ s.phase # "RUNNING" => s.logout_type # "NONE"

\* What end_phase may be called on.
Endable(s) ==
    /\ s.jit_inhibitors \subseteq s.clients
    /\ s.logout_type # "NONE"
    /\ s.phase = "RUNNING" =>
           /\ s.jit_inhibitors = {}
           /\ s.dialog_action = "UNDEFINED"
           /\ lockdown => s.logout_mode # "FORCE"

\* The clients stay, and no just-in-time inhibitor is added.
Keeps(s, r) ==
    /\ r.clients = s.clients
    /\ r.jit_inhibitors \subseteq s.jit_inhibitors

-----------------------------------------------------------------------------
(* The phases.                                                             *)

\* Nothing but the phase lists, the timers and what clients were told changes.
LEMMA ToldFacts ==
    ASSUME NEW s, Typed(s), NEW C, NEW signal \in Signals
    PROVE  LET r == Tell(s, C, signal)
           IN  /\ Typed(r) /\ Keeps(s, r)
               /\ r.phase = s.phase
               /\ r.logout_mode = s.logout_mode
               /\ r.logout_type = s.logout_type
               /\ r.dialog_action = s.dialog_action
               /\ r.query_clients = s.query_clients
               /\ r.next_query_clients = s.next_query_clients
               /\ r.query_timer = s.query_timer
               /\ r.phase_timer = s.phase_timer
               /\ r.jit_inhibitors = s.jit_inhibitors
  BY DEF Tell, Typed, ManagerState, Keeps

LEMMA ResetFacts ==
    ASSUME NEW s, Typed(s)
    PROVE  /\ Typed(reset_state(s))
           /\ reset_state(s).query_clients = {}
           /\ reset_state(s).next_query_clients = {}
           /\ ~reset_state(s).query_timer
           /\ ~reset_state(s).phase_timer
           /\ reset_state(s).phase = s.phase
           /\ reset_state(s).logout_mode = s.logout_mode
           /\ reset_state(s).logout_type = s.logout_type
           /\ reset_state(s).dialog_action = s.dialog_action
           /\ reset_state(s).clients = s.clients
           /\ reset_state(s).jit_inhibitors = s.jit_inhibitors
  BY DEF reset_state, Typed, ManagerState

LEMMA QuitFacts ==
    ASSUME NEW s, Typed(s), s.logout_type # "NONE"
    PROVE  LET r == csm_manager_quit(s)
           IN  /\ Typed(r)
               /\ r.phase = s.phase
               /\ r.clients = s.clients
               /\ r.logout_type = s.logout_type
               /\ r.query_timer = s.query_timer
               /\ r.phase_timer = s.phase_timer
               /\ r.jit_inhibitors = {}
  <1> DEFINE cleared == SetInhibitors(s, {}, {})
  <1>1. /\ Typed(cleared) /\ SameButDialog(s, cleared)
        /\ cleared.jit_inhibitors = {}
    BY InhibitorsSet
  <1>2. csm_manager_quit(s) \in
            {[cleared EXCEPT !.loop = "quit"], [cleared EXCEPT !.power_request = TRUE]}
    <2>1. s.logout_type \in {"LOGOUT", "REBOOT", "SHUTDOWN"}
      BY DEF Typed, ManagerState, LogoutTypes
    <2>2. CASE s.logout_type = "LOGOUT"
      BY <2>2 DEF csm_manager_quit
    <2>3. CASE s.logout_type \in {"REBOOT", "SHUTDOWN"}
      BY <2>3 DEF csm_manager_quit
    <2> QED
      BY <2>1, <2>2, <2>3
  <1> HIDE DEF cleared
  <1> QED
    BY <1>1, <1>2 DEF Typed, ManagerState, SameButDialog, Loops

LEMMA ExitFacts ==
    ASSUME NEW s, Typed(s), s.logout_type # "NONE"
    PROVE  LET r == do_phase_exit(s)
           IN  Typed(r) /\ Settled(r) /\ Keeps(s, r) /\ r.phase = "EXIT"
  <1> DEFINE a == [s EXCEPT !.phase = "EXIT"]
             b == reset_state(a)
             c == Tell(b, s.clients, "Stop")
  <1>1. /\ Typed(a) /\ a.phase = "EXIT" /\ a.clients = s.clients
        /\ a.logout_type = s.logout_type
    BY DEF Typed, ManagerState, Phases
  <1> HIDE DEF a
  <1>2. /\ Typed(b) /\ b.phase = "EXIT" /\ b.clients = s.clients
        /\ b.logout_type = s.logout_type /\ ~b.query_timer /\ ~b.phase_timer
    BY <1>1, ResetFacts
  <1> HIDE DEF b
  <1>3. /\ Typed(c) /\ c.phase = "EXIT" /\ c.clients = s.clients
        /\ c.logout_type = s.logout_type /\ ~c.query_timer /\ ~c.phase_timer
    BY <1>2, ToldFacts DEF Signals, Keeps
  <1>4. do_phase_exit(s) = csm_manager_quit(c)
    BY DEF do_phase_exit, a, b
  <1> HIDE DEF c
  <1> QED
    BY <1>3, <1>4, QuitFacts DEF Settled, Keeps

LEMMA SaveFacts ==
    ASSUME NEW s, Typed(s), s.logout_type # "NONE",
           s.jit_inhibitors \subseteq s.clients
    PROVE  LET r == do_phase_end_session(s)
           IN  Typed(r) /\ Settled(r) /\ Keeps(s, r) /\ r.phase \in {"END_SESSION", "EXIT"}
  <1> DEFINE a == [s EXCEPT !.phase = "END_SESSION"]
             b == reset_state(a)
             c == close_end_session_dialog(b)
             d == [c EXCEPT !.query_clients = s.clients, !.phase_timer = TRUE]
  <1>1. /\ Typed(a) /\ a.phase = "END_SESSION" /\ Keeps(s, a)
        /\ a.logout_type = s.logout_type
    BY DEF Typed, ManagerState, Phases, Keeps
  <1> HIDE DEF a
  <1>2. /\ Typed(b) /\ b.phase = "END_SESSION" /\ Keeps(s, b)
        /\ b.logout_type = s.logout_type /\ ~b.query_timer
    BY <1>1, ResetFacts DEF Keeps
  <1> HIDE DEF b
  <1>3. /\ Typed(c) /\ c.phase = "END_SESSION" /\ Keeps(s, c)
        /\ c.logout_type = s.logout_type /\ ~c.query_timer
    BY <1>2 DEF close_end_session_dialog, Typed, ManagerState, DialogStates, Keeps
  <1>4. do_phase_end_session(s) =
            IF s.clients = {} THEN do_phase_exit(c) ELSE Tell(d, s.clients, "EndSession")
    BY DEF do_phase_end_session, a, b
  <1> HIDE DEF c
  <1>5. CASE s.clients = {}
    BY <1>3, <1>4, <1>5, ExitFacts DEF Keeps
  <1>6. CASE s.clients # {}
    <2>1. /\ Typed(d) /\ d.phase = "END_SESSION" /\ Keeps(s, d)
          /\ d.logout_type = s.logout_type /\ ~d.query_timer /\ d.phase_timer
      BY <1>3 DEF Typed, ManagerState, Keeps
    <2> HIDE DEF d
    <2> QED
      BY <1>4, <1>6, <2>1, ToldFacts DEF Settled, Keeps, Signals
  <1> QED
    BY <1>5, <1>6

LEMMA QueryFacts ==
    ASSUME NEW s, Typed(s), s.logout_type # "NONE",
           s.jit_inhibitors \subseteq s.clients
    PROVE  LET r == do_phase_query_end_session(s)
           IN  Typed(r) /\ Settled(r) /\ Keeps(s, r) /\ r.phase = "QUERY_END_SESSION"
  <1> DEFINE a == [s EXCEPT !.phase = "QUERY_END_SESSION"]
             b == reset_state(a)
             c == [b EXCEPT !.query_clients = s.clients, !.query_timer = TRUE]
  <1>1. /\ Typed(a) /\ a.phase = "QUERY_END_SESSION" /\ Keeps(s, a)
        /\ a.logout_type = s.logout_type
    BY DEF Typed, ManagerState, Phases, Keeps
  <1> HIDE DEF a
  <1>2. /\ Typed(b) /\ b.phase = "QUERY_END_SESSION" /\ Keeps(s, b)
        /\ b.logout_type = s.logout_type /\ ~b.phase_timer
    BY <1>1, ResetFacts DEF Keeps
  <1> HIDE DEF b
  <1>3. /\ Typed(c) /\ c.phase = "QUERY_END_SESSION" /\ Keeps(s, c)
        /\ c.logout_type = s.logout_type /\ ~c.phase_timer /\ c.query_timer
        /\ c.query_clients = s.clients
    BY <1>2 DEF Typed, ManagerState, Keeps
  <1>4. do_phase_query_end_session(s) = Tell(c, s.clients, "QueryEndSession")
    BY DEF do_phase_query_end_session, a, b
  <1> HIDE DEF c
  <1> QED
    BY <1>3, <1>4, ToldFacts DEF Settled, Keeps, Signals

LEMMA EndPhase ==
    ASSUME NEW s, Typed(s), Endable(s)
    PROVE  LET r == end_phase(s)
           IN  /\ Typed(r) /\ Settled(r) /\ Keeps(s, r)
               /\ r.phase = "QUERY_END_SESSION" => s.phase = "RUNNING"
  <1>1. CASE s.phase = "RUNNING" /\ lockdown
    <2>1. end_phase(s) = reset_state(s)
      BY <1>1 DEF end_phase
    <2> QED
      BY <1>1, <2>1, ResetFacts DEF Endable, Settled, Keeps
  <1>2. CASE s.phase = "RUNNING" /\ ~lockdown
    <2>1. end_phase(s) = do_phase_query_end_session(s)
      BY <1>2 DEF end_phase
    <2> QED
      BY <1>2, <2>1, QueryFacts DEF Endable
  <1>3. CASE s.phase = "QUERY_END_SESSION"
    <2>1. end_phase(s) = do_phase_end_session(s)
      BY <1>3 DEF end_phase
    <2> QED
      BY <2>1, SaveFacts DEF Endable
  <1>4. CASE s.phase = "END_SESSION"
    <2>1. end_phase(s) = do_phase_exit(s)
      BY <1>4 DEF end_phase
    <2> QED
      BY <2>1, ExitFacts DEF Endable
  <1>5. CASE s.phase = "EXIT"
    <2> DEFINE a == reset_state(s)
    <2>1. end_phase(s) = csm_manager_quit(a)
      BY <1>5 DEF end_phase
    <2>2. /\ Typed(a) /\ a.phase = "EXIT" /\ a.clients = s.clients
          /\ a.logout_type # "NONE" /\ ~a.query_timer /\ ~a.phase_timer
      BY <1>5, ResetFacts DEF Endable
    <2> HIDE DEF a
    <2> QED
      BY <2>1, <2>2, QuitFacts DEF Settled, Keeps
  <1> QED
    BY <1>1, <1>2, <1>3, <1>4, <1>5 DEF Typed, ManagerState, Phases

LEMMA SecondPart ==
    ASSUME NEW s, Typed(s), Settled(s), s.phase = "END_SESSION"
    PROVE  LET r == do_phase_end_session_part_2(s)
           IN  Typed(r) /\ Settled(r) /\ Keeps(s, r)
  <1> DEFINE a == [s EXCEPT !.query_clients = s.next_query_clients,
                            !.next_query_clients = {},
                            !.freed_use = @ \/ ~(s.next_query_clients \subseteq s.clients)]
  <1>1. /\ Typed(a) /\ Settled(a) /\ Keeps(s, a) /\ a.phase = "END_SESSION"
    BY DEF Typed, ManagerState, Settled, Keeps
  <1>2. do_phase_end_session_part_2(s) =
            Tell(a, s.next_query_clients \cap s.clients, "EndSessionLast")
    BY DEF do_phase_end_session_part_2
  <1> HIDE DEF a
  <1> QED
    BY <1>1, <1>2, ToldFacts DEF Settled, Keeps, Signals

LEMMA EndableInShutdown ==
    ASSUME NEW s, Settled(s), InShutdown(s)
    PROVE  Endable(s)
  BY DEF Settled, Endable, InShutdown

LEMMA Cancelled ==
    ASSUME NEW s, Typed(s)
    PROVE  LET r == cancel_end_session(s)
           IN  /\ ~InShutdown(s) => r = s
               /\ InShutdown(s) => /\ Typed(r) /\ Settled(r) /\ Keeps(s, r)
                                  /\ r.phase = "RUNNING"
  <1>1. CASE ~InShutdown(s)
    BY <1>1 DEF cancel_end_session
  <1>2. CASE InShutdown(s)
    <2> DEFINE a == close_end_session_dialog(s)
               b == SetInhibitors(a, {}, s.app_inhibitors)
               c == [b EXCEPT !.phase = "RUNNING", !.logout_mode = "NORMAL",
                              !.logout_type = "NONE", !.dialog_action = "UNDEFINED"]
               d == reset_state(c)
    <2>1. Typed(a) /\ a.clients = s.clients /\ s.app_inhibitors \in SUBSET Connections
      BY DEF close_end_session_dialog, Typed, ManagerState, DialogStates
    <2>2. cancel_end_session(s) = Tell(d, s.clients, "none")
      BY <1>2 DEF cancel_end_session
    <2> HIDE DEF a
    <2>3. Typed(b) /\ b.clients = s.clients /\ b.jit_inhibitors = {}
      BY <2>1, InhibitorsSet DEF SameButDialog
    <2> HIDE DEF b
    <2>4. /\ Typed(c) /\ c.clients = s.clients /\ c.jit_inhibitors = {}
          /\ c.phase = "RUNNING" /\ c.logout_mode = "NORMAL" /\ c.dialog_action = "UNDEFINED"
      BY <2>3 DEF Typed, ManagerState, Phases, LogoutModes, LogoutTypes, LogoutActions
    <2> HIDE DEF c
    <2>5. /\ Typed(d) /\ d.clients = s.clients /\ d.jit_inhibitors = {}
          /\ d.phase = "RUNNING" /\ d.logout_mode = "NORMAL" /\ d.dialog_action = "UNDEFINED"
          /\ d.query_clients = {} /\ d.next_query_clients = {}
          /\ ~d.query_timer /\ ~d.phase_timer
      BY <2>4, ResetFacts
    <2> HIDE DEF d
    <2> QED
      BY <1>2, <2>2, <2>5, ToldFacts DEF Settled, Keeps, Signals
  <1> QED
    BY <1>1, <1>2

LEMMA Launched ==
    ASSUME NEW s, Typed(s), Settled(s)
    PROVE  LET r == launch_gtk_dialog(s) IN Typed(r) /\ Settled(r)
  <1> DEFINE a == IF s.phase = "QUERY_END_SESSION" THEN cancel_end_session(s) ELSE s
             b == [a EXCEPT !.dialog = "asking"]
  <1>1. Typed(a) /\ Settled(a)
    BY Cancelled DEF InShutdown
  <1>2. launch_gtk_dialog(s) \in {s, b}
    BY DEF launch_gtk_dialog
  <1> HIDE DEF a
  <1>3. Typed(b) /\ Settled(b)
    BY <1>1 DEF Typed, ManagerState, DialogStates, Settled
  <1> QED
    BY <1>2, <1>3

-----------------------------------------------------------------------------
(* The end of the query.                                                   *)

\* Everybody has answered the query, or did not answer in time.
Answered(s) ==
    /\ s.phase = "QUERY_END_SESSION"
    /\ s.jit_inhibitors \subseteq s.clients
    /\ s.logout_type # "NONE"
    /\ s.query_clients = {}
    /\ ~s.phase_timer

LEMMA Reported ==
    ASSUME NEW s, Typed(s), Answered(s)
    PROVE  LET r == end_session_or_report_inhibitors(s)
           IN  /\ Typed(r) /\ Settled(r) /\ Keeps(s, r)
               /\ r.phase = "QUERY_END_SESSION" => r.query_clients = {}
  <1>1. CASE csm_manager_is_logout_inhibited(s)
    <2> DEFINE action == IF s.logout_type = "NONE" THEN "LOGOUT" ELSE s.logout_type
               r == emit_inhibitor_info_to_dialog(s, action)
    <2>1. end_session_or_report_inhibitors(s) = r
      BY <1>1 DEF end_session_or_report_inhibitors
    <2>2. action \in LogoutActions /\ action # "UNDEFINED"
      BY DEF Typed, ManagerState, LogoutTypes, LogoutActions
    <2> HIDE DEF action
    <2>3. /\ Typed(r) /\ SameButDialog(s, r) /\ r.dialog_action # "UNDEFINED"
          /\ r.jit_inhibitors = s.jit_inhibitors
      BY <2>2, Emitted
    <2> HIDE DEF r
    <2> QED
      BY <2>1, <2>3 DEF Answered, SameButDialog, Settled, Keeps
  <1>2. CASE ~csm_manager_is_logout_inhibited(s)
    <2>1. end_session_or_report_inhibitors(s) = end_phase(s)
      BY <1>2 DEF end_session_or_report_inhibitors
    <2>2. Endable(s)
      BY DEF Answered, Endable
    <2> QED
      BY <2>1, <2>2, EndPhase DEF Answered
  <1> QED
    BY <1>1, <1>2

LEMMA Completed ==
    ASSUME NEW s, Typed(s), Answered(s)
    PROVE  LET r == query_end_session_complete(s)
           IN  /\ Typed(r) /\ Settled(r) /\ Keeps(s, r)
               /\ r.phase = "QUERY_END_SESSION" => r.query_clients = {}
  <1> DEFINE a == [s EXCEPT !.query_timer = FALSE]
  <1>1. Typed(a) /\ Answered(a) /\ Keeps(s, a)
    BY DEF Typed, ManagerState, Answered, Keeps
  <1>2. query_end_session_complete(s) = end_session_or_report_inhibitors(a)
    BY DEF query_end_session_complete
  <1> HIDE DEF a
  <1> QED
    BY <1>1, <1>2, Reported DEF Keeps

LEMMA QueryTimedOut ==
    ASSUME NEW s, Typed(s), Settled(s), s.phase = "QUERY_END_SESSION"
    PROVE  LET r == _on_query_end_session_timeout(s) IN Typed(r) /\ Settled(r)
  <1> DEFINE fired == [s EXCEPT !.query_timer = FALSE]
             noted == IF s.logout_mode = "FORCE" THEN fired
                                                 ELSE AddJIT(fired, s.query_clients)
             listed == [noted EXCEPT !.query_clients = {}]
  <1>1. /\ Typed(fired) /\ fired.phase = s.phase /\ fired.clients = s.clients
        /\ fired.jit_inhibitors = s.jit_inhibitors /\ fired.logout_type = s.logout_type
        /\ fired.phase_timer = s.phase_timer
        /\ fired.jit_inhibitors \cup s.query_clients \in SUBSET Clients
        /\ fired.app_inhibitors \in SUBSET Connections
    BY DEF Typed, ManagerState
  <1>2. _on_query_end_session_timeout(s) = query_end_session_complete(listed)
    BY DEF _on_query_end_session_timeout
  <1> HIDE DEF fired
  <1>3. /\ Typed(noted) /\ noted.phase = s.phase /\ noted.clients = s.clients
        /\ noted.jit_inhibitors \subseteq s.jit_inhibitors \cup s.query_clients
        /\ noted.logout_type = s.logout_type /\ noted.phase_timer = s.phase_timer
    BY <1>1, InhibitorsSet DEF AddJIT, SameButDialog
  <1> HIDE DEF noted
  <1>4. Typed(listed) /\ Answered(listed)
    BY <1>3 DEF Typed, ManagerState, Answered, Settled
  <1> HIDE DEF listed
  <1> QED
    BY <1>2, <1>4, Completed

LEMMA PhaseTimedOut ==
    ASSUME NEW s, Typed(s), Settled(s), s.phase_timer
    PROVE  LET r == on_phase_timeout(s) IN Typed(r) /\ Settled(r)
  <1> DEFINE a == [s EXCEPT !.phase_timer = FALSE]
  <1>1. Typed(a) /\ Endable(a)
    BY DEF Typed, ManagerState, Settled, Endable, Phases
  <1>2. on_phase_timeout(s) = end_phase(a)
    BY DEF on_phase_timeout
  <1> HIDE DEF a
  <1> QED
    BY <1>1, <1>2, EndPhase

-----------------------------------------------------------------------------
(* Answers and departures.                                                 *)

\* The client is off the list of the query.
OffTheList(s, c) == s.phase = "QUERY_END_SESSION" => c \notin s.query_clients

LEMMA SaveStep ==
    ASSUME NEW s, Typed(s), Settled(s), s.phase = "END_SESSION"
    PROVE  LET r == EndSessionStep(s)
           IN  Typed(r) /\ Settled(r) /\ Keeps(s, r) /\ r.phase # "QUERY_END_SESSION"
  <1>1. EndSessionStep(s) \in {s, do_phase_end_session_part_2(s), end_phase(s)}
    BY DEF EndSessionStep
  <1>2. Endable(s)
    BY EndableInShutdown DEF InShutdown
  <1>3. Keeps(s, s)
    BY DEF Keeps
  <1>4. do_phase_end_session_part_2(s).phase # "QUERY_END_SESSION"
    <2> DEFINE a == [s EXCEPT !.query_clients = s.next_query_clients,
                              !.next_query_clients = {},
                              !.freed_use = @ \/ ~(s.next_query_clients \subseteq s.clients)]
    <2>1. Typed(a) /\ a.phase = "END_SESSION"
      BY DEF Typed, ManagerState
    <2>2. do_phase_end_session_part_2(s) =
              Tell(a, s.next_query_clients \cap s.clients, "EndSessionLast")
      BY DEF do_phase_end_session_part_2
    <2> HIDE DEF a
    <2> QED
      BY <2>1, <2>2, ToldFacts DEF Signals
  <1> QED
    BY <1>1, <1>2, <1>3, <1>4, SecondPart, EndPhase

LEMMA Responded ==
    ASSUME NEW s, Typed(s), Settled(s), NEW c \in Clients,
           NEW is_ok \in BOOLEAN, NEW do_last \in BOOLEAN, NEW cancel \in BOOLEAN,
           is_ok \/ c \in s.clients
    PROVE  LET r == _handle_client_end_session_response(s, c, is_ok, do_last, cancel)
           IN  /\ Typed(r) /\ Settled(r) /\ r.clients = s.clients
               /\ is_ok /\ ~cancel => Keeps(s, r) /\ c \notin r.jit_inhibitors /\ OffTheList(r, c)
  <1> DEFINE answered == [s EXCEPT !.query_clients = @ \ {c}]
             noted == IF ~is_ok /\ s.logout_mode # "FORCE" THEN AddJIT(answered, {c})
                                                           ELSE RemoveJIT(answered, c)
             last == [noted EXCEPT !.next_query_clients = @ \cup {c}]
             r == _handle_client_end_session_response(s, c, is_ok, do_last, cancel)
  <1>1. /\ Typed(answered) /\ answered.phase = s.phase /\ answered.clients = s.clients
        /\ answered.jit_inhibitors = s.jit_inhibitors
        /\ answered.logout_type = s.logout_type /\ answered.phase_timer = s.phase_timer
        /\ answered.query_timer = s.query_timer
        /\ answered.dialog_action = s.dialog_action
        /\ answered.query_clients = s.query_clients \ {c}
        /\ answered.jit_inhibitors \cup {c} \in SUBSET Clients
        /\ answered.jit_inhibitors \ {c} \in SUBSET Clients
        /\ answered.app_inhibitors \in SUBSET Connections
    BY DEF Typed, ManagerState
  <1>2. CASE ~InShutdown(s)
    <2>1. r = s
      BY <1>2 DEF _handle_client_end_session_response, InShutdown
    <2> QED
      BY <1>2, <2>1 DEF InShutdown, Settled, Keeps, OffTheList
  <1>3. CASE InShutdown(s) /\ cancel
    <2>1. r = cancel_end_session(s)
      BY <1>3 DEF _handle_client_end_session_response
    <2> QED
      BY <1>3, <2>1, Cancelled DEF Keeps
  <1>4. CASE InShutdown(s) /\ ~cancel
    <2>1. CASE s.phase = "QUERY_END_SESSION" /\ noted.query_clients = {}
      <3>1. r = query_end_session_complete(noted)
        BY <1>4, <2>1 DEF _handle_client_end_session_response
      <3> HIDE DEF answered
      <3>2. /\ Typed(noted) /\ Answered(noted) /\ noted.clients = s.clients
            /\ is_ok => Keeps(s, noted) /\ c \notin noted.jit_inhibitors
        BY <1>1, <2>1, InhibitorsSet DEF AddJIT, RemoveJIT, SameButDialog, Answered, Settled, Keeps
      <3> HIDE DEF noted
      <3> QED
        BY <1>4, <3>1, <3>2, Completed DEF Keeps, OffTheList
    <2>2. CASE s.phase = "QUERY_END_SESSION" /\ noted.query_clients # {}
      <3>1. r = noted
        BY <1>4, <2>2 DEF _handle_client_end_session_response
      <3> HIDE DEF answered
      <3>2. /\ Typed(noted) /\ Settled(noted) /\ noted.clients = s.clients
            /\ is_ok => Keeps(s, noted) /\ c \notin noted.jit_inhibitors
            /\ c \notin noted.query_clients
        BY <1>1, <2>2, InhibitorsSet DEF AddJIT, RemoveJIT, SameButDialog, Settled, Keeps
      <3> QED
        BY <3>1, <3>2 DEF OffTheList
    <2>3. CASE s.phase = "END_SESSION"
      <3>1. r \in {EndSessionStep(last), EndSessionStep(noted)}
        BY <1>4, <2>3 DEF _handle_client_end_session_response
      <3> HIDE DEF answered
      <3>2. /\ Typed(noted) /\ Settled(noted) /\ noted.clients = s.clients
            /\ noted.phase = "END_SESSION"
            /\ is_ok => Keeps(s, noted) /\ c \notin noted.jit_inhibitors
        BY <1>1, <2>3, InhibitorsSet DEF AddJIT, RemoveJIT, SameButDialog, Settled, Keeps
      <3> HIDE DEF noted
      <3>3. /\ Typed(last) /\ Settled(last) /\ last.clients = s.clients
            /\ last.phase = "END_SESSION"
            /\ is_ok => Keeps(s, last) /\ c \notin last.jit_inhibitors
        BY <3>2 DEF Typed, ManagerState, Settled, Keeps
      <3> HIDE DEF last
      <3> QED
        BY <3>1, <3>2, <3>3, SaveStep DEF Keeps, OffTheList
    <2>4. CASE s.phase = "EXIT"
      <3>1. r = noted
        BY <1>4, <2>4 DEF _handle_client_end_session_response
      <3> HIDE DEF answered
      <3>2. /\ Typed(noted) /\ Settled(noted) /\ noted.clients = s.clients
            /\ noted.phase = "EXIT"
            /\ is_ok => Keeps(s, noted) /\ c \notin noted.jit_inhibitors
        BY <1>1, <2>4, InhibitorsSet DEF AddJIT, RemoveJIT, SameButDialog, Settled, Keeps
      <3> QED
        BY <3>1, <3>2 DEF OffTheList
    <2> QED
      BY <1>4, <2>1, <2>2, <2>3, <2>4 DEF InShutdown, Typed, ManagerState, Phases
  <1> QED
    BY <1>2, <1>3, <1>4

LEMMA Disconnected ==
    ASSUME NEW s, Typed(s), Settled(s), NEW c \in Clients
    PROVE  LET r == _disconnect_client(s, c)
           IN  /\ Typed(r) /\ Settled(r) /\ r.clients = s.clients
               /\ c \notin r.jit_inhibitors /\ OffTheList(r, c)
  <1> DEFINE t == RemoveJIT(s, c)
             u == _handle_client_end_session_response(t, c, TRUE, FALSE, FALSE)
  <1>1. /\ Typed(t) /\ SameButDialog(s, t) /\ t.dialog_action = s.dialog_action
        /\ t.jit_inhibitors = s.jit_inhibitors \ {c}
    <2>1. s.jit_inhibitors \ {c} \in SUBSET Clients /\ s.app_inhibitors \in SUBSET Connections
      BY DEF Typed, ManagerState
    <2> QED
      BY <2>1, InhibitorsSet DEF RemoveJIT
  <1>2. \/ _disconnect_client(s, c) = u
        \/ _disconnect_client(s, c) = t /\ s.phase # "QUERY_END_SESSION"
    BY DEF _disconnect_client
  <1> HIDE DEF t
  <1>3. Settled(t)
    BY <1>1 DEF Settled, SameButDialog
  <1>4. /\ Typed(u) /\ Settled(u) /\ u.clients = s.clients
        /\ c \notin u.jit_inhibitors /\ OffTheList(u, c)
    BY <1>1, <1>3, Responded DEF SameButDialog
  <1> HIDE DEF u
  <1> QED
    BY <1>1, <1>2, <1>3, <1>4 DEF SameButDialog, OffTheList

LEMMA Removed ==
    ASSUME NEW s, Typed(s), Settled(s), NEW c \in Clients
    PROVE  LET r == RemoveClient(s, c)
           IN  Typed(r) /\ Settled(r) /\ r.clients = s.clients \ {c}
  <1> DEFINE t == _disconnect_client(s, c)
  <1>1. /\ Typed(t) /\ Settled(t) /\ t.clients = s.clients
        /\ c \notin t.jit_inhibitors /\ OffTheList(t, c)
    BY Disconnected
  <1>2. RemoveClient(s, c) = [t EXCEPT !.clients = @ \ {c}, !.told[c] = "none"]
    BY DEF RemoveClient
  <1> HIDE DEF t
  <1> DEFINE told == [t.told EXCEPT ![c] = "none"]
  <1>3. told \in [Clients -> Signals]
    BY <1>1 DEF Typed, ManagerState, Signals
  <1>4. RemoveClient(s, c) = [t EXCEPT !.clients = @ \ {c}, !.told = told]
    BY <1>1, <1>2 DEF Typed, ManagerState
  <1> HIDE DEF told
  <1> DEFINE u == [t EXCEPT !.clients = @ \ {c}, !.told = told]
  <1>5. Typed(u) /\ u.clients = s.clients \ {c}
    BY <1>1, <1>3 DEF Typed, ManagerState
  <1>6. /\ u.jit_inhibitors = t.jit_inhibitors /\ u.query_clients = t.query_clients
        /\ u.phase = t.phase /\ u.logout_type = t.logout_type
        /\ u.logout_mode = t.logout_mode /\ u.dialog_action = t.dialog_action
        /\ u.query_timer = t.query_timer /\ u.phase_timer = t.phase_timer
        /\ u.next_query_clients = t.next_query_clients
    BY <1>1 DEF Typed, ManagerState
  <1>7. RemoveClient(s, c) = u
    BY <1>4
  <1> HIDE DEF u
  <1>8. Settled(u)
    BY <1>1, <1>5, <1>6 DEF Settled, OffTheList
  <1> QED
    BY <1>5, <1>7, <1>8

LEMMA NobodyLeft ==
    ASSUME NEW s, Typed(s), Settled(s)
    PROVE  LET r == EndPhaseIfNobodyIsLeft(s)
           IN  Typed(r) /\ Settled(r) /\ r.clients = s.clients
  BY EndPhase, EndableInShutdown DEF EndPhaseIfNobodyIsLeft, Keeps

LEMMA ClientLeft ==
    ASSUME NEW s, Typed(s), Settled(s), NEW c \in Clients
    PROVE  LET r == on_client_disconnected(s, c)
           IN  Typed(r) /\ Settled(r) /\ r.clients = s.clients \ {c}
  <1> DEFINE t == RemoveClient(s, c)
  <1>1. on_client_disconnected(s, c) = EndPhaseIfNobodyIsLeft(t)
    BY DEF on_client_disconnected
  <1>2. Typed(t) /\ Settled(t) /\ t.clients = s.clients \ {c}
    BY Removed
  <1> HIDE DEF t
  <1> QED
    BY <1>1, <1>2, NobodyLeft

LEMMA NameLost ==
    ASSUME NEW s, Typed(s), Settled(s), NEW o \in Connections
    PROVE  LET r == on_name_lost_owner(s, o) IN Typed(r) /\ Settled(r)
  <1> DEFINE t == SetInhibitors(s, s.jit_inhibitors \ {o}, s.app_inhibitors \ {o})
             u == IF o \in s.clients THEN RemoveClient(t, o) ELSE t
  <1>1. /\ Typed(t) /\ SameButDialog(s, t) /\ t.dialog_action = s.dialog_action
        /\ t.jit_inhibitors = s.jit_inhibitors \ {o}
    <2>1. /\ s.jit_inhibitors \ {o} \in SUBSET Clients
          /\ s.app_inhibitors \ {o} \in SUBSET Connections
      BY DEF Typed, ManagerState
    <2> QED
      BY <2>1, InhibitorsSet
  <1>2. on_name_lost_owner(s, o) = EndPhaseIfNobodyIsLeft(u)
    BY DEF on_name_lost_owner
  <1> HIDE DEF t
  <1>3. Settled(t)
    BY <1>1 DEF Settled, SameButDialog
  <1>4. Typed(u) /\ Settled(u)
    <2>1. o \in s.clients => o \in Clients
      BY DEF Typed, ManagerState
    <2> QED
      BY <1>1, <1>3, <2>1, Removed
  <1> HIDE DEF u
  <1> QED
    BY <1>2, <1>4, NobodyLeft

-----------------------------------------------------------------------------
(* Requests and the dialog.                                                *)

LEMMA LogoutRequested ==
    ASSUME NEW s, Typed(s), Settled(s), NEW mode \in LogoutModes,
           lockdown => mode # "FORCE"
    PROVE  LET r == request_logout(s, mode) IN Typed(r) /\ Settled(r)
  <1> DEFINE a == [s EXCEPT !.logout_mode = mode, !.logout_type = "LOGOUT"]
  <1>1. Typed(a) /\ Endable(a)
    BY DEF Typed, ManagerState, LogoutTypes, Settled, Endable
  <1>2. request_logout(s, mode) = end_phase(a)
    BY DEF request_logout
  <1> HIDE DEF a
  <1> QED
    BY <1>1, <1>2, EndPhase

LEMMA PowerRequested ==
    ASSUME NEW s, Typed(s), Settled(s), NEW type \in {"SHUTDOWN", "REBOOT"}
    PROVE  LET r == request_power(s, type) IN Typed(r) /\ Settled(r)
  <1> DEFINE a == [s EXCEPT !.logout_type = type]
  <1>1. Typed(a) /\ Endable(a)
    BY DEF Typed, ManagerState, LogoutTypes, Settled, Endable
  <1>2. request_power(s, type) = end_phase(a)
    BY DEF request_power
  <1> HIDE DEF a
  <1> QED
    BY <1>1, <1>2, EndPhase

\* The dialog forces the action it was told of, which it was only in a shutdown.
LEMMA ActionForced ==
    ASSUME NEW s, Typed(s), Settled(s)
    PROVE  LET r == do_inhibit_dialog_action(s) IN Typed(r) /\ Settled(r)
  <1>1. CASE s.dialog_action = "UNDEFINED"
    <2> DEFINE a == [s EXCEPT !.loop = "aborted"]
    <2>1. Typed(a) /\ Settled(a)
      BY DEF Typed, ManagerState, Loops, Settled
    <2> QED
      BY <1>1, <2>1 DEF do_inhibit_dialog_action
  <1>2. CASE s.dialog_action # "UNDEFINED"
    <2> DEFINE a == [s EXCEPT !.logout_mode = "FORCE"]
    <2>1. Typed(a) /\ Endable(a)
      BY <1>2 DEF Typed, ManagerState, LogoutModes, Phases, Settled, Endable
    <2>2. do_inhibit_dialog_action(s) = end_phase(a)
      BY <1>2 DEF do_inhibit_dialog_action
    <2> HIDE DEF a
    <2> QED
      BY <2>1, <2>2, EndPhase
  <1> QED
    BY <1>1, <1>2

LEMMA DialogClosed ==
    ASSUME NEW s, Typed(s), Settled(s)
    PROVE  LET r == close_end_session_dialog(s) IN Typed(r) /\ Settled(r)
  BY DEF close_end_session_dialog, Typed, ManagerState, DialogStates, Settled

LEMMA DialogServed ==
    ASSUME NEW s, Typed(s), Settled(s), NEW call \in DialogCalls
    PROVE  LET r == handle_dialog_method_call(s, call) IN Typed(r) /\ Settled(r)
  <1>1. CASE call = "Logout"
    BY <1>1, LogoutRequested DEF handle_dialog_method_call, LogoutModes
  <1>2. CASE call \in {"Shutdown", "Restart"}
    BY <1>2, PowerRequested DEF handle_dialog_method_call
  <1>3. CASE call = "Suspend"
    BY <1>3 DEF handle_dialog_method_call
  <1>4. CASE call = "Cancel"
    <2> DEFINE a == IF s.dialog_action # "UNDEFINED" THEN cancel_end_session(s) ELSE s
    <2>1. Typed(a) /\ Settled(a)
      BY Cancelled
    <2>2. handle_dialog_method_call(s, call) = close_end_session_dialog(a)
      BY <1>4 DEF handle_dialog_method_call
    <2> HIDE DEF a
    <2> QED
      BY <2>1, <2>2, DialogClosed
  <1>5. CASE call = "IgnoreInhibitors"
    <2>1. handle_dialog_method_call(s, call) =
              do_inhibit_dialog_action(close_end_session_dialog(s))
      BY <1>5 DEF handle_dialog_method_call
    <2> QED
      BY <2>1, DialogClosed, ActionForced
  <1> QED
    BY <1>1, <1>2, <1>3, <1>4, <1>5 DEF DialogCalls

-----------------------------------------------------------------------------
(* The inductive invariant.                                                *)

Inv == TypeOK /\ Settled(m)

LEMMA InitEstablishesInv == Init => Inv
  <1> SUFFICES ASSUME Init PROVE Inv
    OBVIOUS
  <1>1. m \in ManagerState /\ Len(m.calls) <= MaxCalls
    BY ConstantsAssumption
       DEF Init, InitialManager, ManagerState, Phases, LogoutModes, LogoutTypes,
           LogoutActions, Signals, DialogStates, Loops
  <1>2. Settled(m)
    BY DEF Init, InitialManager, Settled
  <1> QED
    BY <1>1, <1>2 DEF Init, Inv, TypeOK

\* An action that only applies a handler to m preserves the invariant.
LEMMA HandlerKeepsInv ==
    ASSUME Inv, Typed(m'), Settled(m'), UNCHANGED env
    PROVE  Inv'
  BY DEF Inv, TypeOK, Typed, Settled, env, InShutdown

LEMMA InvTyped ==
    ASSUME Inv
    PROVE  Typed(m) /\ Settled(m)
  BY DEF Inv, TypeOK, Typed

LEMMA RequestKeepsInv ==
    ASSUME Inv, Request
    PROVE  Inv'
  <1> DEFINE normal == [m EXCEPT !.logout_mode = "NORMAL"]
  <1> USE InvTyped
  <1>1. Typed(normal) /\ Settled(normal)
    BY DEF Typed, ManagerState, LogoutModes, Settled
  <1>2. ASSUME NEW mode \in LogoutModes, NEW prompt \in BOOLEAN, Logout(mode, prompt)
        PROVE  Inv'
    <2>1. m' \in {launch_gtk_dialog(normal), request_logout(m, mode)} /\ ~lockdown
      BY <1>2 DEF Logout
    <2> HIDE DEF normal
    <2>2. Typed(m') /\ Settled(m')
      BY <1>1, <2>1, Launched, LogoutRequested
    <2> QED
      BY <1>2, <2>2, HandlerKeepsInv DEF Logout
  <1>3. CASE ShowShutdownDialog
    <2>1. m' = launch_gtk_dialog(normal)
      BY <1>3 DEF ShowShutdownDialog
    <2> HIDE DEF normal
    <2>2. Typed(m') /\ Settled(m')
      BY <1>1, <2>1, Launched
    <2> QED
      BY <1>3, <2>2, HandlerKeepsInv DEF ShowShutdownDialog
  <1>4. ASSUME NEW type \in {"SHUTDOWN", "REBOOT"}, RequestPower(type)
        PROVE  Inv'
    BY <1>4, PowerRequested, HandlerKeepsInv DEF RequestPower
  <1> QED
    BY <1>2, <1>3, <1>4 DEF Request

LEMMA ClientStepKeepsInv ==
    ASSUME Inv, ClientStep
    PROVE  Inv'
  <1> USE InvTyped
  <1>1. PICK c \in Clients :
            \/ RegisterClient(c)
            \/ \E is_ok \in BOOLEAN : EndSessionResponse(c, is_ok)
            \/ SaveYourselfPhase2Request(c)
            \/ InteractRequest(c)
            \/ \E cancel \in BOOLEAN : InteractDone(c, cancel)
            \/ SaveYourselfDone(c)
            \/ \E registered \in BOOLEAN : XSMPDisconnected(c, registered)
            \/ ClientVanished(c)
    BY DEF ClientStep
  <1>2. CASE RegisterClient(c)
    <2> DEFINE a == [m EXCEPT !.clients = @ \cup {c}]
    <2>1. Typed(a) /\ Settled(a)
      BY <1>2 DEF RegisterClient, Typed, ManagerState, Settled
    <2>2. m' = a
      BY <1>2 DEF RegisterClient
    <2> HIDE DEF a
    <2> QED
      BY <1>2, <2>1, <2>2, HandlerKeepsInv DEF RegisterClient
  <1>3. ASSUME NEW is_ok \in BOOLEAN, NEW do_last \in BOOLEAN, NEW cancel \in BOOLEAN,
               Respond(c, is_ok, do_last, cancel)
        PROVE  Inv'
    BY <1>3, Responded, HandlerKeepsInv DEF Respond
  <1>4. ASSUME NEW registered \in BOOLEAN, XSMPDisconnected(c, registered)
        PROVE  Inv'
    <2> DEFINE once == on_client_disconnected(m, c)
    <2>1. Typed(once) /\ Settled(once)
      BY ClientLeft
    <2>2. m' \in {once, on_client_disconnected(once, c)}
      BY <1>4 DEF XSMPDisconnected
    <2> HIDE DEF once
    <2> QED
      BY <1>4, <2>1, <2>2, ClientLeft, HandlerKeepsInv DEF XSMPDisconnected
  <1>5. CASE ClientVanished(c)
    BY <1>5, ClientLeft, HandlerKeepsInv DEF ClientVanished
  <1> QED
    BY <1>1, <1>2, <1>3, <1>4, <1>5
       DEF EndSessionResponse, SaveYourselfPhase2Request, InteractRequest, InteractDone,
           SaveYourselfDone

LEMMA BusStepKeepsInv ==
    ASSUME Inv, BusStep
    PROVE  Inv'
  <1> USE InvTyped
  <1>1. PICK o \in Connections :
            Inhibit(o) \/ Uninhibit(o) \/ LeaveBus(o) \/ NameOwnerChanged(o) \/ ReleaseName(o)
    BY DEF BusStep
  <1>2. ASSUME NEW app \in SUBSET Connections, m' = SetInhibitors(m, m.jit_inhibitors, app)
        PROVE  Typed(m') /\ Settled(m')
    <2>1. m.jit_inhibitors \in SUBSET Clients
      BY DEF Typed, ManagerState
    <2>2. /\ Typed(m') /\ SameButDialog(m, m') /\ m'.dialog_action = m.dialog_action
          /\ m'.jit_inhibitors = m.jit_inhibitors
      BY <1>2, <2>1, InhibitorsSet
    <2> QED
      BY <2>2 DEF Settled, SameButDialog
  <1>3. CASE Inhibit(o)
    <2>1. m.app_inhibitors \cup {o} \in SUBSET Connections
      BY DEF Typed, ManagerState
    <2>2. Typed(m') /\ Settled(m')
      BY <1>2, <1>3, <2>1 DEF Inhibit
    <2> QED
      BY <1>3, <2>2 DEF Inhibit, Inv, TypeOK, Typed, Settled
  <1>4. CASE Uninhibit(o)
    <2>1. m.app_inhibitors \ {o} \in SUBSET Connections
      BY DEF Typed, ManagerState
    <2>2. Typed(m') /\ Settled(m')
      BY <1>2, <1>4, <2>1 DEF Uninhibit
    <2> QED
      BY <1>4, <2>2 DEF Uninhibit, Inv, TypeOK, Typed, Settled
  <1>5. CASE LeaveBus(o)
    BY <1>5 DEF LeaveBus, Inv, TypeOK, Typed, Settled
  <1>6. CASE NameOwnerChanged(o)
    <2>1. Typed(m') /\ Settled(m')
      BY <1>6, NameLost DEF NameOwnerChanged
    <2> QED
      BY <1>6, <2>1 DEF NameOwnerChanged, Inv, TypeOK, Typed, Settled
  <1>7. CASE ReleaseName(o)
    BY <1>7, NameLost, HandlerKeepsInv DEF ReleaseName
  <1> QED
    BY <1>1, <1>3, <1>4, <1>5, <1>6, <1>7

LEMMA DialogStepKeepsInv ==
    ASSUME Inv, DialogStep
    PROVE  Inv'
  <1> USE InvTyped
  <1>1. ASSUME NEW call \in DialogCalls, NEW then \in DialogStates, DialogSends(call, then)
        PROVE  Inv'
    <2> DEFINE calls == Append(m.calls, call)
               a == [m EXCEPT !.calls = calls, !.dialog = then]
    <2>1. calls \in Seq(DialogCalls) /\ Len(calls) <= MaxCalls
      BY <1>1, ConstantsAssumption DEF DialogSends, Typed, ManagerState
    <2>2. m' = a
      BY <1>1 DEF DialogSends
    <2> HIDE DEF calls
    <2>3. Typed(a) /\ Settled(a)
      BY <2>1 DEF Typed, ManagerState, Settled
    <2> HIDE DEF a
    <2> QED
      BY <1>1, <2>2, <2>3, HandlerKeepsInv DEF DialogSends
  <1>2. CASE DialogExits
    BY <1>2, DialogClosed, HandlerKeepsInv DEF DialogExits
  <1>3. CASE HandleDialogCall
    <2> DEFINE rest == Tail(m.calls)
               a == [m EXCEPT !.calls = rest]
    <2>1. rest \in Seq(DialogCalls) /\ Len(rest) <= MaxCalls /\ Head(m.calls) \in DialogCalls
      BY <1>3, ConstantsAssumption DEF HandleDialogCall, Typed, ManagerState
    <2>2. m' = handle_dialog_method_call(a, Head(m.calls))
      BY <1>3 DEF HandleDialogCall
    <2> HIDE DEF rest
    <2>3. Typed(a) /\ Settled(a)
      BY <2>1 DEF Typed, ManagerState, Settled
    <2> HIDE DEF a
    <2> QED
      BY <1>3, <2>1, <2>2, <2>3, DialogServed, HandlerKeepsInv DEF HandleDialogCall
  <1> QED
    BY <1>1, <1>2, <1>3
       DEF DialogStep, PressAction, PressCancel, PressContinue, DialogCalls, DialogStates

LEMMA SystemStepKeepsInv ==
    ASSUME Inv, SystemStep
    PROVE  Inv'
  <1> USE InvTyped
  <1>1. CASE QueryEndSessionTimeout
    <2>1. m.phase = "QUERY_END_SESSION"
      BY <1>1 DEF QueryEndSessionTimeout, Settled, Typed, ManagerState, Phases
    <2> QED
      BY <1>1, <2>1, QueryTimedOut, HandlerKeepsInv DEF QueryEndSessionTimeout
  <1>2. CASE PhaseTimeout
    BY <1>2, PhaseTimedOut, HandlerKeepsInv DEF PhaseTimeout
  <1>3. ASSUME NEW loop \in Loops, m' = [m EXCEPT !.loop = loop], UNCHANGED env
        PROVE  Inv'
    <2>1. Typed(m') /\ Settled(m')
      BY <1>3 DEF Typed, ManagerState, Settled
    <2> QED
      BY <1>3, <2>1, HandlerKeepsInv
  <1>4. CASE ToggleLockdown
    BY <1>4 DEF ToggleLockdown, Inv, TypeOK, Settled
  <1> QED
    BY <1>1, <1>2, <1>3, <1>4 DEF SystemStep, PowerRequestAnswered, FreedClientCrash, Loops

LEMMA NextKeepsInv == Inv /\ [Next]_vars => Inv'
  <1> SUFFICES ASSUME Inv, [Next]_vars PROVE Inv'
    OBVIOUS
  <1>1. CASE UNCHANGED vars
    BY <1>1 DEF vars, Inv, TypeOK, Settled
  <1>2. CASE Next
    BY <1>1, <1>2, RequestKeepsInv, ClientStepKeepsInv, BusStepKeepsInv, DialogStepKeepsInv,
       SystemStepKeepsInv DEF Next, Terminated
  <1> QED
    BY <1>1, <1>2

\* The inductive invariant holds in every state the session manager reaches.
THEOREM InvHolds == Spec => []Inv
  BY InitEstablishesInv, NextKeepsInv, PTL DEF Spec

-----------------------------------------------------------------------------
(* The theorems.                                                           *)

\* The manager's structure keeps its types, the dialog's calls their bound, and
\* holders are on the bus, for any sets of clients and connections.
THEOREM TypeCorrect == Spec => []TypeOK
  <1>1. Inv => TypeOK
    BY DEF Inv
  <1> QED
    BY <1>1, InvHolds, PTL

\* A cancelled or refused end of session leaves nothing behind in RUNNING.
THEOREM RunningStaysClean == Spec => []RunningIsClean
  <1>1. Inv => RunningIsClean
    BY DEF Inv, Settled, RunningIsClean
  <1> QED
    BY <1>1, InvHolds, PTL

\* The query list and the just-in-time inhibitors never name a client that left.
THEOREM PendingStayAlive == Spec => []PendingClientsAlive
  <1>1. Inv => PendingClientsAlive
    BY DEF Inv, Settled, PendingClientsAlive
  <1> QED
    BY <1>1, InvHolds, PTL

\* A query always has its timer running or has been reported to the dialog.
THEOREM QueryIsNeverSilent == Spec => []QueryNeverSilent
  <1>1. Inv => QueryNeverSilent
    BY DEF Inv, Settled, QueryNeverSilent
  <1> QED
    BY <1>1, InvHolds, PTL

\* The save always has its timer running, and no timer outlives its phase.
THEOREM TimersAlwaysFitPhase == Spec => []TimersFitPhase
  <1>1. Inv => TimersFitPhase
    BY DEF Inv, TypeOK, ManagerState, Phases, Settled, TimersFitPhase
  <1> QED
    BY <1>1, InvHolds, PTL

\* csm_manager_quit is never entered without knowing how to end the session.
THEOREM QuitAlwaysKnowsHow == Spec => []QuitKnowsHow
  <1>1. Inv => QuitKnowsHow
    BY DEF Inv, Settled, QuitKnowsHow, InShutdown
  <1> QED
    BY <1>1, InvHolds, PTL
=============================================================================
