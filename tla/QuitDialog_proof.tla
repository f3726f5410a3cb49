-------------------------- MODULE QuitDialog_proof --------------------------
(***************************************************************************)
(* Proofs about QuitDialog.  A handler takes the manager, the dialog and   *)
(* the signals through several operators before Handle writes them back,   *)
(* so the invariant is stated of that structure and each operator is shown *)
(* to preserve it.                                                         *)
(***************************************************************************)
EXTENDS QuitDialog, TLAPS

Structures ==
    [ m : Manager, d : Dialog, signals : Seq(BOOLEAN),
      inhibitors : [Inhibitors -> Flags \cup {{}}], system : System ]

LogoutActions == {"LOGOUT", "SHUTDOWN", "REBOOT"}

\* A phase of the end has a type; an action that ends the session was reported
\* during the end, which a cancellation forgets; the query's timer is that
\* of the query, unless the manager died.
Ending(s) ==
    /\ s.m.phase \in {"QUERY_END_SESSION", "END_SESSION", "EXIT"} => s.m.type # "NONE"
    /\ s.m.action \in LogoutActions => s.m.phase # "RUNNING"
    /\ s.m.timer => s.m.phase \in {"QUERY_END_SESSION", "GONE"}

\* The list is what becomes of a choice that was made.
Listing(w) == w.view = "inhibit" => w.inhibited /\ w.response # "NONE"

Closing(s) == s.m.phase \in {"END_SESSION", "EXIT"} /\ Runs(s.d) => s.d.sigterm

Inhibited(s) == is_inhibited(s, FlagOf(s.m.action))

\* What the dialog is told last is how the present action stands: the last
\* signal on its way, or the view if there is none.
Informed(s) ==
    Runs(s.d) /\ ~s.d.sigterm =>
        /\ s.signals # << >> =>
               s.m.action # "UNDEFINED" /\ (s.signals[Len(s.signals)] <=> Inhibited(s))
        /\ s.signals = << >> /\ s.d.view = "inhibit" =>
               s.m.action # "UNDEFINED" /\ Inhibited(s)

Fit(s) == s \in Structures /\ Ending(s) /\ Listing(s.d) /\ Closing(s)

Fine(s) == Fit(s) /\ Informed(s)

\* A handler emits at most one signal.
Grows(s, r) == Len(r.signals) <= Len(s.signals) + 1

-----------------------------------------------------------------------------
(* What the manager tells the dialog.                                      *)

LEMMA Emits ==
    ASSUME NEW s, Fit(s), NEW action \in Actions \ {"UNDEFINED"},
           action \in LogoutActions => s.m.phase # "RUNNING"
    PROVE  LET r == emit_inhibitor_info_to_dialog(s, action)
           IN  /\ Fine(r) /\ Grows(s, r)
               /\ r.d = s.d /\ r.m = [s.m EXCEPT !.action = action]
  <1> DEFINE some == is_inhibited(s, FlagOf(action))
             told == Append(s.signals, some)
             r == emit_inhibitor_info_to_dialog(s, action)
  <1>1. some \in BOOLEAN
    BY DEF is_inhibited
  <1>2. r = [s EXCEPT !.m.action = action, !.signals = told]
    BY DEF emit_inhibitor_info_to_dialog
  <1> HIDE DEF some
  <1>3. s.signals \in Seq(BOOLEAN)
    BY DEF Fit, Structures
  <1>4. /\ told \in Seq(BOOLEAN) /\ Len(told) = Len(s.signals) + 1
        /\ told # << >> /\ told[Len(told)] = some
    BY <1>1, <1>3
  <1> HIDE DEF told, r
  <1>5. /\ r \in Structures /\ r.signals = told /\ r.d = s.d
        /\ r.m = [s.m EXCEPT !.action = action] /\ r.m.action = action
        /\ r.inhibitors = s.inhibitors
        /\ r.m.phase = s.m.phase /\ r.m.type = s.m.type /\ r.m.timer = s.m.timer
    BY <1>2, <1>4 DEF Fit, Structures, Manager
  <1>6. Inhibited(r) <=> some
    BY <1>5 DEF Inhibited, is_inhibited, some
  <1>7. Fit(r)
    BY <1>5 DEF Fit, Ending, Closing
  <1>8. Informed(r)
    BY <1>4, <1>5, <1>6 DEF Informed
  <1>9. Grows(s, r)
    BY <1>3, <1>4, <1>5 DEF Grows
  <1> QED
    BY <1>5, <1>7, <1>8, <1>9 DEF Fine, r

LEMMA Updates ==
    ASSUME NEW s, Fine(s), NEW i \in [Inhibitors -> Flags \cup {{}}]
    PROVE  LET r == update_inhibitors(s, i)
           IN  Fine(r) /\ Grows(s, r) /\ r.d = s.d /\ r.m = s.m
  <1> DEFINE t == [s EXCEPT !.inhibitors = i]
             r == update_inhibitors(s, i)
  <1>1. /\ t \in Structures /\ t.m = s.m /\ t.d = s.d /\ t.signals = s.signals
        /\ t.inhibitors = i
    BY DEF Fine, Fit, Structures
  <1>2. Fit(t)
    BY <1>1 DEF Fine, Fit, Ending, Closing
  <1>3. s.signals \in Seq(BOOLEAN) /\ s.m \in Manager
    BY DEF Fine, Fit, Structures
  <1>4. CASE AllFlags(i) = AllFlags(s.inhibitors)
    <2>1. r = t
      BY <1>4 DEF update_inhibitors
    <2> HIDE DEF t
    <2>2. Inhibited(t) <=> Inhibited(s)
      BY <1>1, <1>4 DEF Inhibited, is_inhibited
    <2>3. Informed(t)
      BY <1>1, <2>2 DEF Fine, Informed
    <2>4. Grows(s, t)
      BY <1>1, <1>3 DEF Grows
    <2> QED
      BY <1>1, <1>2, <2>1, <2>3, <2>4 DEF Fine
  <1>5. CASE AllFlags(i) # AllFlags(s.inhibitors) /\ s.m.action = "UNDEFINED"
    <2>1. r = t
      BY <1>1, <1>5 DEF update_inhibitors, emit_inhibitor_info_to_dialog
    <2> HIDE DEF t
    <2>2. Informed(t)
      BY <1>1, <1>5 DEF Fine, Informed
    <2>3. Grows(s, t)
      BY <1>1, <1>3 DEF Grows
    <2> QED
      BY <1>1, <1>2, <2>1, <2>2, <2>3 DEF Fine
  <1>6. CASE AllFlags(i) # AllFlags(s.inhibitors) /\ s.m.action # "UNDEFINED"
    <2>1. r = emit_inhibitor_info_to_dialog(t, s.m.action)
      BY <1>1, <1>6 DEF update_inhibitors
    <2> HIDE DEF t
    <2>2. s.m.action \in Actions \ {"UNDEFINED"}
      BY <1>3, <1>6 DEF Manager
    <2>3. s.m.action \in LogoutActions => t.m.phase # "RUNNING"
      BY <1>1 DEF Fine, Fit, Ending
    <2>4. [s.m EXCEPT !.action = s.m.action] = s.m
      BY <1>3 DEF Manager
    <2>5. /\ Fine(r) /\ Grows(t, r) /\ r.d = t.d
          /\ r.m = [t.m EXCEPT !.action = s.m.action]
      BY <1>2, <2>1, <2>2, <2>3, Emits
    <2> QED
      BY <1>1, <2>4, <2>5 DEF Grows
  <1> QED
    BY <1>4, <1>5, <1>6

LEMMA Closes ==
    ASSUME NEW s, Fine(s)
    PROVE  LET r == close_end_session_dialog(s)
           IN  /\ Fine(r) /\ r.m = s.m /\ r.signals = s.signals
               /\ r.inhibitors = s.inhibitors /\ r.system = s.system
               /\ Runs(r.d) <=> Runs(s.d)
               /\ Runs(r.d) => r.d.sigterm
  <1> DEFINE r == close_end_session_dialog(s)
  <1>1. Runs(s.d) \in BOOLEAN
    BY DEF Runs
  <1>2. r = [s EXCEPT !.d.sigterm = Runs(s.d)]
    BY DEF close_end_session_dialog
  <1> HIDE DEF r
  <1>3. /\ r \in Structures /\ r.m = s.m /\ r.signals = s.signals
        /\ r.inhibitors = s.inhibitors /\ r.system = s.system
        /\ r.d.state = s.d.state /\ r.d.view = s.d.view
        /\ r.d.inhibited = s.d.inhibited /\ r.d.response = s.d.response
        /\ (r.d.sigterm <=> Runs(s.d))
    BY <1>1, <1>2 DEF Fine, Fit, Structures, Dialog
  <1>4. Runs(r.d) <=> Runs(s.d)
    BY <1>3 DEF Runs
  <1>5. Fit(r)
    BY <1>3, <1>4 DEF Fine, Fit, Ending, Listing, Closing
  <1>6. Informed(r)
    BY <1>3, <1>4 DEF Informed
  <1> QED
    BY <1>3, <1>4, <1>5, <1>6 DEF Fine, r

-----------------------------------------------------------------------------
(* The end of the session.                                                 *)

\* A structure with another manager.  The dialog is as informed as it was
\* while the action stays, or has been sent away.
LEMMA Manages ==
    ASSUME NEW s, Fine(s), NEW manager \in Manager, NEW r,
           r = [s EXCEPT !.m = manager],
           manager.action = s.m.action \/ (Runs(s.d) => s.d.sigterm),
           Ending(r), Closing(r)
    PROVE  /\ Fine(r) /\ Grows(s, r)
           /\ r.m = manager /\ r.d = s.d /\ r.signals = s.signals
           /\ r.inhibitors = s.inhibitors /\ r.system = s.system
  <1>1. /\ r \in Structures /\ r.m = manager /\ r.d = s.d /\ r.signals = s.signals
        /\ r.inhibitors = s.inhibitors /\ r.system = s.system
    BY DEF Fine, Fit, Structures
  <1>2. manager.action = s.m.action => (Inhibited(r) <=> Inhibited(s))
    BY <1>1 DEF Inhibited, is_inhibited
  <1>3. Informed(r)
    BY <1>1, <1>2 DEF Fine, Informed
  <1>4. Grows(s, r)
    BY <1>1 DEF Fine, Fit, Structures, Grows
  <1> QED
    BY <1>1, <1>3, <1>4 DEF Fine, Fit

\* A structure with another system.
LEMMA Asks ==
    ASSUME NEW s, Fine(s), NEW sys \in System, NEW r, r = [s EXCEPT !.system = sys]
    PROVE  Fine(r) /\ Grows(s, r) /\ r.m = s.m /\ r.d = s.d /\ r.signals = s.signals
  <1>1. /\ r \in Structures /\ r.m = s.m /\ r.d = s.d /\ r.signals = s.signals
        /\ r.inhibitors = s.inhibitors
    BY DEF Fine, Fit, Structures
  <1>2. Inhibited(r) <=> Inhibited(s)
    BY <1>1 DEF Inhibited, is_inhibited
  <1>3. Informed(r)
    BY <1>1, <1>2 DEF Fine, Informed
  <1>4. Grows(s, r)
    BY <1>1 DEF Fine, Fit, Structures, Grows
  <1> QED
    BY <1>1, <1>3, <1>4 DEF Fine, Fit, Ending, Closing

LEMMA Quits ==
    ASSUME NEW s, Fine(s)
    PROVE  LET r == csm_quit(s)
           IN  Fine(r) /\ Grows(s, r) /\ r.signals = s.signals /\ r.d = s.d
  <1> DEFINE manager == [s.m EXCEPT !.phase = "GONE"]
             r == csm_quit(s)
  <1>1. s.m \in Manager /\ s \in Structures
    BY DEF Fine, Fit, Structures
  <1>2. r = [s EXCEPT !.m = manager]
    BY <1>1 DEF csm_quit
  <1>3. /\ manager \in Manager /\ manager.phase = "GONE"
        /\ manager.action = s.m.action
    BY <1>1 DEF Manager
  <1> HIDE DEF manager, r
  <1>4. r.m = manager
    BY <1>1, <1>2 DEF Structures
  <1>5. Ending(r) /\ Closing(r)
    BY <1>3, <1>4 DEF Ending, Closing
  <1> QED
    BY <1>2, <1>3, <1>5, Manages DEF r

LEMMA LeavesOrAsks ==
    ASSUME NEW s, Fine(s), s.m.type # "NONE"
    PROVE  Fine(csm_manager_quit(s)) /\ Grows(s, csm_manager_quit(s))
  <1> DEFINE nobody == [x \in Inhibitors |-> {}]
             t == update_inhibitors(s, nobody)
             r == csm_manager_quit(s)
  <1>1. nobody \in [Inhibitors -> Flags \cup {{}}]
    OBVIOUS
  <1> HIDE DEF nobody
  <1>2. Fine(t) /\ Grows(s, t) /\ t.m = s.m
    BY <1>1, Updates
  <1>3. t.m.type \in {"LOGOUT", "REBOOT_INTERACT", "SHUTDOWN_INTERACT"}
    BY <1>2 DEF Fine, Fit, Structures, Manager, LogoutTypes
  <1>4. \/ r = csm_quit(t)
        \/ \E what \in {"restart", "stop"} : r = ask_system(t, what)
    BY <1>3 DEF csm_manager_quit, nobody
  <1> HIDE DEF t, r
  <1>5. ASSUME NEW what \in {"restart", "stop"}, r = ask_system(t, what)
        PROVE  Fine(r) /\ r.signals = t.signals
    <2> DEFINE sys == [t.system EXCEPT !.calls = @ \cup {what}]
    <2>1. t \in Structures
      BY <1>2 DEF Fine, Fit
    <2>2. sys \in System /\ r = [t EXCEPT !.system = sys]
      BY <1>5, <2>1 DEF ask_system, Structures, System
    <2> HIDE DEF sys
    <2>3. Fine(r)
      BY <1>2, <2>2, Asks
    <2> QED
      BY <2>1, <2>2, <2>3 DEF Structures
  <1>6. Fine(r) /\ r.signals = t.signals
    BY <1>2, <1>4, <1>5, Quits
  <1> QED
    BY <1>2, <1>6 DEF Grows, r

LEMMA PhaseEnds ==
    ASSUME NEW s, Fine(s), s.m.type # "NONE", s.m.phase # "GONE"
    PROVE  Fine(end_phase(s)) /\ Grows(s, end_phase(s))
  <1> DEFINE r == end_phase(s)
  <1>1. s \in Structures /\ s.m \in Manager
    BY DEF Fine, Fit, Structures
  <1>2. s.m.phase \in {"RUNNING", "QUERY_END_SESSION", "END_SESSION", "EXIT"}
    BY <1>1 DEF Manager
  <1>3. CASE s.m.phase = "RUNNING"
    <2> DEFINE manager == [s.m EXCEPT !.phase = "QUERY_END_SESSION", !.timer = TRUE]
    <2>1. r = [s EXCEPT !.m = manager]
      BY <1>1, <1>3 DEF end_phase, Structures
    <2>2. /\ manager \in Manager /\ manager.phase = "QUERY_END_SESSION"
          /\ manager.action = s.m.action /\ manager.type = s.m.type
      BY <1>1 DEF Manager
    <2> HIDE DEF manager, r
    <2>3. r.m = manager
      BY <1>1, <2>1 DEF Structures
    <2>4. Ending(r) /\ Closing(r)
      BY <2>2, <2>3 DEF Ending, Closing
    <2> QED
      BY <2>1, <2>2, <2>4, Manages DEF r
  <1>4. CASE s.m.phase = "QUERY_END_SESSION"
    <2> DEFINE manager == [s.m EXCEPT !.phase = "END_SESSION", !.timer = FALSE]
               t == [s EXCEPT !.m = manager]
               closed == close_end_session_dialog(s)
    <2>1. r = close_end_session_dialog(t)
      BY <1>1, <1>4 DEF end_phase, do_phase_end_session, Structures
    <2>2. r = [closed EXCEPT !.m = manager]
      BY <1>1, <2>1 DEF close_end_session_dialog, Structures
    <2>3. /\ Fine(closed) /\ closed.m = s.m /\ closed.signals = s.signals
          /\ Runs(closed.d) => closed.d.sigterm
      BY Closes
    <2>4. /\ manager \in Manager /\ manager.phase = "END_SESSION"
          /\ manager.timer = FALSE
          /\ manager.action = s.m.action /\ manager.type = s.m.type
      BY <1>1 DEF Manager
    <2> HIDE DEF manager, t, closed, r
    <2>5. r.m = manager /\ r.d = closed.d
      BY <2>2, <2>3 DEF Fine, Fit, Structures
    <2>6. Ending(r) /\ Closing(r)
      BY <2>3, <2>4, <2>5 DEF Ending, Closing
    <2>7. Fine(r) /\ Grows(closed, r)
      BY <2>2, <2>3, <2>4, <2>6, Manages
    <2> QED
      BY <2>3, <2>7 DEF Grows, r
  <1>5. CASE s.m.phase = "END_SESSION"
    <2> DEFINE manager == [s.m EXCEPT !.phase = "EXIT"]
               t == [s EXCEPT !.m = manager]
    <2>1. r = csm_manager_quit(t)
      BY <1>1, <1>5 DEF end_phase, do_phase_exit, Structures
    <2>2. /\ manager \in Manager /\ manager.phase = "EXIT"
          /\ manager.action = s.m.action /\ manager.type = s.m.type
          /\ (manager.timer <=> s.m.timer)
      BY <1>1 DEF Manager
    <2>3. t.m = manager /\ t.d = s.d
      BY <1>1 DEF Structures
    <2>4. ~s.m.timer /\ (Runs(s.d) => s.d.sigterm)
      BY <1>5 DEF Fine, Fit, Ending, Closing
    <2> HIDE DEF manager, r
    <2>5. Ending(t) /\ Closing(t)
      BY <2>2, <2>3, <2>4 DEF Ending, Closing
    <2>6. Fine(t) /\ t.signals = s.signals
      BY <2>2, <2>5, Manages
    <2>7. Fine(r) /\ Grows(t, r)
      BY <2>1, <2>2, <2>3, <2>6, LeavesOrAsks
    <2> QED
      BY <2>6, <2>7 DEF Grows, r
  <1>6. CASE s.m.phase = "EXIT"
    BY <1>6, LeavesOrAsks DEF end_phase
  <1> QED
    BY <1>2, <1>3, <1>4, <1>5, <1>6

LEMMA Cancels ==
    ASSUME NEW s, Fine(s)
    PROVE  LET r == cancel_end_session(s)
           IN  Fine(r) /\ Grows(s, r) /\ r.signals = s.signals
  <1> DEFINE r == cancel_end_session(s)
  <1>1. CASE s.m.phase = "RUNNING"
    BY <1>1 DEF cancel_end_session, Grows, Fine, Fit, Structures
  <1>2. CASE s.m.phase # "RUNNING"
    <2> DEFINE manager == [ phase |-> "RUNNING", type |-> "NONE", force |-> FALSE,
                            action |-> "UNDEFINED", timer |-> FALSE ]
               closed == close_end_session_dialog(s)
    <2>1. r = [closed EXCEPT !.m = manager]
      BY <1>2 DEF cancel_end_session
    <2>2. /\ Fine(closed) /\ closed.m = s.m /\ closed.signals = s.signals
          /\ Runs(closed.d) => closed.d.sigterm
      BY Closes
    <2>3. /\ manager \in Manager /\ manager.phase = "RUNNING"
          /\ manager.timer = FALSE /\ manager.action = "UNDEFINED"
      BY DEF Manager, LogoutTypes, Actions
    <2> HIDE DEF manager, closed, r
    <2>4. r.m = manager
      BY <2>1, <2>2 DEF Fine, Fit, Structures
    <2>5. Ending(r) /\ Closing(r)
      BY <2>3, <2>4 DEF Ending, Closing, LogoutActions
    <2>6. Fine(r) /\ r.signals = closed.signals /\ Grows(closed, r)
      BY <2>1, <2>2, <2>3, <2>5, Manages
    <2> QED
      BY <2>2, <2>6 DEF Grows, r
  <1> QED
    BY <1>1, <1>2

\* The query is over: the end goes on, or the dialog is told who inhibits it.
LEMMA QueryEnds ==
    ASSUME NEW s, Fine(s), s.m.timer, s.m.phase # "GONE"
    PROVE  LET r == query_end_session_complete(s)
           IN  Fine(r) /\ Grows(s, r)
  <1> DEFINE manager == [s.m EXCEPT !.timer = FALSE]
             t == [s EXCEPT !.m = manager]
             r == query_end_session_complete(s)
  <1>1. s \in Structures /\ s.m \in Manager
    BY DEF Fine, Fit, Structures
  <1>2. r = end_session_or_report_inhibitors(t)
    BY <1>1 DEF query_end_session_complete, Structures
  <1>3. s.m.phase = "QUERY_END_SESSION" /\ s.m.type # "NONE"
    BY DEF Fine, Fit, Ending
  <1>4. /\ manager \in Manager /\ manager.phase = s.m.phase /\ manager.type = s.m.type
        /\ manager.action = s.m.action /\ manager.timer = FALSE
    BY <1>1 DEF Manager
  <1>5. t.m = manager
    BY <1>1 DEF Structures
  <1> HIDE DEF manager
  <1>6. Ending(t) /\ Closing(t)
    BY <1>3, <1>4, <1>5 DEF Ending, Closing
  <1>7. Fine(t) /\ t.signals = s.signals
    BY <1>4, <1>6, Manages
  <1> HIDE DEF t, r
  <1>8. CASE ~csm_manager_is_logout_inhibited(t)
    <2>1. r = end_phase(t)
      BY <1>2, <1>8 DEF end_session_or_report_inhibitors
    <2>2. Fine(r) /\ Grows(t, r)
      BY <1>3, <1>4, <1>5, <1>7, <2>1, PhaseEnds
    <2> QED
      BY <1>7, <2>2 DEF Grows, r
  <1>9. CASE csm_manager_is_logout_inhibited(t)
    <2>1. t.m.type \in {"LOGOUT", "REBOOT_INTERACT", "SHUTDOWN_INTERACT"}
      BY <1>1, <1>3, <1>4, <1>5 DEF Manager, LogoutTypes
    <2>2. PICK action \in LogoutActions : r = emit_inhibitor_info_to_dialog(t, action)
      BY <1>2, <1>9, <2>1 DEF end_session_or_report_inhibitors, LogoutActions
    <2>3. action \in Actions \ {"UNDEFINED"} /\ t.m.phase # "RUNNING"
      BY <1>3, <1>4, <1>5 DEF LogoutActions, Actions
    <2>4. Fine(r) /\ Grows(t, r)
      BY <1>7, <2>2, <2>3, Emits DEF Fine
    <2> QED
      BY <1>7, <2>4 DEF Grows, r
  <1> QED
    BY <1>8, <1>9

-----------------------------------------------------------------------------
(* What the dialog asks for.                                               *)

LEMMA Suspends ==
    ASSUME NEW s, Fine(s)
    PROVE  Fine(manager_attempt_suspend(s)) /\ Grows(s, manager_attempt_suspend(s))
  <1> DEFINE closed == close_end_session_dialog(s)
             r == manager_attempt_suspend(s)
  <1>1. Fine(closed) /\ closed.signals = s.signals
    BY Closes
  <1>2. r = closed \/ r = csm_quit(closed)
    BY DEF manager_attempt_suspend
  <1> HIDE DEF closed, r
  <1>3. Fine(r) /\ Grows(closed, r)
    BY <1>1, <1>2, Quits DEF Grows, Fine, Fit, Structures
  <1> QED
    BY <1>1, <1>3 DEF Grows, r

LEMMA JustCloses ==
    ASSUME NEW s, Fine(s)
    PROVE  Fine(close_end_session_dialog(s)) /\ Grows(s, close_end_session_dialog(s))
  <1> DEFINE r == close_end_session_dialog(s)
  <1>1. Fine(r) /\ r.signals = s.signals
    BY Closes
  <1> QED
    BY <1>1 DEF Grows, Fine, Fit, Structures

\* A request of the bus or of the dialog begins or takes on the end.
LEMMA Begins ==
    ASSUME NEW s, Fine(s), s.m.phase # "GONE",
           NEW type \in LogoutTypes \ {"NONE"}, NEW force \in BOOLEAN
    PROVE  LET t == [s EXCEPT !.m = [s.m EXCEPT !.type = type, !.force = force]]
           IN  Fine(end_phase(t)) /\ Grows(s, end_phase(t))
  <1> DEFINE manager == [s.m EXCEPT !.type = type, !.force = force]
             t == [s EXCEPT !.m = manager]
  <1>1. s \in Structures /\ s.m \in Manager
    BY DEF Fine, Fit, Structures
  <1>2. /\ manager \in Manager /\ manager.phase = s.m.phase /\ manager.type = type
        /\ manager.action = s.m.action /\ (manager.timer <=> s.m.timer)
    BY <1>1 DEF Manager
  <1>3. t.m = manager /\ t.d = s.d
    BY <1>1 DEF Structures
  <1> HIDE DEF manager
  <1>4. Ending(t) /\ Closing(t)
    BY <1>2, <1>3 DEF Fine, Fit, Ending, Closing
  <1>5. Fine(t) /\ t.signals = s.signals
    BY <1>2, <1>3, <1>4, Manages
  <1> HIDE DEF t
  <1>6. Fine(end_phase(t)) /\ Grows(t, end_phase(t))
    BY <1>2, <1>3, <1>5, PhaseEnds
  <1> QED
    BY <1>5, <1>6 DEF Grows, t, manager

\* "Continue anyway", once the dialog was closed.
LEMMA Insists ==
    ASSUME NEW s, Fine(s), s.m.phase # "GONE"
    PROVE  LET r == do_inhibit_dialog_action(s)
           IN  Fine(r) /\ Grows(s, r)
  <1> DEFINE r == do_inhibit_dialog_action(s)
  <1>1. s \in Structures /\ s.m \in Manager
    BY DEF Fine, Fit, Structures
  <1>2. s.m.action \in Actions
    BY <1>1 DEF Manager
  <1>3. CASE s.m.action \in {"SWITCH_USER", "HIBERNATE"}
    BY <1>3, JustCloses DEF do_inhibit_dialog_action, manager_switch_user,
       manager_attempt_hibernate
  <1>4. CASE s.m.action = "SLEEP"
    BY <1>4, Suspends DEF do_inhibit_dialog_action
  <1>5. CASE s.m.action = "UNDEFINED"
    BY <1>5, Quits DEF do_inhibit_dialog_action
  <1>6. CASE s.m.action \in LogoutActions
    <2>1. s.m.phase \in {"QUERY_END_SESSION", "END_SESSION", "EXIT"}
      BY <1>1, <1>6 DEF Fine, Fit, Ending, Manager
    <2>2. s.m.type \in LogoutTypes \ {"NONE"}
      BY <1>1, <2>1 DEF Fine, Fit, Ending, Manager
    <2> DEFINE t == [s EXCEPT !.m = [s.m EXCEPT !.type = s.m.type, !.force = TRUE]]
    <2>3. r = end_phase([s EXCEPT !.m.force = TRUE])
      BY <1>6 DEF do_inhibit_dialog_action, LogoutActions
    <2>4. [s EXCEPT !.m.force = TRUE] = t
      BY <1>1 DEF Structures, Manager
    <2> HIDE DEF t
    <2>5. Fine(end_phase(t)) /\ Grows(s, end_phase(t))
      BY <2>1, <2>2, Begins DEF t
    <2> QED
      BY <2>3, <2>4, <2>5
  <1> QED
    BY <1>2, <1>3, <1>4, <1>5, <1>6 DEF Actions, LogoutActions

LEMMA Called ==
    ASSUME NEW s, Fine(s), s.m.phase # "GONE", NEW method \in Commands
    PROVE  LET r == handle_dialog_method_call(s, method)
           IN  Fine(r) /\ Grows(s, r)
  <1> DEFINE r == handle_dialog_method_call(s, method)
  <1>1. s \in Structures /\ s.m \in Manager
    BY DEF Fine, Fit, Structures
  <1>2. ASSUME NEW action \in {"SLEEP", "HIBERNATE", "SWITCH_USER"}
        PROVE  LET told == emit_inhibitor_info_to_dialog(s, action)
               IN  Fine(told) /\ Grows(s, told)
    <2>1. action \in Actions \ {"UNDEFINED"} /\ action \notin LogoutActions
      BY DEF Actions, LogoutActions
    <2> QED
      BY <2>1, Emits DEF Fine
  <1>3. CASE method = "Suspend"
    BY <1>2, <1>3, Suspends DEF handle_dialog_method_call, request_suspend
  <1>4. CASE method = "Hibernate"
    BY <1>2, <1>4, JustCloses DEF handle_dialog_method_call, request_hibernate,
       manager_attempt_hibernate
  <1>5. CASE method = "SwitchUser"
    BY <1>2, <1>5, JustCloses DEF handle_dialog_method_call, request_switch_user,
       manager_switch_user
  <1>6. ASSUME NEW type \in {"REBOOT_INTERACT", "SHUTDOWN_INTERACT"},
               r = end_phase([s EXCEPT !.m.type = type])
        PROVE  Fine(r) /\ Grows(s, r)
    <2> DEFINE t == [s EXCEPT !.m = [s.m EXCEPT !.type = type, !.force = s.m.force]]
    <2>1. [s EXCEPT !.m.type = type] = t
      BY <1>1 DEF Structures, Manager
    <2>2. type \in LogoutTypes \ {"NONE"} /\ s.m.force \in BOOLEAN
      BY <1>1 DEF LogoutTypes, Manager
    <2> HIDE DEF t, r
    <2>3. Fine(end_phase(t)) /\ Grows(s, end_phase(t))
      BY <2>2, Begins DEF t
    <2> QED
      BY <1>6, <2>1, <2>3
  <1>7. CASE method = "Restart"
    BY <1>6, <1>7 DEF handle_dialog_method_call, request_reboot
  <1>8. CASE method = "Shutdown"
    BY <1>6, <1>8 DEF handle_dialog_method_call, request_shutdown
  <1>9. CASE method = "Logout"
    <2> DEFINE t == [s EXCEPT !.m = [s.m EXCEPT !.type = "LOGOUT", !.force = FALSE]]
    <2>1. r = end_phase(t)
      BY <1>1, <1>9 DEF handle_dialog_method_call, request_logout, Structures
    <2>2. "LOGOUT" \in LogoutTypes \ {"NONE"}
      BY DEF LogoutTypes
    <2> HIDE DEF t, r
    <2>3. Fine(end_phase(t)) /\ Grows(s, end_phase(t))
      BY <2>2, Begins DEF t
    <2> QED
      BY <2>1, <2>3 DEF r
  <1>10. CASE method = "Cancel"
    <2> DEFINE t == IF s.m.action # "UNDEFINED" THEN cancel_end_session(s) ELSE s
    <2>1. r = close_end_session_dialog(t)
      BY <1>10 DEF handle_dialog_method_call
    <2>2. Fine(t) /\ t.signals = s.signals
      BY Cancels
    <2> HIDE DEF t, r
    <2>3. Fine(r) /\ Grows(t, r)
      BY <2>1, <2>2, JustCloses
    <2> QED
      BY <2>2, <2>3 DEF Grows, r
  <1>11. CASE method = "IgnoreInhibitors"
    <2> DEFINE closed == close_end_session_dialog(s)
    <2>1. r = do_inhibit_dialog_action(closed)
      BY <1>11 DEF handle_dialog_method_call
    <2>2. Fine(closed) /\ closed.m = s.m /\ closed.signals = s.signals
      BY Closes
    <2> HIDE DEF closed, r
    <2>3. Fine(r) /\ Grows(closed, r)
      BY <2>1, <2>2, Insists
    <2> QED
      BY <2>2, <2>3 DEF Grows, r
  <1> QED
    BY <1>3, <1>4, <1>5, <1>7, <1>8, <1>9, <1>10, <1>11 DEF Commands, Choices

-----------------------------------------------------------------------------
(* The dialog's process.                                                   *)

\* The process goes on as it was, but for its window, or it ends.
GoesOn(w, v) ==
    /\ v \in Dialog /\ Listing(v)
    /\ Runs(v) => Runs(w) /\ v.sigterm = w.sigterm

LEMMA Gone ==
    /\ NoDialog \in Dialog /\ Listing(NoDialog) /\ ~Runs(NoDialog)
    /\ \A w : quit(w) \in Dialog /\ Listing(quit(w)) /\ ~Runs(quit(w))
  <1>1. NoDialog \in Dialog /\ Listing(NoDialog) /\ ~Runs(NoDialog)
    BY DEF NoDialog, Dialog, DialogStates, Modes, Listing, Runs
  <1>2. ASSUME NEW w
        PROVE  quit(w) \in Dialog /\ Listing(quit(w)) /\ ~Runs(quit(w))
    BY DEF quit, NoDialog, Dialog, DialogStates, Modes, Listing, Runs
  <1> QED
    BY <1>1, <1>2

LEMMA Responds ==
    ASSUME NEW w \in Dialog, NEW code,
           code \in {"Cancel"} \cup Choices \/ (code = "IgnoreInhibitors" /\ w.inhibited)
    PROVE  LET r == handle_response(w, code)
           IN  /\ GoesOn(w, r.d) /\ r.calls \in Seq(Commands)
               /\ r.d.view # "inhibit"
               /\ code # "Cancel" => r.d.state = w.state /\ r.d.sigterm = w.sigterm
  <1> DEFINE b == [w EXCEPT !.view = "busy"]
             r == handle_response(w, code)
  <1>1. w.inhibited \in BOOLEAN
    BY DEF Dialog
  <1>2. /\ "Cancel" \notin Choices /\ "IgnoreInhibitors" \notin Choices
        /\ "Cancel" \in Commands /\ "IgnoreInhibitors" \in Commands
        /\ Choices \subseteq Commands
    BY DEF Choices, Commands
  <1>3. CASE code = "Cancel"
    <2>1. r = [d |-> quit(b), calls |-> <<"Cancel">>]
      BY <1>2, <1>3 DEF handle_response
    <2>2. quit(b).view = "prompt"
      BY DEF quit, NoDialog
    <2>3. <<"Cancel">> \in Seq(Commands)
      BY <1>2
    <2> HIDE DEF b, r
    <2>4. r.d = quit(b) /\ r.calls = <<"Cancel">>
      BY <2>1
    <2> QED
      BY <1>3, <2>2, <2>3, <2>4, Gone DEF GoesOn, r
  <1>4. CASE code = "IgnoreInhibitors" /\ w.inhibited
    <2>1. r = [d |-> finish_up(b), calls |-> <<"IgnoreInhibitors">>]
      BY <1>2, <1>4 DEF handle_response
    <2>2. /\ finish_up(b) \in Dialog /\ finish_up(b).view = "busy"
          /\ finish_up(b).state = w.state /\ finish_up(b).sigterm = w.sigterm
      BY DEF finish_up, Dialog
    <2> QED
      BY <1>2, <2>1, <2>2 DEF GoesOn, Listing, Runs
  <1>5. CASE code \in Choices
    <2>1. PICK c \in {<<>>, <<code>>} :
              \/ r = [d |-> b, calls |-> c]
              \/ r = [d |-> [b EXCEPT !.response = code], calls |-> c]
      BY <1>1, <1>2, <1>5 DEF handle_response, Just
    <2>2. /\ b \in Dialog /\ b.view = "busy"
          /\ b.state = w.state /\ b.sigterm = w.sigterm
      BY DEF Dialog
    <2> DEFINE e == [b EXCEPT !.response = code]
    <2>3. /\ e \in Dialog /\ e.view = "busy"
          /\ e.state = w.state /\ e.sigterm = w.sigterm
      BY <1>5 DEF Dialog
    <2>4. c \in Seq(Commands)
      <3>1. code \in Commands
        BY <1>2, <1>5
      <3>2. << >> \in Seq(Commands) /\ <<code>> \in Seq(Commands)
        BY <3>1
      <3> QED
        BY <3>2
    <2> HIDE DEF b, e, r
    <2>5. r.calls = c /\ r.d \in Dialog /\ r.d.view = "busy"
          /\ r.d.state = w.state /\ r.d.sigterm = w.sigterm
      <3>1. r = [d |-> b, calls |-> c] \/ r = [d |-> e, calls |-> c]
        BY <2>1 DEF e
      <3> QED
        BY <2>2, <2>3, <3>1
    <2> QED
      BY <2>4, <2>5 DEF GoesOn, Listing, Runs, r
  <1> QED
    BY <1>3, <1>4, <1>5

LEMMA InfoTaken ==
    ASSUME NEW w \in Dialog, Listing(w), NEW some \in BOOLEAN
    PROVE  LET r == inhibitor_info_received(w, some)
           IN  /\ GoesOn(w, r.d) /\ r.calls \in Seq(Commands)
               /\ r.d.view = "inhibit" => some
               /\ r.d.state = w.state
  <1> DEFINE r == inhibitor_info_received(w, some)
  <1>0. Runs(w) \in BOOLEAN /\ << >> \in Seq(Commands)
    BY DEF Runs
  <1>1. CASE w.response = "NONE"
    BY <1>0, <1>1 DEF inhibitor_info_received, Just, GoesOn, Listing
  <1>2. CASE w.response # "NONE" /\ some
    <2> DEFINE e == [w EXCEPT !.inhibited = TRUE, !.view = "inhibit"]
    <2>1. r = [d |-> e, calls |-> << >>]
      BY <1>2 DEF inhibitor_info_received, Just
    <2>2. /\ e \in Dialog /\ e.inhibited /\ e.response = w.response
          /\ e.state = w.state /\ e.sigterm = w.sigterm
      BY DEF Dialog
    <2> HIDE DEF e, r
    <2>3. r.d = e /\ r.calls = << >>
      BY <2>1
    <2>4. GoesOn(w, e)
      BY <1>2, <2>2 DEF GoesOn, Listing, Runs
    <2> QED
      BY <1>0, <1>2, <2>2, <2>3, <2>4 DEF r
  <1>3. CASE w.response # "NONE" /\ ~some /\ w.inhibited
    <2>1. r = handle_response(w, "IgnoreInhibitors")
      BY <1>3 DEF inhibitor_info_received
    <2> QED
      BY <1>3, <2>1, Responds
  <1>4. CASE w.response # "NONE" /\ ~some /\ ~w.inhibited
    BY <1>0, <1>4 DEF inhibitor_info_received, Just, GoesOn, Listing
  <1> QED
    BY <1>1, <1>2, <1>3, <1>4

LEMMA Shows ==
    ASSUME NEW w \in Dialog, w.state = "starting", Listing(w),
           NEW offered \in SUBSET Choices, NEW timed \in BOOLEAN
    PROVE  LET v == run_dialog(w, offered, timed)
           IN  GoesOn(w, v) /\ Runs(v) /\ v.view = w.view
  <1> DEFINE v == run_dialog(w, offered, timed)
             some == offered \cap Buttons(w.mode)
  <1>1. some \in SUBSET Choices
    OBVIOUS
  <1>2. \/ v = [w EXCEPT !.state = "hidden"]
        \/ v = [w EXCEPT !.state = "shown", !.countdown = timed, !.offered = some]
    BY DEF run_dialog
  <1> HIDE DEF some, v
  <1>3. /\ v \in Dialog /\ v.state \in {"hidden", "shown"} /\ v.view = w.view
        /\ v.inhibited = w.inhibited /\ v.response = w.response
        /\ v.sigterm = w.sigterm
    BY <1>1, <1>2 DEF Dialog, DialogStates
  <1> QED
    BY <1>3 DEF GoesOn, Listing, Runs, v

-----------------------------------------------------------------------------
(* The invariant.                                                          *)

Inv ==
    /\ Fine(Now)
    /\ Len(signals) <= MaxMessages
    /\ signals # << >> => Runs(d)
    /\ calls \in Seq(Commands) /\ Len(calls) <= MaxMessages

LEMMA Bound ==
    MaxMessages \in Nat /\ 1 < MaxMessages
  <1>1. MaxMessages \in Nat \ {0, 1}
    BY QuitDialogAssumption, Zenon
  <1> QED
    BY <1>1

LEMMA InitInv ==
    ASSUME Init
    PROVE  Inv
  <1>0. m \in Manager
    BY DEF Init, Manager, LogoutTypes, Actions
  <1>1. system \in System
    <2>1. PICK b \in Backends, h \in BOOLEAN :
              system = [backend |-> b, hybrid |-> h, calls |-> {}, down |-> FALSE]
      BY DEF Init
    <2> QED
      BY <2>1 DEF System
  <1>2. d \in Dialog /\ Listing(d) /\ ~Runs(d)
    BY Gone DEF Init
  <1>3. inhibitors \in [Inhibitors -> Flags \cup {{}}]
    BY DEF Init
  <1>4. signals = << >> /\ calls = << >> /\ signals \in Seq(BOOLEAN) /\ calls \in Seq(Commands)
    BY DEF Init
  <1>5. Now \in Structures
    BY <1>0, <1>1, <1>2, <1>3, <1>4 DEF Now, Structures
  <1>6. Ending(Now) /\ Closing(Now) /\ Informed(Now)
    BY <1>2 DEF Init, Now, Ending, Closing, Informed, LogoutActions
  <1>7. Len(signals) <= MaxMessages /\ Len(calls) <= MaxMessages
    BY <1>4, Bound
  <1> QED
    BY <1>2, <1>4, <1>5, <1>6, <1>7 DEF Inv, Fine, Fit, Now

LEMMA Handled ==
    ASSUME Inv, NEW s, Fine(s), Len(s.signals) <= MaxMessages, Handle(s),
           calls' \in Seq(Commands), Len(calls') <= MaxMessages
    PROVE  Inv'
  <1> DEFINE t == [m |-> s.m, d |-> s.d, signals |-> signals',
                   inhibitors |-> s.inhibitors, system |-> s.system]
  <1>1. s \in Structures
    BY DEF Fine, Fit
  <1>2. /\ m' = s.m /\ d' = s.d /\ inhibitors' = s.inhibitors /\ system' = s.system
        /\ signals' = IF Runs(s.d) THEN s.signals ELSE << >>
    BY DEF Handle
  <1>3. Now' = t
    BY <1>2 DEF Now
  <1>4. t \in Structures
    <2>1. << >> \in Seq(BOOLEAN)
      OBVIOUS
    <2>2. signals' \in Seq(BOOLEAN)
      BY <1>1, <1>2, <2>1 DEF Structures
    <2> QED
      BY <1>1, <2>2 DEF Structures
  <1>5. Ending(t) /\ Listing(t.d) /\ Closing(t)
    BY DEF Fine, Fit, Ending, Closing
  <1>6. Informed(t)
    <2>1. Inhibited(t) <=> Inhibited(s)
      BY DEF Inhibited, is_inhibited
    <2>2. t.d = s.d /\ t.m = s.m /\ t.signals = signals'
      OBVIOUS
    <2> HIDE DEF t
    <2> QED
      BY <1>2, <2>1, <2>2 DEF Fine, Informed
  <1>7. Fine(Now)'
    BY <1>3, <1>4, <1>5, <1>6 DEF Fine, Fit, Ending, Listing, Closing, Informed,
       Inhibited, is_inhibited, Now
  <1>8. Len(signals') <= MaxMessages /\ (signals' # << >> => Runs(d)')
    BY <1>2, Bound DEF Runs
  <1> QED
    BY <1>7, <1>8 DEF Inv

ListsIf(w, some) == w.view = "inhibit" => some

LEMMA Parts ==
    ASSUME Inv
    PROVE  /\ m \in Manager /\ d \in Dialog /\ system \in System
           /\ inhibitors \in [Inhibitors -> Flags \cup {{}}]
           /\ signals \in Seq(BOOLEAN) /\ Len(signals) <= MaxMessages
           /\ Len(signals) \in Nat /\ Listing(d)
  <1>1. Now \in Structures /\ Listing(Now.d) /\ Len(signals) <= MaxMessages
    BY DEF Inv, Fine, Fit
  <1>2. /\ Now.m = m /\ Now.d = d /\ Now.signals = signals
        /\ Now.inhibitors = inhibitors /\ Now.system = system
    BY DEF Now
  <1> HIDE DEF Inv
  <1> QED
    BY <1>1, <1>2 DEF Structures

LEMMA Taken ==
    ASSUME NEW q \in Seq(BOOLEAN), q # << >>
    PROVE  /\ Tail(q) \in Seq(BOOLEAN) /\ Len(Tail(q)) = Len(q) - 1
           /\ Tail(q) # << >> => Tail(q)[Len(Tail(q))] = q[Len(q)]
           /\ Tail(q) = << >> => Head(q) = q[Len(q)]
  <1>1. Tail(q) \in Seq(BOOLEAN) /\ Len(Tail(q)) = Len(q) - 1 /\ Len(q) \in Nat \ {0}
    OBVIOUS
  <1>2. Tail(q) # << >> => Len(q) # 1
    BY <1>1
  <1>3. Tail(q) = << >> => Len(q) = 1
    <2>1. Len(q) # 1 => Len(Tail(q)) # 0
      BY <1>1
    <2>2. Len(<< >>) = 0
      OBVIOUS
    <2> QED
      BY <2>1, <2>2, Zenon
  <1> QED
    BY <1>1, <1>2, <1>3

\* The dialog's process goes on, with the signals it had or all but the one it
\* has taken, or it ends.
LEMMA WindowMoves ==
    ASSUME Inv, GoesOn(d, d'), UNCHANGED <<m, inhibitors, system>>,
           calls' \in Seq(Commands), Len(calls') <= MaxMessages,
           \/ signals' = << >>  /\ ~Runs(d')
           \/ /\ signals' = signals /\ (d'.view = "inhibit" => d.view = "inhibit")
              /\ signals = << >> \/ Runs(d')
           \/ /\ signals # << >> /\ signals' = Tail(signals)
              /\ Runs(d') /\ ListsIf(d', Head(signals))
    PROVE  Inv'
  <1>1. /\ Now.m = m /\ Now.d = d /\ Now.signals = signals
        /\ Now.inhibitors = inhibitors /\ Now.system = system
        /\ Now'.m = m' /\ Now'.d = d' /\ Now'.signals = signals'
        /\ Now'.inhibitors = inhibitors' /\ Now'.system = system'
    BY DEF Now
  <1>2. /\ signals \in Seq(BOOLEAN) /\ Len(signals) <= MaxMessages /\ Len(signals) \in Nat
        /\ m \in Manager /\ inhibitors \in [Inhibitors -> Flags \cup {{}}]
        /\ system \in System
    BY Parts
  <1>3. signals' \in Seq(BOOLEAN) /\ Len(signals') <= Len(signals) /\ Len(signals') \in Nat
    <2>1. << >> \in Seq(BOOLEAN) /\ Len(<< >>) = 0
      OBVIOUS
    <2>2. signals # << >> => /\ Tail(signals) \in Seq(BOOLEAN)
                             /\ Len(Tail(signals)) = Len(signals) - 1
      BY <1>2, Taken
    <2>3. CASE signals' = << >>
      BY <1>2, <2>1, <2>3
    <2>4. CASE signals' = signals
      BY <1>2, <2>4
    <2>5. CASE signals # << >> /\ signals' = Tail(signals)
      <3>1. signals' \in Seq(BOOLEAN) /\ Len(signals') = Len(signals) - 1
        BY <2>2, <2>5
      <3>2. Len(signals') \in Nat
        BY <3>1
      <3> QED
        BY <1>2, <3>1, <3>2
    <2> QED
      BY <2>3, <2>4, <2>5
  <1>4. Now' \in Structures
    BY <1>2, <1>3 DEF GoesOn, Structures, Now
  <1>5. Ending(Now)' /\ Listing(d') /\ Closing(Now)'
    BY <1>1 DEF Inv, Fine, Fit, Ending, Closing, GoesOn
  <1>6. Inhibited(Now)' <=> Inhibited(Now)
    BY DEF Inhibited, is_inhibited, Now
  <1>7. Informed(Now)'
    <2> SUFFICES ASSUME Runs(d'), ~d'.sigterm
                 PROVE  /\ signals' # << >> =>
                             /\ m'.action # "UNDEFINED"
                             /\ signals'[Len(signals')] <=> Inhibited(Now)'
                        /\ signals' = << >> /\ d'.view = "inhibit" =>
                             m'.action # "UNDEFINED" /\ Inhibited(Now)'
      BY DEF Informed, Now
    <2>1. /\ signals # << >> =>
               m.action # "UNDEFINED" /\ (signals[Len(signals)] <=> Inhibited(Now))
          /\ signals = << >> /\ d.view = "inhibit" =>
               m.action # "UNDEFINED" /\ Inhibited(Now)
      BY <1>1 DEF GoesOn, Inv, Fine, Informed
    <2>2. CASE signals' = signals /\ (d'.view = "inhibit" => d.view = "inhibit")
      BY <1>6, <2>1, <2>2
    <2>3. CASE signals # << >> /\ signals' = Tail(signals) /\ ListsIf(d', Head(signals))
      <3>1. signals' # << >> => signals'[Len(signals')] = signals[Len(signals)]
        BY <1>2, <2>3, Taken
      <3>2. signals' = << >> => Head(signals) = signals[Len(signals)]
        BY <1>2, <2>3, Taken
      <3> QED
        BY <1>6, <2>1, <2>3, <3>1, <3>2 DEF ListsIf
    <2> QED
      BY <2>2, <2>3
  <1>8. Fine(Now)'
    BY <1>1, <1>4, <1>5, <1>7 DEF Fine, Fit
  <1>9. Len(signals') <= MaxMessages
    BY <1>2, <1>3, Bound
  <1>10. signals' # << >> => Runs(d')
    OBVIOUS
  <1> QED
    BY <1>8, <1>9, <1>10 DEF Inv, Runs

LEMMA NowFields ==
    /\ Now.m = m /\ Now.d = d /\ Now.signals = signals
    /\ Now.inhibitors = inhibitors /\ Now.system = system
  BY DEF Now

\* A handler with room for the one signal it may emit.
LEMMA HandledWithRoom ==
    ASSUME Inv, Room, NEW s, Fine(s), Grows(Now, s), Handle(s),
           UNCHANGED calls \/ (calls # << >> /\ calls' = Tail(calls))
    PROVE  Inv'
  <1>1. calls \in Seq(Commands) /\ Len(calls) <= MaxMessages
    BY DEF Inv
  <1>2. calls' \in Seq(Commands) /\ Len(calls') <= MaxMessages
    BY <1>1, Bound
  <1>3. Len(s.signals) <= Len(signals) + 1
    BY NowFields DEF Grows
  <1>4. s.signals \in Seq(BOOLEAN)
    BY DEF Fine, Fit, Structures
  <1>5. Len(s.signals) <= MaxMessages
    BY <1>3, <1>4, Bound, Parts DEF Room
  <1> QED
    BY <1>2, <1>5, Handled

\* A handler that emits none.
LEMMA HandledQuietly ==
    ASSUME Inv, NEW s, Fine(s), s.signals = signals, Handle(s), UNCHANGED calls
    PROVE  Inv'
  <1>1. calls' \in Seq(Commands) /\ Len(calls') <= MaxMessages
    BY DEF Inv
  <1> QED
    BY <1>1, Handled, Parts

LEMMA DialogIsCalled ==
    ASSUME Inv, DialogCalls
    PROVE  Inv'
  <1>1. calls \in Seq(Commands) /\ calls # << >>
    BY DEF Inv, DialogCalls
  <1>2. Head(calls) \in Commands
    BY <1>1
  <1>3. Fine(Now) /\ Now.m.phase # "GONE"
    BY NowFields DEF Inv, DialogCalls, Lives
  <1> DEFINE s == handle_dialog_method_call(Now, Head(calls))
  <1>4. Room /\ Handle(s) /\ calls' = Tail(calls)
    BY DEF DialogCalls
  <1>5. Fine(s) /\ Grows(Now, s)
    BY <1>2, <1>3, Called
  <1> HIDE DEF s
  <1> QED
    BY <1>1, <1>4, <1>5, HandledWithRoom

\* The window comes up with the dialog as it was.
LEMMA CapabilitiesAreGiven ==
    ASSUME Inv, GetCapabilities
    PROVE  Inv'
  <1>1. Fine(Now) /\ d \in Dialog /\ Listing(d) /\ d.state = "starting" /\ UNCHANGED calls
    BY Parts DEF Inv, GetCapabilities
  <1>2. CASE calls_nothing(Now)
    <2>1. Handle(csm_quit(Now))
      BY <1>2 DEF GetCapabilities
    <2>2. Fine(csm_quit(Now)) /\ csm_quit(Now).signals = signals
      BY <1>1, NowFields, Quits
    <2> QED
      BY <1>1, <2>1, <2>2, HandledQuietly
  <1>3. CASE ~calls_nothing(Now)
    <2>1. PICK timed \in BOOLEAN :
              Handle([Now EXCEPT !.d = run_dialog(d, Offered(Now), timed)])
      BY <1>3 DEF GetCapabilities
    <2> DEFINE v == run_dialog(d, Offered(Now), timed)
               s == [Now EXCEPT !.d = v]
    <2>2. Offered(Now) \in SUBSET Choices
      BY DEF Offered
    <2>3. GoesOn(d, v) /\ Runs(v) /\ v.view = d.view
      BY <1>1, <2>2, Shows
    <2> HIDE DEF v
    <2>4. s.m = m /\ s.d = v /\ s.signals = signals
          /\ s.inhibitors = inhibitors /\ s.system = system
      BY DEF Now
    <2>5. /\ m' = m /\ d' = v /\ signals' = signals /\ inhibitors' = inhibitors
          /\ system' = system
      BY <2>1, <2>3, <2>4 DEF Handle, v
    <2>6. calls' \in Seq(Commands) /\ Len(calls') <= MaxMessages
      BY <1>1 DEF Inv
    <2> QED
      BY <2>3, <2>5, <2>6, WindowMoves
  <1> QED
    BY <1>2, <1>3

LEMMA DialogIsShown ==
    ASSUME Inv, NEW mode \in Modes, ShowDialog(mode)
    PROVE  Inv'
  <1> DEFINE manager == [m EXCEPT !.force = FALSE]
             s == [Now EXCEPT !.m.force = FALSE]
  <1>1. m \in Manager /\ m.phase = "RUNNING" /\ Fine(Now) /\ UNCHANGED calls
    BY Parts DEF Inv, ShowDialog
  <1>2. s = [Now EXCEPT !.m = manager]
    BY DEF Now
  <1>3. /\ manager \in Manager /\ manager.phase = m.phase /\ manager.type = m.type
        /\ manager.action = m.action /\ (manager.timer <=> m.timer)
    BY <1>1 DEF Manager
  <1>4. s.m = manager /\ s.d = d
    BY DEF Now
  <1>5. Handle(s) \/ (d.state = "none" /\ Handle(launch_gtk_dialog(s, mode)))
    BY DEF ShowDialog
  <1> HIDE DEF manager, s
  <1>6. Ending(s) /\ Closing(s)
    BY <1>1, <1>3, <1>4, NowFields DEF Fine, Fit, Ending, Closing
  <1>7. Fine(s) /\ s.signals = signals
    BY <1>1, <1>2, <1>3, <1>6, NowFields, Manages
  <1>8. CASE Handle(s)
    BY <1>1, <1>7, <1>8, HandledQuietly
  <1>9. CASE d.state = "none" /\ Handle(launch_gtk_dialog(s, mode))
    <2> DEFINE w == [NoDialog EXCEPT !.state = "starting", !.mode = mode]
               t == [s EXCEPT !.d = w]
    <2>1. launch_gtk_dialog(s, mode) = t
      BY DEF launch_gtk_dialog
    <2>2. w \in Dialog /\ w.view = "prompt" /\ Listing(w)
      BY DEF NoDialog, Dialog, DialogStates, Listing
    <2>3. signals = << >>
      BY <1>9 DEF Inv, Runs
    <2> HIDE DEF w
    <2>4. t \in Structures /\ t.m = manager /\ t.d = w /\ t.signals = signals
      BY <1>4, <1>7, <2>2 DEF Fine, Fit, Structures
    <2> HIDE DEF t
    <2>5. Ending(t) /\ Closing(t) /\ Informed(t)
      BY <1>1, <1>3, <1>4, <1>6, <2>2, <2>3, <2>4 DEF Ending, Closing, Informed
    <2>6. Fine(t)
      BY <2>2, <2>4, <2>5 DEF Fine, Fit
    <2> QED
      BY <1>1, <1>9, <2>1, <2>4, <2>6, HandledQuietly
  <1> QED
    BY <1>5, <1>8, <1>9

LEMMA SystemIsHeard ==
    ASSUME Inv, SystemAnswers
    PROVE  Inv'
  <1>1. PICK what \in system.calls, refused \in BOOLEAN :
            LET s == [Now EXCEPT !.system.calls = @ \ {what}]
            IN  Handle(IF system.backend = "logind" THEN logind_done(s, refused)
                       ELSE consolekit_done(s, refused))
    BY DEF SystemAnswers
  <1> DEFINE sys == [system EXCEPT !.calls = @ \ {what}]
             down == [sys EXCEPT !.down = TRUE]
             s == [Now EXCEPT !.system = sys]
             t == [s EXCEPT !.system = down]
  <1>2. system \in System /\ Fine(Now) /\ UNCHANGED calls
    BY Parts DEF Inv, SystemAnswers
  <1>3. sys \in System /\ down \in System
    BY <1>2 DEF System
  <1>4. [Now EXCEPT !.system.calls = @ \ {what}] = s
    BY DEF Now
  <1>5. [s EXCEPT !.system.down = TRUE] = t
    BY DEF Now
  <1>6. Handle(csm_quit(s)) \/ Handle(s) \/ Handle(t)
    BY <1>1, <1>4, <1>5 DEF logind_done, consolekit_done, quit_request_failed
  <1>7. Fine(s) /\ s.signals = signals
    <2> HIDE DEF sys
    <2> QED
      BY <1>2, <1>3, NowFields, Asks
  <1> HIDE DEF sys, down, s
  <1>8. Fine(t) /\ t.signals = signals
    BY <1>3, <1>7, Asks
  <1>9. Fine(csm_quit(s)) /\ csm_quit(s).signals = signals
    BY <1>7, Quits
  <1> HIDE DEF t
  <1> QED
    BY <1>2, <1>6, <1>7, <1>8, <1>9, HandledQuietly

LEMMA LogoutIsAsked ==
    ASSUME Inv, NEW force \in BOOLEAN, Logout(force)
    PROVE  Inv'
  <1> DEFINE t == [Now EXCEPT !.m = [Now.m EXCEPT !.type = "LOGOUT", !.force = force]]
             s == end_phase(t)
  <1>1. request_logout(Now, force) = s
    BY NowFields DEF request_logout, Now
  <1>2. /\ Fine(Now) /\ Now.m.phase # "GONE" /\ Room /\ UNCHANGED calls
        /\ Handle(request_logout(Now, force))
    BY NowFields DEF Inv, Logout
  <1>3. "LOGOUT" \in LogoutTypes \ {"NONE"}
    BY DEF LogoutTypes
  <1>4. Fine(s) /\ Grows(Now, s)
    BY <1>2, <1>3, Begins
  <1> HIDE DEF s
  <1> QED
    BY <1>1, <1>2, <1>4, HandledWithRoom

LEMMA InhibitorsChange ==
    ASSUME Inv, NEW x \in Inhibitors, InhibitorComes(x) \/ InhibitorGoes(x)
    PROVE  Inv'
  <1>1. PICK f \in Flags \cup {{}} :
            Handle(update_inhibitors(Now, [inhibitors EXCEPT ![x] = f]))
    BY DEF InhibitorComes, InhibitorGoes
  <1>2. RoomForTwo /\ UNCHANGED calls /\ Fine(Now)
    BY DEF InhibitorComes, InhibitorGoes, Inv
  <1>3. Room
    BY <1>2, Parts, Bound DEF Room, RoomForTwo
  <1> DEFINE i == [inhibitors EXCEPT ![x] = f]
             s == update_inhibitors(Now, i)
  <1>4. i \in [Inhibitors -> Flags \cup {{}}]
    BY <1>1, Parts
  <1>5. Fine(s) /\ Grows(Now, s)
    BY <1>2, <1>4, Updates
  <1> HIDE DEF s
  <1> QED
    BY <1>1, <1>2, <1>3, <1>5, HandledWithRoom DEF s

LEMMA EndProceeds ==
    ASSUME Inv, QueryCompletes \/ SaveCompletes \/ ClientCancels
    PROVE  Inv'
  <1>1. Fine(Now)
    BY DEF Inv
  <1>2. CASE QueryCompletes
    <2> DEFINE s == query_end_session_complete(Now)
    <2>1. /\ Now.m.timer /\ Now.m.phase # "GONE"
          /\ Room /\ Handle(s) /\ UNCHANGED calls
      BY <1>2, NowFields DEF QueryCompletes, Lives
    <2>2. Fine(s) /\ Grows(Now, s)
      BY <1>1, <2>1, QueryEnds
    <2> HIDE DEF s
    <2> QED
      BY <2>1, <2>2, HandledWithRoom
  <1>3. CASE SaveCompletes
    <2> DEFINE s == end_phase(Now)
    <2>1. Now.m.phase = "END_SESSION" /\ Room /\ Handle(s) /\ UNCHANGED calls
      BY <1>3, NowFields DEF SaveCompletes
    <2>2. Now.m.type # "NONE"
      BY <1>1, <2>1 DEF Fine, Fit, Ending
    <2>3. Fine(s) /\ Grows(Now, s)
      BY <1>1, <2>1, <2>2, PhaseEnds
    <2> HIDE DEF s
    <2> QED
      BY <2>1, <2>3, HandledWithRoom
  <1>4. CASE ClientCancels
    <2> DEFINE s == cancel_end_session(Now)
    <2>1. Handle(s) /\ UNCHANGED calls
      BY <1>4 DEF ClientCancels
    <2>2. Fine(s) /\ s.signals = signals
      BY <1>1, NowFields, Cancels
    <2> HIDE DEF s
    <2> QED
      BY <2>1, <2>2, HandledQuietly
  <1> QED
    BY <1>2, <1>3, <1>4

LEMMA WindowCalls ==
    ASSUME Inv, NEW r, r.calls \in Seq(Commands), Window(r)
    PROVE  /\ calls' \in Seq(Commands) /\ Len(calls') <= MaxMessages
           /\ d' = r.d /\ UNCHANGED <<m, inhibitors, system>>
  <1>1. calls \in Seq(Commands)
    BY DEF Inv
  <1>2. Len(calls \o r.calls) = Len(calls) + Len(r.calls)
    BY <1>1
  <1> QED
    BY <1>1, <1>2 DEF Window

LEMMA WindowEnds ==
    ASSUME Inv, NEW w, w \in {quit(d), NoDialog}, Window(Just(w)), signals' = << >>
    PROVE  Inv'
  <1>1. GoesOn(d, w) /\ ~Runs(w)
    BY Gone DEF GoesOn
  <1>2. Just(w).calls \in Seq(Commands) /\ Just(w).d = w
    BY DEF Just
  <1>3. /\ calls' \in Seq(Commands) /\ Len(calls') <= MaxMessages
        /\ d' = w /\ UNCHANGED <<m, inhibitors, system>>
    BY <1>2, WindowCalls
  <1> QED
    BY <1>1, <1>3, WindowMoves

LEMMA WindowSteps ==
    ASSUME Inv,
           \/ \E code \in Commands : Press(code)
           \/ CountdownEnds \/ ReceiveInfo \/ Vanish \/ Leave \/ DialogReaped
    PROVE  Inv'
  <1>1. d \in Dialog /\ Listing(d) /\ signals \in Seq(BOOLEAN)
    BY Parts
  <1>2. CASE \E code \in Commands : Press(code)
    <2>1. PICK code \in Commands : Press(code)
      BY <1>2
    <2> DEFINE r == handle_response(d, code)
    <2>2. /\ code \in Pressable(d) /\ Window(r) /\ d.state = "shown"
          /\ signals' = IF Runs(d') THEN signals ELSE << >>
      BY <2>1 DEF Press
    <2>3. code \in {"Cancel"} \cup Choices \/ (code = "IgnoreInhibitors" /\ d.inhibited)
      BY <1>1, <2>2 DEF Pressable, Dialog
    <2>4. /\ GoesOn(d, r.d) /\ r.calls \in Seq(Commands) /\ r.d.view # "inhibit"
      BY <1>1, <2>3, Responds
    <2> HIDE DEF r
    <2>5. /\ calls' \in Seq(Commands) /\ Len(calls') <= MaxMessages
          /\ d' = r.d /\ UNCHANGED <<m, inhibitors, system>>
      BY <2>2, <2>4, WindowCalls
    <2> QED
      BY <2>2, <2>4, <2>5, WindowMoves
  <1>3. CASE CountdownEnds
    <2> DEFINE b == [d EXCEPT !.countdown = FALSE]
               code == default_response(d.mode)
               r == handle_response(b, code)
    <2>1. Window(r) /\ d.state = "shown" /\ UNCHANGED signals
      BY <1>3 DEF CountdownEnds, update_timer
    <2>2. code \in Choices
      BY <1>1 DEF default_response, Dialog, Modes, Choices
    <2>3. b \in Dialog /\ b.state = d.state /\ b.sigterm = d.sigterm
      BY <1>1 DEF Dialog
    <2>4. code # "Cancel"
      BY <2>2 DEF Choices
    <2> HIDE DEF b, code
    <2>5. /\ GoesOn(b, r.d) /\ r.calls \in Seq(Commands) /\ r.d.view # "inhibit"
          /\ r.d.state = b.state
      BY <2>2, <2>3, <2>4, Responds
    <2> HIDE DEF r
    <2>6. GoesOn(d, r.d) /\ Runs(r.d)
      BY <2>1, <2>3, <2>5 DEF GoesOn, Runs
    <2>7. /\ calls' \in Seq(Commands) /\ Len(calls') <= MaxMessages
          /\ d' = r.d /\ UNCHANGED <<m, inhibitors, system>>
      BY <2>1, <2>5, WindowCalls
    <2> QED
      BY <2>1, <2>5, <2>6, <2>7, WindowMoves
  <1>4. CASE ReceiveInfo
    <2> DEFINE some == Head(signals)
               r == inhibitor_info_received(d, some)
    <2>1. /\ Window(r) /\ d.state \in {"shown", "hidden"}
          /\ signals # << >> /\ signals' = Tail(signals)
      BY <1>4 DEF ReceiveInfo
    <2>2. some \in BOOLEAN
      BY <1>1, <2>1
    <2> HIDE DEF some
    <2>3. /\ GoesOn(d, r.d) /\ r.calls \in Seq(Commands)
          /\ ListsIf(r.d, some) /\ r.d.state = d.state
      BY <1>1, <2>2, InfoTaken DEF ListsIf
    <2> HIDE DEF r
    <2>4. Runs(r.d)
      BY <2>1, <2>3 DEF Runs
    <2>5. /\ calls' \in Seq(Commands) /\ Len(calls') <= MaxMessages
          /\ d' = r.d /\ UNCHANGED <<m, inhibitors, system>>
      BY <2>1, <2>3, WindowCalls
    <2> QED
      BY <2>1, <2>3, <2>4, <2>5, WindowMoves DEF some
  <1>5. CASE Vanish \/ Leave
    BY <1>5, WindowEnds DEF Vanish, Leave
  <1>6. CASE DialogReaped
    <2>1. signals' = << >>
      BY <1>6 DEF DialogReaped, Inv, Runs
    <2> QED
      BY <1>6, <2>1, WindowEnds DEF DialogReaped
  <1> QED
    BY <1>2, <1>3, <1>4, <1>5, <1>6

LEMMA StepInv ==
    ASSUME Inv, [Next]_vars
    PROVE  Inv'
  <1>1. CASE UNCHANGED vars
    <2>1. Now' = Now
      BY <1>1 DEF vars, Now
    <2>2. Fine(Now)' <=> Fine(Now')
      BY DEF Fine, Fit, Structures, Ending, Listing, Closing, Informed, Inhibited,
         is_inhibited, Now
    <2> QED
      BY <1>1, <2>1, <2>2 DEF vars, Inv
  <1>2. CASE Next
    BY <1>2, DialogIsCalled, CapabilitiesAreGiven, DialogIsShown, LogoutIsAsked,
       InhibitorsChange, EndProceeds, SystemIsHeard, WindowSteps DEF Next
  <1> QED
    BY <1>1, <1>2

THEOREM InvHolds == Spec => []Inv
  <1>1. Inv /\ [Next]_vars => Inv'
    BY StepInv
  <1> QED
    BY InitInv, <1>1, PTL DEF Spec

-----------------------------------------------------------------------------
(* The properties, for all constants.                                      *)

\* Every variable has its type: no handler meets a state that it does not
\* provide for, such as the end of a session with no type of logout.
THEOREM TypeCorrect == Spec => []TypeOK
  <1>1. Inv => TypeOK
    BY Parts DEF Inv, TypeOK
  <1> QED
    BY <1>1, InvHolds, PTL

\* Once the session is being ended no dialog stays or comes up, for every set
\* of inhibitors and whatever the system can do.
THEOREM NoDialogAtTheEnd == Spec => []NoDialogInTheEnd
  <1>1. Inv => NoDialogInTheEnd
    BY NowFields DEF Inv, Fine, Fit, Closing, NoDialogInTheEnd
  <1> QED
    BY <1>1, InvHolds, PTL

\* The list that asks whether to continue anyway is about the action that
\* continuing performs, and somebody inhibits that action.
THEOREM ListIsOfAction == Spec => []InhibitViewIsOfAction
  <1>1. Inv => InhibitViewIsOfAction
    <2> SUFFICES ASSUME Inv, d.state = "shown", d.view = "inhibit", ~d.sigterm,
                        signals = << >>
                 PROVE  m.action # "UNDEFINED" /\ is_inhibited(Now, FlagOf(m.action))
      BY DEF InhibitViewIsOfAction
    <2>1. Informed(Now) /\ Runs(d)
      BY DEF Inv, Fine, Runs
    <2> QED
      BY <2>1, NowFields DEF Informed, Inhibited
  <1> QED
    BY <1>1, InvHolds, PTL
=============================================================================
