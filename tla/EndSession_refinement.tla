------------------------- MODULE EndSession_refinement -------------------------
(***************************************************************************)
(* EndSession implements EndSessionProtocol, and what follows for clients  *)
(* and inhibitors.                                                         *)
(*                                                                         *)
(* The steps of the protocol are written here as relations of two records, *)
(* so that they can be said of a part of a handler.  Each operator of the  *)
(* manager gets a lemma that says which of the steps it is, and Composed   *)
(* says when two of them in a row are one.                                 *)
(***************************************************************************)
EXTENDS EndSession_proof

-----------------------------------------------------------------------------
(* The steps.                                                              *)

\* The main loop was left on purpose.
Over(s) == s.loop = "quit"

\* Everybody who is there was last told signal.
Told(s, signal) == s.told = [c \in Clients |-> IF c \in s.clients THEN signal ELSE "none"]

\* Who is not there was told nothing.
Apart(s) == \A c \in Clients \ s.clients : s.told[c] = "none"

\* What a step relies on: also, in EXIT everybody was told to stop.
Tracked(s) == Apart(s) /\ (s.phase = "EXIT" => Told(s, "Stop"))

\* Neither is the session over nor was the system asked to go down.
GoesOn(s, r) ==
    /\ r.power_request = s.power_request
    /\ Over(r) = Over(s)

\* A logout is over, for the others the system is asked.
Quits(s, r) ==
    /\ s.logout_type = "LOGOUT" => Over(r) /\ r.power_request = s.power_request
    /\ s.logout_type # "LOGOUT" => Over(r) = Over(s) /\ r.power_request

Leaves(s, r) ==
    /\ r.phase = s.phase
    /\ r.clients \subseteq s.clients
    /\ r.told = [c \in Clients |-> IF c \in r.clients THEN s.told[c] ELSE "none"]
    /\ GoesOn(s, r)

Asks(s, r) ==
    /\ s.phase = "RUNNING" /\ r.phase = "QUERY_END_SESSION"
    /\ r.clients = s.clients
    /\ Told(r, "QueryEndSession")
    /\ GoesOn(s, r)

Saves(s, r) ==
    /\ s.phase = "QUERY_END_SESSION" /\ r.phase = "END_SESSION"
    /\ r.clients \subseteq s.clients
    /\ Told(r, "EndSession")
    /\ GoesOn(s, r)

SavesLast(s, r) ==
    /\ s.phase = "END_SESSION" /\ r.phase = "END_SESSION"
    /\ r.clients \subseteq s.clients
    /\ \E last \in SUBSET r.clients :
          r.told = [c \in Clients |-> IF c \notin r.clients THEN "none"
                                      ELSE IF c \in last THEN "EndSessionLast"
                                                         ELSE s.told[c]]
    /\ GoesOn(s, r)

Stops(s, r) ==
    /\ \/ s.phase = "END_SESSION"
       \/ s.phase = "QUERY_END_SESSION" /\ r.clients = {}
    /\ r.phase = "EXIT"
    /\ r.clients \subseteq s.clients
    /\ Told(r, "Stop")
    /\ Quits(s, r)

StopsAgain(s, r) ==
    /\ s.phase = "EXIT" /\ r.phase = "EXIT"
    /\ r.clients \subseteq s.clients
    /\ Told(r, "Stop")
    /\ Quits(s, r)

Cancels(s, r) ==
    /\ s.phase # "RUNNING" /\ r.phase = "RUNNING"
    /\ r.clients = s.clients
    /\ Told(r, "none")
    /\ GoesOn(s, r)

\* What a handler may do that neither asks nor cancels.
Forward(s, r) ==
    /\ r.logout_type = s.logout_type
    /\ Leaves(s, r) \/ Saves(s, r) \/ SavesLast(s, r) \/ Stops(s, r) \/ StopsAgain(s, r)

\* Inhibitors of connections stay, unless the session ends; and it does not
\* come back.
HoldsOn(s, r) ==
    /\ s.power_request => r.power_request
    /\ s.loop # "running" => r.loop # "running"
    /\ s.app_inhibitors \subseteq r.app_inhibitors \/ r.power_request \/ r.loop # "running"

\* Nothing the protocol sees changes, and no inhibitor either.
Same(s, r) ==
    /\ r.phase = s.phase
    /\ r.clients = s.clients
    /\ r.told = s.told
    /\ r.power_request = s.power_request
    /\ r.loop = s.loop
    /\ r.app_inhibitors = s.app_inhibitors

LEMMA HoldsOnTwice ==
    ASSUME NEW s, NEW t, NEW r, HoldsOn(s, t), HoldsOn(t, r)
    PROVE  HoldsOn(s, r)
  BY DEF HoldsOn

\* The protocol does not see the dialog.
LEMMA SameLeaves ==
    ASSUME NEW s, Typed(s), Tracked(s), NEW r, Same(s, r)
    PROVE  Leaves(s, r) /\ HoldsOn(s, r) /\ Tracked(r)
  BY DEF Typed, ManagerState, Tracked, Apart, Told, Same, Leaves, GoesOn, HoldsOn, Over

LEMMA StillTracked ==
    ASSUME NEW s, Tracked(s), NEW r, Forward(s, r) \/ Asks(s, r) \/ Cancels(s, r)
    PROVE  Tracked(r)
  <1>1. Apart(r)
    BY DEF Apart, Forward, Leaves, Saves, SavesLast, Stops, StopsAgain, Asks, Cancels, Told
  <1>2. ASSUME r.phase = "EXIT"
        PROVE  Told(r, "Stop")
    BY <1>2 DEF Tracked, Forward, Leaves, Saves, SavesLast, Stops, StopsAgain, Asks, Cancels, Told
  <1> QED
    BY <1>1, <1>2 DEF Tracked

\* Two steps are one, unless clients are told to save and the second tells
\* those who stay something else.
LEMMA Composed ==
    ASSUME NEW s, NEW t, NEW r, Forward(s, t), Forward(t, r),
           Saves(s, t) => Leaves(t, r) \/ (Stops(t, r) /\ r.clients = {})
    PROVE  Forward(s, r)
  <1>1. r.logout_type = s.logout_type
    BY DEF Forward
  <1>2. CASE Leaves(s, t)
    <2>1. ASSUME Leaves(t, r)
          PROVE  Leaves(s, r)
      BY <1>2, <2>1 DEF Leaves, GoesOn
    <2>2. ASSUME Saves(t, r)
          PROVE  Saves(s, r)
      BY <1>2, <2>2 DEF Leaves, Saves, GoesOn
    <2>3. ASSUME SavesLast(t, r)
          PROVE  SavesLast(s, r)
      BY <1>2, <2>3 DEF Leaves, SavesLast, GoesOn
    <2>4. ASSUME Stops(t, r)
          PROVE  Stops(s, r)
      BY <1>2, <2>4 DEF Forward, Leaves, Stops, GoesOn, Quits
    <2>5. ASSUME StopsAgain(t, r)
          PROVE  StopsAgain(s, r)
      BY <1>2, <2>5 DEF Forward, Leaves, StopsAgain, GoesOn, Quits
    <2> QED
      BY <1>1, <2>1, <2>2, <2>3, <2>4, <2>5 DEF Forward
  <1>3. CASE Saves(s, t)
    <2>1. ASSUME Leaves(t, r)
          PROVE  Saves(s, r)
      BY <1>3, <2>1 DEF Leaves, Saves, GoesOn, Told
    <2>2. ASSUME Stops(t, r), r.clients = {}
          PROVE  Stops(s, r)
      BY <1>3, <2>2 DEF Forward, Saves, Stops, GoesOn, Quits
    <2> QED
      BY <1>1, <1>3, <2>1, <2>2 DEF Forward
  <1>4. CASE SavesLast(s, t)
    <2>1. PICK last \in SUBSET t.clients :
              t.told = [c \in Clients |-> IF c \notin t.clients THEN "none"
                                          ELSE IF c \in last THEN "EndSessionLast"
                                                             ELSE s.told[c]]
      BY <1>4 DEF SavesLast
    <2>2. ASSUME Leaves(t, r)
          PROVE  SavesLast(s, r)
      <3>1. /\ last \cap r.clients \in SUBSET r.clients
            /\ r.told = [c \in Clients |-> IF c \notin r.clients THEN "none"
                                           ELSE IF c \in last \cap r.clients
                                                  THEN "EndSessionLast"
                                                  ELSE s.told[c]]
        BY <2>1, <2>2 DEF Leaves
      <3> QED
        BY <1>4, <2>2, <3>1 DEF Leaves, SavesLast, GoesOn
    <2>3. ASSUME SavesLast(t, r)
          PROVE  SavesLast(s, r)
      <3>1. PICK more \in SUBSET r.clients :
                r.told = [c \in Clients |-> IF c \notin r.clients THEN "none"
                                            ELSE IF c \in more THEN "EndSessionLast"
                                                               ELSE t.told[c]]
        BY <2>3 DEF SavesLast
      <3>2. /\ (last \cap r.clients) \cup more \in SUBSET r.clients
            /\ r.told = [c \in Clients |-> IF c \notin r.clients THEN "none"
                                           ELSE IF c \in (last \cap r.clients) \cup more
                                                  THEN "EndSessionLast"
                                                  ELSE s.told[c]]
        BY <2>1, <2>3, <3>1 DEF SavesLast
      <3> QED
        BY <1>4, <2>3, <3>2 DEF SavesLast, GoesOn
    <2>4. ASSUME Stops(t, r)
          PROVE  Stops(s, r)
      BY <1>4, <2>4 DEF Forward, SavesLast, Stops, GoesOn, Quits
    <2> QED
      BY <1>1, <1>4, <2>2, <2>3, <2>4 DEF Forward, SavesLast, Saves, StopsAgain
  <1>5. CASE Stops(s, t) \/ StopsAgain(s, t)
    <2>1. Leaves(t, r) \/ StopsAgain(t, r)
      BY <1>5 DEF Forward, Stops, StopsAgain, Saves, SavesLast
    <2>2. /\ r.phase = "EXIT" /\ r.clients \subseteq t.clients /\ Told(r, "Stop")
          /\ Quits(s, r)
      BY <1>5, <2>1 DEF Forward, Stops, StopsAgain, Leaves, GoesOn, Quits, Told
    <2> QED
      BY <1>1, <1>5, <2>2 DEF Forward, Stops, StopsAgain
  <1> QED
    BY <1>2, <1>3, <1>4, <1>5 DEF Forward

-----------------------------------------------------------------------------
(* The phases.                                                             *)

\* What the operators of the phases leave alone.
Unmoved(s, r) ==
    /\ r.clients = s.clients
    /\ r.logout_type = s.logout_type
    /\ r.power_request = s.power_request
    /\ r.loop = s.loop
    /\ r.app_inhibitors = s.app_inhibitors

LEMMA Announced ==
    ASSUME NEW s, Typed(s), Apart(s), NEW signal \in Signals
    PROVE  LET r == Tell(s, s.clients, signal)
           IN  Told(r, signal) /\ Unmoved(s, r) /\ r.phase = s.phase
               /\ r.query_clients = s.query_clients
  BY DEF Tell, Typed, ManagerState, Told, Apart, Unmoved

LEMMA ResetSame ==
    ASSUME NEW s, Typed(s)
    PROVE  Unmoved(s, reset_state(s)) /\ reset_state(s).told = s.told
           /\ reset_state(s).phase = s.phase
  BY DEF reset_state, Typed, ManagerState, Unmoved

LEMMA DialogClosedSame ==
    ASSUME NEW s, Typed(s)
    PROVE  LET r == close_end_session_dialog(s)
           IN  Typed(r) /\ Same(s, r) /\ Unmoved(s, r) /\ r.query_clients = s.query_clients
  BY DEF close_end_session_dialog, Typed, ManagerState, DialogStates, Same, Unmoved

LEMMA QuitEnds ==
    ASSUME NEW s, Typed(s), s.logout_type # "NONE"
    PROVE  LET r == csm_manager_quit(s)
           IN  /\ r.phase = s.phase /\ r.clients = s.clients /\ r.told = s.told
               /\ r.logout_type = s.logout_type
               /\ Quits(s, r) /\ HoldsOn(s, r)
  <1> DEFINE cleared == SetInhibitors(s, {}, {})
             over == [cleared EXCEPT !.loop = "quit"]
             asked == [cleared EXCEPT !.power_request = TRUE]
  <1>1. Typed(cleared) /\ SameButDialog(s, cleared)
    BY InhibitorsSet
  <1>2. /\ s.logout_type = "LOGOUT" => csm_manager_quit(s) = over
        /\ s.logout_type \in {"REBOOT", "SHUTDOWN"} => csm_manager_quit(s) = asked
    BY DEF csm_manager_quit
  <1>3. s.logout_type \in {"LOGOUT", "REBOOT", "SHUTDOWN"}
    BY DEF Typed, ManagerState, LogoutTypes
  <1> HIDE DEF cleared
  <1>4. /\ over.phase = s.phase /\ over.clients = s.clients /\ over.told = s.told
        /\ over.logout_type = s.logout_type /\ over.loop = "quit"
        /\ over.power_request = s.power_request
    BY <1>1 DEF Typed, ManagerState, SameButDialog
  <1>5. /\ asked.phase = s.phase /\ asked.clients = s.clients /\ asked.told = s.told
        /\ asked.logout_type = s.logout_type /\ asked.loop = s.loop
        /\ asked.power_request
    BY <1>1 DEF Typed, ManagerState, SameButDialog
  <1> HIDE DEF over, asked
  <1> QED
    BY <1>2, <1>3, <1>4, <1>5 DEF Quits, HoldsOn, Over

LEMMA ExitStops ==
    ASSUME NEW s, Typed(s), Apart(s), s.logout_type # "NONE"
    PROVE  LET r == do_phase_exit(s)
           IN  /\ r.phase = "EXIT" /\ r.clients = s.clients /\ Told(r, "Stop")
               /\ r.logout_type = s.logout_type
               /\ Quits(s, r) /\ HoldsOn(s, r)
  <1> DEFINE a == [s EXCEPT !.phase = "EXIT"]
             b == reset_state(a)
             c == Tell(b, s.clients, "Stop")
  <1>1. Typed(a) /\ a.phase = "EXIT" /\ Unmoved(s, a) /\ a.told = s.told
    BY DEF Typed, ManagerState, Phases, Unmoved
  <1> HIDE DEF a
  <1>2. Typed(b) /\ b.phase = "EXIT" /\ Unmoved(s, b) /\ b.told = s.told /\ Apart(b)
    BY <1>1, ResetFacts, ResetSame DEF Unmoved, Apart
  <1> HIDE DEF b
  <1>3. Typed(c) /\ c.phase = "EXIT" /\ Unmoved(s, c) /\ Told(c, "Stop")
    BY <1>2, ToldFacts, Announced DEF Signals, Unmoved
  <1>4. do_phase_exit(s) = csm_manager_quit(c)
    BY DEF do_phase_exit, a, b
  <1> HIDE DEF c
  <1> QED
    BY <1>3, <1>4, QuitEnds DEF Unmoved, Told, Quits, HoldsOn, Over

LEMMA SaveSaves ==
    ASSUME NEW s, Typed(s), Apart(s), s.logout_type # "NONE", s.phase = "QUERY_END_SESSION"
    PROVE  LET r == do_phase_end_session(s)
           IN  /\ Forward(s, r) /\ HoldsOn(s, r) /\ r.clients = s.clients
               /\ \/ Stops(s, r)
                  \/ Saves(s, r) /\ r.clients # {} /\ r.query_clients = r.clients
  <1> DEFINE a == [s EXCEPT !.phase = "END_SESSION"]
             b == reset_state(a)
             c == close_end_session_dialog(b)
             d == [c EXCEPT !.query_clients = s.clients, !.phase_timer = TRUE]
  <1>1. Typed(a) /\ a.phase = "END_SESSION" /\ Unmoved(s, a) /\ a.told = s.told
    BY DEF Typed, ManagerState, Phases, Unmoved
  <1> HIDE DEF a
  <1>2. Typed(b) /\ b.phase = "END_SESSION" /\ Unmoved(s, b) /\ b.told = s.told
    BY <1>1, ResetFacts, ResetSame DEF Unmoved
  <1> HIDE DEF b
  <1>3. Typed(c) /\ c.phase = "END_SESSION" /\ Unmoved(s, c) /\ c.told = s.told /\ Apart(c)
    BY <1>2, DialogClosedSame DEF Unmoved, Same, Apart
  <1>4. do_phase_end_session(s) =
            IF s.clients = {} THEN do_phase_exit(c) ELSE Tell(d, s.clients, "EndSession")
    BY DEF do_phase_end_session, a, b
  <1> HIDE DEF c
  <1>5. CASE s.clients = {}
    <2> DEFINE r == do_phase_exit(c)
    <2>1. /\ r.phase = "EXIT" /\ r.clients = c.clients /\ Told(r, "Stop")
          /\ r.logout_type = c.logout_type /\ Quits(c, r) /\ HoldsOn(c, r)
      BY <1>3, ExitStops DEF Unmoved
    <2> HIDE DEF r
    <2>2. Stops(s, r) /\ r.logout_type = s.logout_type /\ HoldsOn(s, r) /\ r.clients = s.clients
      BY <1>3, <1>5, <2>1 DEF Unmoved, Stops, Quits, HoldsOn, Over
    <2> QED
      BY <1>4, <1>5, <2>2 DEF Forward, r
  <1>6. CASE s.clients # {}
    <2> DEFINE r == Tell(d, s.clients, "EndSession")
    <2>1. /\ Typed(d) /\ d.phase = "END_SESSION" /\ Unmoved(s, d) /\ Apart(d)
          /\ d.query_clients = s.clients
      BY <1>3 DEF Typed, ManagerState, Unmoved, Apart
    <2> HIDE DEF d
    <2>2. /\ Told(r, "EndSession") /\ Unmoved(s, r) /\ r.phase = "END_SESSION"
          /\ r.query_clients = s.clients
      BY <2>1, Announced DEF Signals, Unmoved
    <2> HIDE DEF r
    <2>3. Saves(s, r) /\ HoldsOn(s, r) /\ r.query_clients = r.clients
      BY <2>2 DEF Unmoved, Saves, GoesOn, Over, HoldsOn
    <2> QED
      BY <1>4, <1>6, <2>2, <2>3 DEF Forward, Unmoved, r
  <1> QED
    BY <1>5, <1>6

LEMMA QueryAsks ==
    ASSUME NEW s, Typed(s), Apart(s), s.phase = "RUNNING"
    PROVE  LET r == do_phase_query_end_session(s)
           IN  Asks(s, r) /\ HoldsOn(s, r)
  <1> DEFINE a == [s EXCEPT !.phase = "QUERY_END_SESSION"]
             b == reset_state(a)
             c == [b EXCEPT !.query_clients = s.clients, !.query_timer = TRUE]
             r == Tell(c, s.clients, "QueryEndSession")
  <1>1. Typed(a) /\ a.phase = "QUERY_END_SESSION" /\ Unmoved(s, a) /\ a.told = s.told
    BY DEF Typed, ManagerState, Phases, Unmoved
  <1> HIDE DEF a
  <1>2. Typed(b) /\ b.phase = "QUERY_END_SESSION" /\ Unmoved(s, b) /\ b.told = s.told
    BY <1>1, ResetFacts, ResetSame DEF Unmoved
  <1> HIDE DEF b
  <1>3. Typed(c) /\ c.phase = "QUERY_END_SESSION" /\ Unmoved(s, c) /\ Apart(c)
    BY <1>2 DEF Typed, ManagerState, Unmoved, Apart
  <1>4. do_phase_query_end_session(s) = r
    BY DEF do_phase_query_end_session, a, b
  <1> HIDE DEF c
  <1>5. Told(r, "QueryEndSession") /\ Unmoved(s, r) /\ r.phase = "QUERY_END_SESSION"
    BY <1>3, Announced DEF Signals, Unmoved
  <1> HIDE DEF r
  <1> QED
    BY <1>4, <1>5 DEF Unmoved, Asks, GoesOn, Over, HoldsOn

LEMMA EndPhaseStep ==
    ASSUME NEW s, Typed(s), Tracked(s), s.logout_type # "NONE"
    PROVE  LET r == end_phase(s)
           IN  /\ Forward(s, r) \/ Asks(s, r)
               /\ s.phase # "RUNNING" => Forward(s, r)
               /\ HoldsOn(s, r) /\ r.clients = s.clients
               /\ s.phase \in {"END_SESSION", "EXIT"} => r.phase = "EXIT"
               /\ s.phase = "QUERY_END_SESSION" =>
                      \/ Stops(s, r)
                      \/ Saves(s, r) /\ r.clients # {} /\ r.query_clients = r.clients
  <1>1. CASE s.phase = "RUNNING" /\ lockdown
    <2>1. end_phase(s) = reset_state(s)
      BY <1>1 DEF end_phase
    <2>2. Same(s, reset_state(s)) /\ Unmoved(s, reset_state(s))
      BY ResetSame DEF Same, Unmoved
    <2> QED
      BY <1>1, <2>1, <2>2, SameLeaves DEF Forward, Unmoved
  <1>2. CASE s.phase = "RUNNING" /\ ~lockdown
    <2>1. end_phase(s) = do_phase_query_end_session(s)
      BY <1>2 DEF end_phase
    <2> QED
      BY <1>2, <2>1, QueryAsks DEF Asks, Tracked
  <1>3. CASE s.phase = "QUERY_END_SESSION"
    <2>1. end_phase(s) = do_phase_end_session(s)
      BY <1>3 DEF end_phase
    <2> QED
      BY <1>3, <2>1, SaveSaves DEF Tracked
  <1>4. CASE s.phase = "END_SESSION"
    <2> DEFINE r == do_phase_exit(s)
    <2>1. end_phase(s) = r
      BY <1>4 DEF end_phase
    <2>2. /\ r.phase = "EXIT" /\ r.clients = s.clients /\ Told(r, "Stop")
          /\ r.logout_type = s.logout_type /\ Quits(s, r) /\ HoldsOn(s, r)
      BY ExitStops DEF Tracked
    <2> HIDE DEF r
    <2>3. Stops(s, r) /\ Forward(s, r)
      BY <1>4, <2>2 DEF Forward, Stops
    <2> QED
      BY <1>4, <2>1, <2>2, <2>3
  <1>5. CASE s.phase = "EXIT"
    <2> DEFINE a == reset_state(s)
               r == csm_manager_quit(a)
    <2>1. end_phase(s) = r
      BY <1>5 DEF end_phase
    <2>2. Typed(a) /\ Unmoved(s, a) /\ a.told = s.told /\ a.phase = "EXIT"
      BY <1>5, ResetFacts, ResetSame
    <2> HIDE DEF a
    <2>3. /\ r.phase = "EXIT" /\ r.clients = s.clients /\ r.told = s.told
          /\ r.logout_type = s.logout_type /\ Quits(s, r) /\ HoldsOn(s, r)
      BY <2>2, QuitEnds DEF Unmoved, Quits, HoldsOn, Over
    <2> HIDE DEF r
    <2> QED
      BY <1>5, <2>1, <2>3 DEF Forward, StopsAgain, Tracked, Told
  <1> QED
    BY <1>1, <1>2, <1>3, <1>4, <1>5 DEF Typed, ManagerState, Phases

LEMMA SecondPartSaves ==
    ASSUME NEW s, Typed(s), Tracked(s), s.phase = "END_SESSION"
    PROVE  LET r == do_phase_end_session_part_2(s)
           IN  /\ SavesLast(s, r) /\ Forward(s, r) /\ HoldsOn(s, r)
               /\ r.clients = s.clients
  <1> DEFINE last == s.next_query_clients \cap s.clients
             told == [c \in Clients |-> IF c \in last THEN "EndSessionLast" ELSE s.told[c]]
             a == [s EXCEPT !.query_clients = s.next_query_clients,
                            !.next_query_clients = {},
                            !.freed_use = @ \/ ~(s.next_query_clients \subseteq s.clients)]
             r == [a EXCEPT !.told = told]
  <1>1. a.told = s.told /\ Typed(a)
    BY DEF Typed, ManagerState
  <1>2. do_phase_end_session_part_2(s) = r
    BY <1>1 DEF do_phase_end_session_part_2, Tell
  <1> HIDE DEF told
  <1>3. /\ r.phase = s.phase /\ r.clients = s.clients /\ r.told = told
        /\ r.logout_type = s.logout_type /\ r.power_request = s.power_request
        /\ r.loop = s.loop /\ r.app_inhibitors = s.app_inhibitors
    BY DEF Typed, ManagerState
  <1> HIDE DEF r
  <1>4. told = [c \in Clients |-> IF c \notin s.clients THEN "none"
                                  ELSE IF c \in last THEN "EndSessionLast"
                                                     ELSE s.told[c]]
    BY DEF told, Tracked, Apart
  <1>5. last \in SUBSET r.clients
    BY <1>3
  <1> HIDE DEF last
  <1>6. SavesLast(s, r)
    BY <1>3, <1>4, <1>5, s.phase = "END_SESSION" DEF SavesLast, GoesOn, Over
  <1> QED
    BY <1>2, <1>3, <1>6 DEF Forward, HoldsOn

LEMMA CancelStep ==
    ASSUME NEW s, Typed(s), Tracked(s)
    PROVE  LET r == cancel_end_session(s)
           IN  /\ ~InShutdown(s) => r = s
               /\ InShutdown(s) => Cancels(s, r) /\ HoldsOn(s, r) /\ Tracked(r)
  <1>1. CASE ~InShutdown(s)
    BY <1>1 DEF cancel_end_session
  <1>2. CASE InShutdown(s)
    <2> DEFINE a == close_end_session_dialog(s)
               b == SetInhibitors(a, {}, s.app_inhibitors)
               c == [b EXCEPT !.phase = "RUNNING", !.logout_mode = "NORMAL",
                              !.logout_type = "NONE", !.dialog_action = "UNDEFINED"]
               d == reset_state(c)
               r == Tell(d, s.clients, "none")
    <2>1. Typed(a) /\ Same(s, a) /\ s.app_inhibitors \in SUBSET Connections
      BY DialogClosedSame DEF Typed, ManagerState
    <2>2. cancel_end_session(s) = r
      BY <1>2 DEF cancel_end_session
    <2> HIDE DEF a
    <2>3. Typed(b) /\ Same(s, b)
      BY <2>1, InhibitorsSet DEF Same, SameButDialog
    <2> HIDE DEF b
    <2>4. /\ Typed(c) /\ c.phase = "RUNNING" /\ Unmoved([s EXCEPT !.logout_type = "NONE"], c)
          /\ c.told = s.told
      BY <2>3 DEF Typed, ManagerState, Phases, LogoutModes, LogoutTypes, LogoutActions,
                  Same, Unmoved
    <2> HIDE DEF c
    <2>5. /\ Typed(d) /\ d.phase = "RUNNING" /\ d.clients = s.clients /\ d.told = s.told
          /\ d.power_request = s.power_request /\ d.loop = s.loop
          /\ d.app_inhibitors = s.app_inhibitors /\ Apart(d)
      BY <2>4, ResetFacts, ResetSame DEF Unmoved, Tracked, Apart, Typed, ManagerState
    <2> HIDE DEF d
    <2>6. Told(r, "none") /\ Unmoved(d, r) /\ r.phase = "RUNNING"
      BY <2>5, Announced DEF Signals
    <2> HIDE DEF r
    <2>7. Cancels(s, r) /\ HoldsOn(s, r)
      BY <1>2, <2>5, <2>6 DEF InShutdown, Unmoved, Cancels, GoesOn, Over, HoldsOn
    <2> QED
      BY <1>2, <2>2, <2>7, StillTracked
  <1> QED
    BY <1>1, <1>2

-----------------------------------------------------------------------------
(* Answers, departures and timeouts.                                       *)

\* A change of the dialog or of just-in-time inhibitors.
LEMMA DialogOnly ==
    ASSUME NEW s, Tracked(s), NEW r, Typed(s), SameButDialog(s, r),
           r.app_inhibitors = s.app_inhibitors
    PROVE  Same(s, r) /\ Forward(s, r) /\ HoldsOn(s, r) /\ Tracked(r)
  <1>1. Same(s, r) /\ r.logout_type = s.logout_type
    BY DEF SameButDialog, Same
  <1> QED
    BY <1>1, SameLeaves DEF Forward

LEMMA AfterSame ==
    ASSUME NEW s, Typed(s), Tracked(s), NEW t, Same(s, t), t.logout_type = s.logout_type,
           NEW r, Forward(t, r), HoldsOn(t, r)
    PROVE  /\ Forward(s, r) /\ HoldsOn(s, r)
           /\ Saves(s, r) => Saves(t, r)
           /\ Leaves(t, r) => Leaves(s, r)
  <1>1. Leaves(s, t) /\ HoldsOn(s, t) /\ Forward(s, t)
    BY SameLeaves DEF Forward
  <1>2. Forward(s, r) /\ HoldsOn(s, r)
    BY <1>1, Composed, HoldsOnTwice DEF Leaves, Saves
  <1>3. Saves(s, r) => Saves(t, r)
    BY DEF Same, Saves, GoesOn, Over
  <1>4. Leaves(t, r) => Leaves(s, r)
    BY DEF Same, Leaves, GoesOn, Over
  <1> QED
    BY <1>2, <1>3, <1>4

LEMMA ReportedStep ==
    ASSUME NEW s, Typed(s), Tracked(s), Answered(s)
    PROVE  LET r == end_session_or_report_inhibitors(s)
           IN  /\ Forward(s, r) /\ HoldsOn(s, r) /\ r.clients = s.clients
               /\ Saves(s, r) => r.clients # {} /\ r.query_clients = r.clients
  <1>1. CASE csm_manager_is_logout_inhibited(s)
    <2> DEFINE action == IF s.logout_type = "NONE" THEN "LOGOUT" ELSE s.logout_type
               r == emit_inhibitor_info_to_dialog(s, action)
    <2>1. end_session_or_report_inhibitors(s) = r
      BY <1>1 DEF end_session_or_report_inhibitors
    <2>2. action \in LogoutActions
      BY DEF Typed, ManagerState, LogoutTypes, LogoutActions
    <2> HIDE DEF action
    <2>3. SameButDialog(s, r) /\ r.app_inhibitors = s.app_inhibitors
      BY <2>2, Emitted
    <2> HIDE DEF r
    <2>4. Forward(s, r) /\ HoldsOn(s, r) /\ Same(s, r)
      BY <2>3, DialogOnly
    <2> QED
      BY <2>1, <2>4 DEF Same, Saves
  <1>2. CASE ~csm_manager_is_logout_inhibited(s)
    <2>1. end_session_or_report_inhibitors(s) = end_phase(s)
      BY <1>2 DEF end_session_or_report_inhibitors
    <2>2. s.phase = "QUERY_END_SESSION" /\ s.logout_type # "NONE"
      BY DEF Answered
    <2> QED
      BY <2>1, <2>2, EndPhaseStep DEF Saves, Stops
  <1> QED
    BY <1>1, <1>2

LEMMA CompletedStep ==
    ASSUME NEW s, Typed(s), Tracked(s), Answered(s)
    PROVE  LET r == query_end_session_complete(s)
           IN  /\ Forward(s, r) /\ HoldsOn(s, r) /\ r.clients = s.clients
               /\ Saves(s, r) => r.clients # {} /\ r.query_clients = r.clients
  <1> DEFINE a == [s EXCEPT !.query_timer = FALSE]
             r == end_session_or_report_inhibitors(a)
  <1>1. Typed(a) /\ Answered(a) /\ Same(s, a) /\ a.logout_type = s.logout_type
    BY DEF Typed, ManagerState, Answered, Same
  <1>2. query_end_session_complete(s) = r
    BY DEF query_end_session_complete
  <1> HIDE DEF a
  <1>3. Tracked(a)
    BY <1>1, SameLeaves
  <1>4. /\ Forward(a, r) /\ HoldsOn(a, r) /\ r.clients = a.clients
        /\ Saves(a, r) => r.clients # {} /\ r.query_clients = r.clients
    BY <1>1, <1>3, ReportedStep
  <1> HIDE DEF r
  <1> QED
    BY <1>1, <1>2, <1>4, AfterSame DEF Same

LEMMA QueryTimeoutStep ==
    ASSUME NEW s, Typed(s), Settled(s), Tracked(s), s.phase = "QUERY_END_SESSION"
    PROVE  LET r == _on_query_end_session_timeout(s)
           IN  /\ Forward(s, r) /\ HoldsOn(s, r)
               /\ Saves(s, r) => r.clients # {}
  <1> DEFINE fired == [s EXCEPT !.query_timer = FALSE]
             noted == IF s.logout_mode = "FORCE" THEN fired
                                                 ELSE AddJIT(fired, s.query_clients)
             listed == [noted EXCEPT !.query_clients = {}]
             r == query_end_session_complete(listed)
  <1>1. /\ Typed(fired) /\ Same(s, fired) /\ fired.logout_type = s.logout_type
        /\ fired.jit_inhibitors = s.jit_inhibitors /\ fired.phase_timer = s.phase_timer
        /\ fired.jit_inhibitors \cup s.query_clients \in SUBSET Clients
        /\ fired.app_inhibitors \in SUBSET Connections
    BY DEF Typed, ManagerState, Same
  <1>2. _on_query_end_session_timeout(s) = r
    BY DEF _on_query_end_session_timeout
  <1> HIDE DEF fired
  <1>3. /\ Typed(noted) /\ Same(s, noted) /\ noted.logout_type = s.logout_type
        /\ noted.jit_inhibitors \subseteq s.jit_inhibitors \cup s.query_clients
        /\ noted.phase_timer = s.phase_timer
    BY <1>1, InhibitorsSet DEF AddJIT, SameButDialog, Same
  <1> HIDE DEF noted
  <1>4. /\ Typed(listed) /\ Answered(listed) /\ Same(s, listed)
        /\ listed.logout_type = s.logout_type
    BY <1>3 DEF Typed, ManagerState, Answered, Settled, Same
  <1> HIDE DEF listed
  <1>5. Tracked(listed)
    BY <1>4, SameLeaves
  <1>6. /\ Forward(listed, r) /\ HoldsOn(listed, r)
        /\ Saves(listed, r) => r.clients # {}
    BY <1>4, <1>5, CompletedStep
  <1> HIDE DEF r
  <1> QED
    BY <1>2, <1>4, <1>6, AfterSame

LEMMA PhaseTimeoutStep ==
    ASSUME NEW s, Typed(s), Settled(s), Tracked(s), s.phase_timer
    PROVE  LET r == on_phase_timeout(s)
           IN  Forward(s, r) /\ HoldsOn(s, r) /\ r.phase = "EXIT"
  <1> DEFINE a == [s EXCEPT !.phase_timer = FALSE]
             r == end_phase(a)
  <1>1. /\ Typed(a) /\ Same(s, a) /\ a.logout_type = s.logout_type
        /\ a.logout_type # "NONE" /\ a.phase = "END_SESSION"
    BY DEF Typed, ManagerState, Settled, Phases, Same
  <1>2. on_phase_timeout(s) = r
    BY DEF on_phase_timeout
  <1> HIDE DEF a
  <1>3. Tracked(a)
    BY <1>1, SameLeaves
  <1>4. Forward(a, r) /\ HoldsOn(a, r) /\ r.phase = "EXIT"
    BY <1>1, <1>3, EndPhaseStep
  <1> HIDE DEF r
  <1> QED
    BY <1>1, <1>2, <1>4, AfterSame

LEMMA SaveStepStep ==
    ASSUME NEW s, Typed(s), Settled(s), Tracked(s), s.phase = "END_SESSION"
    PROVE  LET r == EndSessionStep(s)
           IN  /\ Forward(s, r) /\ HoldsOn(s, r) /\ r.clients = s.clients
               /\ s.query_clients # {} => Leaves(s, r)
  <1>1. /\ EndSessionStep(s) \in {s, do_phase_end_session_part_2(s), end_phase(s)}
        /\ s.query_clients # {} => EndSessionStep(s) = s
    BY DEF EndSessionStep
  <1>2. s.logout_type # "NONE"
    BY DEF Settled
  <1>3. Leaves(s, s) /\ Forward(s, s) /\ HoldsOn(s, s)
    BY SameLeaves DEF Same, Forward
  <1> QED
    BY <1>1, <1>2, <1>3, SecondPartSaves, EndPhaseStep

LEMMA ResponseStep ==
    ASSUME NEW s, Typed(s), Settled(s), Tracked(s), NEW c \in Clients,
           NEW is_ok \in BOOLEAN, NEW do_last \in BOOLEAN, NEW cancel \in BOOLEAN,
           is_ok \/ c \in s.clients
    PROVE  LET r == _handle_client_end_session_response(s, c, is_ok, do_last, cancel)
           IN  /\ Forward(s, r) \/ Cancels(s, r)
               /\ ~cancel => Forward(s, r) /\ r.clients = s.clients
               /\ HoldsOn(s, r)
               /\ Saves(s, r) => r.clients # {} /\ r.query_clients = r.clients
               /\ ~cancel /\ s.phase = "END_SESSION" /\ s.query_clients \ {c} # {}
                      => Leaves(s, r)
  <1> DEFINE answered == [s EXCEPT !.query_clients = @ \ {c}]
             noted == IF ~is_ok /\ s.logout_mode # "FORCE" THEN AddJIT(answered, {c})
                                                           ELSE RemoveJIT(answered, c)
             last == [noted EXCEPT !.next_query_clients = @ \cup {c}]
             r == _handle_client_end_session_response(s, c, is_ok, do_last, cancel)
             pending == s.query_clients \ {c}
  <1>1. CASE ~InShutdown(s)
    <2>1. r = s
      BY <1>1 DEF _handle_client_end_session_response, InShutdown
    <2>2. Leaves(s, s) /\ Forward(s, s) /\ HoldsOn(s, s)
      BY SameLeaves DEF Same, Forward
    <2> QED
      BY <1>1, <2>1, <2>2 DEF InShutdown, Saves
  <1>2. CASE InShutdown(s) /\ cancel
    <2>1. r = cancel_end_session(s)
      BY <1>2 DEF _handle_client_end_session_response
    <2> QED
      BY <1>2, <2>1, CancelStep DEF Saves, Cancels
  <1>3. CASE InShutdown(s) /\ ~cancel
    <2>1. /\ Typed(answered) /\ Same(s, answered)
          /\ answered.logout_type = s.logout_type /\ answered.phase_timer = s.phase_timer
          /\ answered.query_timer = s.query_timer
          /\ answered.dialog_action = s.dialog_action
          /\ answered.jit_inhibitors = s.jit_inhibitors
          /\ answered.query_clients = pending
          /\ answered.jit_inhibitors \cup {c} \in SUBSET Clients
          /\ answered.jit_inhibitors \ {c} \in SUBSET Clients
          /\ answered.app_inhibitors \in SUBSET Connections
      BY DEF Typed, ManagerState, Same
    <2>2. r = CASE s.phase = "QUERY_END_SESSION" ->
                     IF noted.query_clients = {} THEN query_end_session_complete(noted)
                                                 ELSE noted
                [] s.phase = "END_SESSION" ->
                     EndSessionStep(IF do_last THEN last ELSE noted)
                [] s.phase = "EXIT" -> noted
      BY <1>3 DEF _handle_client_end_session_response, InShutdown, Typed, ManagerState, Phases
    <2> HIDE DEF answered
    <2>3. /\ Typed(noted) /\ Same(s, noted)
          /\ noted.logout_type = s.logout_type /\ noted.phase_timer = s.phase_timer
          /\ noted.query_timer = s.query_timer
          /\ noted.jit_inhibitors \subseteq s.jit_inhibitors \cup {c}
          /\ is_ok => c \notin noted.jit_inhibitors
          /\ noted.query_clients = pending
      BY <2>1, InhibitorsSet DEF AddJIT, RemoveJIT, SameButDialog, Same
    <2> HIDE DEF noted, pending
    <2>4. noted.jit_inhibitors \subseteq s.clients
      BY <2>3 DEF Settled
    <2>5. Tracked(noted) /\ Leaves(s, noted) /\ HoldsOn(s, noted) /\ Forward(s, noted)
      BY <2>3, SameLeaves DEF Forward
    <2>6. CASE s.phase = "QUERY_END_SESSION" /\ noted.query_clients = {}
      <3> DEFINE q == query_end_session_complete(noted)
      <3>1. r = q
        BY <2>2, <2>6
      <3>2. Answered(noted)
        BY <2>3, <2>4, <2>6 DEF Answered, Settled, Same
      <3>3. /\ Forward(noted, q) /\ HoldsOn(noted, q) /\ q.clients = noted.clients
            /\ Saves(noted, q) => q.clients # {} /\ q.query_clients = q.clients
        BY <2>3, <2>5, <3>2, CompletedStep
      <3> HIDE DEF q
      <3> QED
        BY <1>3, <2>3, <2>6, <3>1, <3>3, AfterSame DEF Same
    <2>7. CASE s.phase = "EXIT" \/ (s.phase = "QUERY_END_SESSION" /\ noted.query_clients # {})
      <3>1. r = noted
        BY <2>2, <2>7
      <3>2. r.clients = s.clients /\ ~Saves(s, r)
        BY <2>3, <2>7, <3>1 DEF Same, Saves
      <3> QED
        BY <1>3, <2>5, <2>7, <3>1, <3>2
    <2>8. CASE s.phase = "END_SESSION"
      <3> DEFINE t == IF do_last THEN last ELSE noted
                 q == EndSessionStep(t)
      <3>1. r = q
        BY <2>2, <2>8
      <3>2. /\ Typed(t) /\ Settled(t) /\ Same(s, t) /\ t.logout_type = s.logout_type
            /\ t.query_clients = pending
        BY <2>3, <2>4, <2>8 DEF Typed, ManagerState, Settled, Same
      <3>3. Tracked(t) /\ t.phase = "END_SESSION"
        BY <2>8, <3>2, SameLeaves DEF Same
      <3> HIDE DEF t
      <3>4. /\ Forward(t, q) /\ HoldsOn(t, q) /\ q.clients = t.clients
            /\ t.query_clients # {} => Leaves(t, q)
        BY <3>2, <3>3, SaveStepStep
      <3> HIDE DEF q
      <3>5. ~Saves(s, r)
        BY <2>8 DEF Saves
      <3> QED
        BY <1>3, <2>8, <3>1, <3>2, <3>4, <3>5, AfterSame DEF Same, pending
    <2> QED
      BY <1>3, <2>6, <2>7, <2>8 DEF InShutdown, Typed, ManagerState, Phases
  <1> QED
    BY <1>1, <1>2, <1>3

LEMMA DisconnectStep ==
    ASSUME NEW s, Typed(s), Settled(s), Tracked(s), NEW c \in Clients
    PROVE  LET r == _disconnect_client(s, c)
           IN  /\ Forward(s, r) /\ HoldsOn(s, r) /\ r.clients = s.clients
               /\ Saves(s, r) => r.query_clients = r.clients
               /\ s.phase = "END_SESSION" /\ s.query_clients \ {c} # {} => Leaves(s, r)
  <1> DEFINE t == RemoveJIT(s, c)
             u == _handle_client_end_session_response(t, c, TRUE, FALSE, FALSE)
  <1>1. /\ Typed(t) /\ SameButDialog(s, t) /\ t.dialog_action = s.dialog_action
        /\ t.jit_inhibitors = s.jit_inhibitors \ {c} /\ t.app_inhibitors = s.app_inhibitors
    <2>1. s.jit_inhibitors \ {c} \in SUBSET Clients /\ s.app_inhibitors \in SUBSET Connections
      BY DEF Typed, ManagerState
    <2> QED
      BY <2>1, InhibitorsSet DEF RemoveJIT
  <1>2. _disconnect_client(s, c) \in {t, u}
    BY DEF _disconnect_client
  <1> HIDE DEF t
  <1>3. Settled(t)
    BY <1>1 DEF Settled, SameButDialog
  <1>4. Same(s, t) /\ Forward(s, t) /\ HoldsOn(s, t) /\ Tracked(t) /\ Leaves(s, t)
    BY <1>1, DialogOnly, SameLeaves
  <1>5. /\ Forward(t, u) /\ HoldsOn(t, u) /\ u.clients = t.clients
        /\ Saves(t, u) => u.query_clients = u.clients
        /\ t.phase = "END_SESSION" /\ t.query_clients \ {c} # {} => Leaves(t, u)
    BY <1>1, <1>3, <1>4, ResponseStep
  <1> HIDE DEF u
  <1>6. t.clients = s.clients /\ ~Saves(s, t) /\ t.logout_type = s.logout_type
        /\ t.query_clients = s.query_clients /\ t.phase = s.phase
    BY <1>1 DEF SameButDialog, Saves
  <1> QED
    BY <1>2, <1>4, <1>5, <1>6, AfterSame

LEMMA RemoveStep ==
    ASSUME NEW s, Typed(s), Settled(s), Tracked(s), NEW c \in Clients
    PROVE  LET r == RemoveClient(s, c)
           IN  /\ Forward(s, r) /\ HoldsOn(s, r) /\ r.clients = s.clients \ {c}
               /\ Saves(s, r) => r.clients \subseteq r.query_clients
               /\ s.phase = "END_SESSION" /\ s.query_clients \ {c} # {} => Leaves(s, r)
  <1> DEFINE t == _disconnect_client(s, c)
             told == [t.told EXCEPT ![c] = "none"]
             r == [t EXCEPT !.clients = @ \ {c}, !.told = told]
  <1>1. Typed(t) /\ t.clients = s.clients
    BY Disconnected
  <1>2. /\ Forward(s, t) /\ HoldsOn(s, t)
        /\ Saves(s, t) => t.query_clients = t.clients
        /\ s.phase = "END_SESSION" /\ s.query_clients \ {c} # {} => Leaves(s, t)
    BY DisconnectStep
  <1>3. RemoveClient(s, c) = r
    BY <1>1 DEF RemoveClient, Typed, ManagerState
  <1>4. Tracked(t)
    BY <1>2, StillTracked
  <1> HIDE DEF t
  <1>5. told = [x \in Clients |-> IF x \in t.clients \ {c} THEN t.told[x] ELSE "none"]
    BY <1>1, <1>4 DEF Typed, ManagerState, Tracked, Apart
  <1> HIDE DEF told
  <1>6. /\ r.phase = t.phase /\ r.clients = t.clients \ {c} /\ r.told = told
        /\ r.power_request = t.power_request /\ r.loop = t.loop
        /\ r.logout_type = t.logout_type /\ r.app_inhibitors = t.app_inhibitors
        /\ r.query_clients = t.query_clients
    BY <1>1 DEF Typed, ManagerState
  <1> HIDE DEF r
  <1>7. Leaves(t, r) /\ Forward(t, r) /\ HoldsOn(t, r)
    BY <1>5, <1>6 DEF Leaves, Forward, GoesOn, Over, HoldsOn
  <1>8. Forward(s, r) /\ HoldsOn(s, r)
    BY <1>2, <1>7, Composed, HoldsOnTwice
  <1>9. Saves(s, r) => r.clients \subseteq r.query_clients
    <2> SUFFICES ASSUME Saves(s, r) PROVE r.clients \subseteq r.query_clients
      OBVIOUS
    <2>1. s.phase = "QUERY_END_SESSION" /\ t.phase = "END_SESSION"
      BY <1>6 DEF Saves
    <2>2. Saves(s, t)
      BY <1>2, <2>1 DEF Forward, Leaves, SavesLast, Stops, StopsAgain
    <2> QED
      BY <1>2, <1>6, <2>2
  <1>10. Leaves(s, t) => Leaves(s, r)
    BY <1>7 DEF Leaves, GoesOn
  <1> QED
    BY <1>1, <1>2, <1>3, <1>6, <1>8, <1>9, <1>10

\* A phase that has lost its last client ends.
LEMMA NobodyLeftStep ==
    ASSUME NEW s, Typed(s), Settled(s), Tracked(s)
    PROVE  LET r == EndPhaseIfNobodyIsLeft(s)
           IN  /\ Forward(s, r) /\ HoldsOn(s, r) /\ r.clients = s.clients
               /\ Leaves(s, r) \/ (r.clients = {} /\ ~SavesLast(s, r))
               /\ ~Saves(s, r)
               /\ InShutdown(s) /\ s.clients = {} => r.phase = "EXIT"
               /\ s.clients # {} => r = s
  <1>1. CASE InShutdown(s) /\ s.clients = {}
    <2> DEFINE r == end_phase(s)
    <2>1. EndPhaseIfNobodyIsLeft(s) = r
      BY <1>1 DEF EndPhaseIfNobodyIsLeft
    <2>2. s.logout_type # "NONE" /\ s.phase # "RUNNING"
      BY <1>1 DEF InShutdown, Settled
    <2>3. /\ Forward(s, r) /\ HoldsOn(s, r) /\ r.clients = s.clients
          /\ s.phase \in {"END_SESSION", "EXIT"} => r.phase = "EXIT"
          /\ s.phase = "QUERY_END_SESSION" =>
                 Stops(s, r) \/ (Saves(s, r) /\ r.clients # {})
      BY <2>2, EndPhaseStep
    <2> HIDE DEF r
    <2>4. r.phase = "EXIT"
      BY <1>1, <2>2, <2>3 DEF Stops, Typed, ManagerState, Phases
    <2> QED
      BY <1>1, <2>1, <2>3, <2>4 DEF Saves, SavesLast
  <1>2. CASE ~(InShutdown(s) /\ s.clients = {})
    <2>1. EndPhaseIfNobodyIsLeft(s) = s
      BY <1>2 DEF EndPhaseIfNobodyIsLeft
    <2>2. Leaves(s, s) /\ Forward(s, s) /\ HoldsOn(s, s)
      BY SameLeaves DEF Same, Forward
    <2> QED
      BY <1>2, <2>1, <2>2 DEF Saves
  <1> QED
    BY <1>1, <1>2

\* What the end of a departure leaves to the second, if there is one: nobody
\* is told to save who could be told something else by it.
LEMMA DepartureStep ==
    ASSUME NEW s, Typed(s), Settled(s), Tracked(s), NEW c \in Clients
    PROVE  LET r == on_client_disconnected(s, c)
           IN  /\ Forward(s, r) /\ HoldsOn(s, r) /\ r.clients = s.clients \ {c}
               /\ Saves(s, r) => r.clients # {} /\ r.clients \subseteq r.query_clients
               /\ /\ s.phase = "END_SESSION"
                  /\ s.query_clients \ {c} # {}
                  /\ s.clients \ {c} # {}
                  => Leaves(s, r)
  <1> DEFINE t == RemoveClient(s, c)
             r == EndPhaseIfNobodyIsLeft(t)
  <1>1. Typed(t) /\ Settled(t)
    BY Removed
  <1>2. /\ Forward(s, t) /\ HoldsOn(s, t) /\ t.clients = s.clients \ {c}
        /\ Saves(s, t) => t.clients \subseteq t.query_clients
        /\ s.phase = "END_SESSION" /\ s.query_clients \ {c} # {} => Leaves(s, t)
    BY RemoveStep
  <1>3. on_client_disconnected(s, c) = r
    BY DEF on_client_disconnected
  <1>4. Tracked(t)
    BY <1>2, StillTracked
  <1> HIDE DEF t
  <1>5. /\ Forward(t, r) /\ HoldsOn(t, r) /\ r.clients = t.clients
        /\ Leaves(t, r) \/ (r.clients = {} /\ ~SavesLast(t, r))
        /\ ~Saves(t, r)
        /\ InShutdown(t) /\ t.clients = {} => r.phase = "EXIT"
        /\ t.clients # {} => r = t
    BY <1>1, <1>4, NobodyLeftStep
  <1> HIDE DEF r
  <1>6. Saves(s, t) => Leaves(t, r) \/ (Stops(t, r) /\ r.clients = {})
    BY <1>5 DEF Saves, Forward, SavesLast, StopsAgain
  <1>7. Forward(s, r) /\ HoldsOn(s, r)
    BY <1>2, <1>5, <1>6, Composed, HoldsOnTwice
  <1>8. ASSUME Saves(s, r)
        PROVE  r.clients # {} /\ r.clients \subseteq r.query_clients
    <2>1. t.clients # {} /\ r = t
      BY <1>2, <1>5, <1>8 DEF Saves, InShutdown, Forward, Leaves, SavesLast, Stops, StopsAgain
    <2> QED
      BY <1>2, <1>8, <2>1
  <1> QED
    BY <1>2, <1>3, <1>5, <1>7, <1>8

\* A registered XSMP client's departure is processed twice.
LEMMA DepartureTwiceStep ==
    ASSUME NEW s, Typed(s), Settled(s), Tracked(s), NEW c \in Clients
    PROVE  LET r == on_client_disconnected(on_client_disconnected(s, c), c)
           IN  /\ Forward(s, r) /\ HoldsOn(s, r)
               /\ Saves(s, r) => r.clients # {}
  <1> DEFINE once == on_client_disconnected(s, c)
             r == on_client_disconnected(once, c)
  <1>1. Typed(once) /\ Settled(once)
    BY ClientLeft
  <1>2. /\ Forward(s, once) /\ HoldsOn(s, once) /\ once.clients = s.clients \ {c}
        /\ Saves(s, once) => once.clients # {} /\ once.clients \subseteq once.query_clients
    BY DepartureStep
  <1>3. Tracked(once)
    BY <1>2, StillTracked
  <1> HIDE DEF once
  <1>4. /\ Forward(once, r) /\ HoldsOn(once, r) /\ r.clients = once.clients \ {c}
        /\ Saves(once, r) => r.clients # {}
        /\ /\ once.phase = "END_SESSION"
           /\ once.query_clients \ {c} # {}
           /\ once.clients \ {c} # {}
           => Leaves(once, r)
    BY <1>1, <1>3, DepartureStep
  <1> HIDE DEF r
  <1>5. Saves(s, once) => Leaves(once, r) /\ r.clients # {}
    <2> SUFFICES ASSUME Saves(s, once) PROVE Leaves(once, r) /\ r.clients # {}
      OBVIOUS
    <2>1. once.phase = "END_SESSION" /\ once.clients = once.clients \ {c}
      BY <1>2 DEF Saves
    <2>2. once.query_clients \ {c} # {}
      BY <1>2, <2>1
    <2> QED
      BY <1>2, <1>4, <2>1, <2>2
  <1>6. Forward(s, r) /\ HoldsOn(s, r)
    BY <1>2, <1>4, <1>5, Composed, HoldsOnTwice
  <1>7. Saves(s, r) => Saves(s, once) \/ Saves(once, r)
    BY <1>2, <1>4 DEF Saves, Forward, Leaves, SavesLast, Stops, StopsAgain
  <1> QED
    BY <1>4, <1>5, <1>6, <1>7 DEF once, r

\* The inhibitors of the name are gone, those of others stay.
LEMMA NameLostStep ==
    ASSUME NEW s, Typed(s), Settled(s), Tracked(s), NEW o \in Connections
    PROVE  LET r == on_name_lost_owner(s, o)
           IN  /\ Forward(s, r)
               /\ HoldsOn([s EXCEPT !.app_inhibitors = @ \ {o}], r)
               /\ Saves(s, r) => r.clients # {}
  <1> DEFINE without == [s EXCEPT !.app_inhibitors = @ \ {o}]
             t == SetInhibitors(s, s.jit_inhibitors \ {o}, s.app_inhibitors \ {o})
             u == IF o \in s.clients THEN RemoveClient(t, o) ELSE t
             r == EndPhaseIfNobodyIsLeft(u)
  <1>1. /\ Typed(t) /\ SameButDialog(s, t) /\ t.dialog_action = s.dialog_action
        /\ t.jit_inhibitors = s.jit_inhibitors \ {o}
        /\ t.app_inhibitors = s.app_inhibitors \ {o}
    <2>1. /\ s.jit_inhibitors \ {o} \in SUBSET Clients
          /\ s.app_inhibitors \ {o} \in SUBSET Connections
      BY DEF Typed, ManagerState
    <2> QED
      BY <2>1, InhibitorsSet
  <1>2. on_name_lost_owner(s, o) = r
    BY DEF on_name_lost_owner
  <1> HIDE DEF t
  <1>3. Settled(t)
    BY <1>1 DEF Settled, SameButDialog
  <1>4. /\ Typed(without) /\ Tracked(without) /\ Same(without, t)
        /\ t.logout_type = without.logout_type
        /\ \A x : Forward(without, x) => Forward(s, x)
        /\ \A x : Saves(s, x) => Saves(without, x)
    <2>1. /\ Typed(without) /\ without.phase = s.phase /\ without.clients = s.clients
          /\ without.told = s.told /\ without.power_request = s.power_request
          /\ without.loop = s.loop /\ without.logout_type = s.logout_type
          /\ without.app_inhibitors = s.app_inhibitors \ {o}
      BY DEF Typed, ManagerState
    <2> HIDE DEF without
    <2>2. Tracked(without) /\ Same(without, t) /\ t.logout_type = without.logout_type
      BY <1>1, <2>1 DEF Tracked, Apart, Told, Same, SameButDialog
    <2>3. ASSUME NEW x, Forward(without, x)
          PROVE  Forward(s, x)
      BY <2>1, <2>3
         DEF Forward, Leaves, Saves, SavesLast, Stops, StopsAgain, GoesOn, Quits, Over
    <2>4. ASSUME NEW x, Saves(s, x)
          PROVE  Saves(without, x)
      BY <2>1, <2>4 DEF Saves, GoesOn, Over
    <2> QED
      BY <2>1, <2>2, <2>3, <2>4
  <1>5. Tracked(t) /\ Leaves(t, t) /\ Forward(t, t) /\ HoldsOn(t, t)
    <2>1. Tracked(t)
      BY <1>4, SameLeaves
    <2> QED
      BY <1>1, <2>1, SameLeaves DEF Same, Forward
  <1>6. o \in s.clients => o \in Clients
    BY DEF Typed, ManagerState
  <1>7. Typed(u) /\ Settled(u) /\ Forward(t, u) /\ HoldsOn(t, u)
    BY <1>1, <1>3, <1>5, <1>6, Removed, RemoveStep
  <1>8. Tracked(u)
    BY <1>5, <1>7, StillTracked
  <1> HIDE DEF u
  <1>9. /\ Forward(u, r) /\ HoldsOn(u, r) /\ r.clients = u.clients
        /\ Leaves(u, r) \/ (r.clients = {} /\ ~SavesLast(u, r))
        /\ ~Saves(u, r)
        /\ InShutdown(u) /\ u.clients = {} => r.phase = "EXIT"
    BY <1>7, <1>8, NobodyLeftStep
  <1> HIDE DEF r
  <1>10. Saves(t, u) => Leaves(u, r) \/ (Stops(u, r) /\ r.clients = {})
    BY <1>9 DEF Saves, Forward, SavesLast, StopsAgain
  <1>11. Forward(t, r) /\ HoldsOn(t, r)
    BY <1>7, <1>9, <1>10, Composed, HoldsOnTwice
  <1>12. Saves(t, r) => r.clients # {}
    BY <1>7, <1>9 DEF Saves, InShutdown, Forward, Leaves, SavesLast, Stops, StopsAgain
  <1> HIDE DEF without
  <1>13. Forward(without, r) /\ HoldsOn(without, r) /\ (Saves(without, r) => Saves(t, r))
    BY <1>4, <1>11, AfterSame
  <1> QED
    BY <1>2, <1>4, <1>12, <1>13 DEF without

-----------------------------------------------------------------------------
(* Handlers that start with a request.                                     *)

\* What an action may do between a state and the next.
Steps(s, r) ==
    \/ Forward(s, r) /\ (Saves(s, r) => r.clients # {})
    \/ Asks(s, r)
    \/ Cancels(s, r)

\* A request changes only how the session is to end before it ends the phase,
\* or shows the dialog.
LEMMA EndRequested ==
    ASSUME NEW s, Typed(s), Tracked(s), NEW t, Same(s, t), Typed(t), t.logout_type # "NONE"
    PROVE  LET r == end_phase(t)
           IN  Steps(t, r) /\ HoldsOn(s, r)
  <1>1. Tracked(t) /\ HoldsOn(s, t)
    BY SameLeaves
  <1>2. s.phase = t.phase
    BY DEF Same
  <1> QED
    BY <1>1, <1>2, EndPhaseStep, HoldsOnTwice DEF Steps, Saves, Stops

LEMMA LaunchSame ==
    ASSUME NEW s, Typed(s), s.phase = "RUNNING"
    PROVE  Same(s, launch_gtk_dialog([s EXCEPT !.logout_mode = "NORMAL"]))
  BY DEF launch_gtk_dialog, Typed, ManagerState, Same

-----------------------------------------------------------------------------
(* The refinement.                                                         *)

\* What is known of the clients before a step.
LEMMA TrackedInStep ==
    ASSUME Inv, ClientsInStep
    PROVE  Tracked(m)
  <1>1. m \in ManagerState
    BY DEF Inv, TypeOK
  <1>2. Apart(m)
    BY DEF ClientsInStep, Apart
  <1>3. ASSUME m.phase = "EXIT"
        PROVE  Told(m, "Stop")
    <2>1. m.told = [c \in Clients |-> m.told[c]]
      BY <1>1 DEF ManagerState
    <2>2. \A c \in Clients : m.told[c] = IF c \in m.clients THEN "Stop" ELSE "none"
      BY <1>3 DEF ClientsInStep
    <2> QED
      BY <2>1, <2>2 DEF Told
  <1> QED
    BY <1>2, <1>3 DEF Tracked

\* A relation of records is a step of the protocol, whatever the manager
\* noted first that the protocol does not see.
LEMMA StepImplements ==
    ASSUME NEW s, Same(m, s), Steps(s, m')
    PROVE  Protocol!Next
  <1>1. /\ m.phase = s.phase /\ m.clients = s.clients /\ m.told = s.told
        /\ m.power_request = s.power_request /\ m.loop = s.loop
    BY DEF Same
  <1>2. CASE Leaves(s, m')
    BY <1>1, <1>2 DEF Leaves, GoesOn, Over, Protocol!Next, Protocol!Leave
  <1>3. CASE Saves(s, m') /\ m'.clients # {}
    BY <1>1, <1>3 DEF Saves, Told, GoesOn, Over, Protocol!Next, Protocol!Save, Protocol!AllTold
  <1>4. CASE SavesLast(s, m')
    BY <1>1, <1>4 DEF SavesLast, GoesOn, Over, Protocol!Next, Protocol!SaveLast
  <1>5. ASSUME Quits(s, m')
        PROVE  Protocol!Quit
    BY <1>1, <1>5 DEF Quits, Over, Protocol!Quit
  <1>6. CASE Stops(s, m')
    BY <1>1, <1>5, <1>6 DEF Stops, Told, Protocol!Next, Protocol!Stop, Protocol!AllTold
  <1>7. CASE StopsAgain(s, m')
    BY <1>1, <1>5, <1>7
       DEF StopsAgain, Told, Protocol!Next, Protocol!StopAgain, Protocol!AllTold
  <1>8. CASE Asks(s, m')
    BY <1>1, <1>8 DEF Asks, Told, GoesOn, Over, Protocol!Next, Protocol!Ask, Protocol!AllTold
  <1>9. CASE Cancels(s, m')
    BY <1>1, <1>9
       DEF Cancels, Told, GoesOn, Over, Protocol!Next, Protocol!Cancel, Protocol!AllTold
  <1> QED
    BY <1>2, <1>3, <1>4, <1>6, <1>7, <1>8, <1>9 DEF Steps, Forward

\* What is proved of an action.
Implemented == [Protocol!Next]_(Protocol!vars) /\ HoldersKept'

\* A handler that leaves the connections' record of what they hold alone.
LEMMA HandlerImplements ==
    ASSUME HoldersKept, holders' = holders,
           NEW s, Same(m, s), Steps(s, m'), HoldsOn(m, m')
    PROVE  Implemented
  <1>1. HoldersKept'
    BY DEF HoldersKept, Running, HoldsOn
  <1> QED
    BY <1>1, StepImplements DEF Implemented

\* The protocol does not see the rest.
LEMMA UnseenImplements ==
    ASSUME m'.phase = m.phase, m'.clients = m.clients, m'.told = m.told,
           m'.power_request = m.power_request, Over(m') = Over(m), HoldersKept'
    PROVE  Implemented
  BY DEF Implemented, Protocol!vars, Over

LEMMA SameSelf == \A s : Same(s, s)
  BY DEF Same

LEMMA RequestImplements ==
    ASSUME Inv, ClientsInStep, HoldersKept, Request
    PROVE  Implemented
  <1>1. Typed(m) /\ Settled(m) /\ Tracked(m)
    BY InvTyped, TrackedInStep
  <1>2. ASSUME m.phase = "RUNNING", UNCHANGED env,
               m' = launch_gtk_dialog([m EXCEPT !.logout_mode = "NORMAL"])
        PROVE  Implemented
    <2>1. Same(m, m')
      BY <1>1, <1>2, LaunchSame
    <2> QED
      BY <1>2, <2>1, UnseenImplements DEF Same, Over, HoldersKept, Running, env
  <1>3. ASSUME NEW mode \in LogoutModes, UNCHANGED env, m' = request_logout(m, mode)
        PROVE  Implemented
    <2> DEFINE t == [m EXCEPT !.logout_mode = mode, !.logout_type = "LOGOUT"]
    <2>1. Typed(t) /\ Same(m, t) /\ t.logout_type # "NONE"
      BY <1>1 DEF Typed, ManagerState, LogoutTypes, Same
    <2>2. m' = end_phase(t)
      BY <1>3 DEF request_logout
    <2> HIDE DEF t
    <2> QED
      BY <1>1, <1>3, <2>1, <2>2, EndRequested, HandlerImplements DEF env
  <1>4. ASSUME NEW type \in {"SHUTDOWN", "REBOOT"}, UNCHANGED env, m' = request_power(m, type)
        PROVE  Implemented
    <2> DEFINE t == [m EXCEPT !.logout_type = type]
    <2>1. Typed(t) /\ Same(m, t) /\ t.logout_type # "NONE"
      BY <1>1 DEF Typed, ManagerState, LogoutTypes, Same
    <2>2. m' = end_phase(t)
      BY <1>4 DEF request_power
    <2> HIDE DEF t
    <2> QED
      BY <1>1, <1>4, <2>1, <2>2, EndRequested, HandlerImplements DEF env
  <1> QED
    BY <1>2, <1>3, <1>4 DEF Request, Logout, ShowShutdownDialog, RequestPower

LEMMA ClientStepImplements ==
    ASSUME Inv, ClientsInStep, HoldersKept, ClientStep
    PROVE  Implemented
  <1>1. Typed(m) /\ Settled(m) /\ Tracked(m)
    BY InvTyped, TrackedInStep
  <1>2. PICK c \in Clients :
            \/ RegisterClient(c)
            \/ \E is_ok \in BOOLEAN : EndSessionResponse(c, is_ok)
            \/ SaveYourselfPhase2Request(c)
            \/ InteractRequest(c)
            \/ \E cancel \in BOOLEAN : InteractDone(c, cancel)
            \/ SaveYourselfDone(c)
            \/ \E registered \in BOOLEAN : XSMPDisconnected(c, registered)
            \/ ClientVanished(c)
    BY DEF ClientStep
  <1>3. CASE RegisterClient(c)
    <2>1. /\ m.phase = "RUNNING" /\ c \notin m.clients /\ holders' = holders
          /\ m' = [m EXCEPT !.clients = @ \cup {c}]
      BY <1>3 DEF RegisterClient, env
    <2>2. /\ m'.phase = m.phase /\ m'.clients = m.clients \cup {c} /\ m'.told = m.told
          /\ m'.power_request = m.power_request /\ m'.loop = m.loop
          /\ m'.app_inhibitors = m.app_inhibitors
      BY <1>1, <2>1 DEF Typed, ManagerState
    <2>3. Protocol!Join(c)
      BY <2>1, <2>2 DEF Protocol!Join
    <2> QED
      BY <2>1, <2>2, <2>3 DEF Implemented, Protocol!Next, HoldersKept, Running
  <1>4. ASSUME NEW is_ok \in BOOLEAN, NEW do_last \in BOOLEAN, NEW cancel \in BOOLEAN,
               Respond(c, is_ok, do_last, cancel)
        PROVE  Implemented
    <2>1. /\ c \in m.clients /\ holders' = holders
          /\ m' = _handle_client_end_session_response(m, c, is_ok, do_last, cancel)
      BY <1>4 DEF Respond, env
    <2>2. Steps(m, m') /\ HoldsOn(m, m')
      BY <1>1, <2>1, ResponseStep DEF Steps
    <2> QED
      BY <2>1, <2>2, SameSelf, HandlerImplements
  <1>5. ASSUME NEW registered \in BOOLEAN, XSMPDisconnected(c, registered)
        PROVE  Implemented
    <2>1. /\ holders' = holders
          /\ m' \in {on_client_disconnected(m, c),
                     on_client_disconnected(on_client_disconnected(m, c), c)}
      BY <1>5 DEF XSMPDisconnected, env
    <2>2. Steps(m, m') /\ HoldsOn(m, m')
      BY <1>1, <2>1, DepartureStep, DepartureTwiceStep DEF Steps
    <2> QED
      BY <2>1, <2>2, SameSelf, HandlerImplements
  <1>6. CASE ClientVanished(c)
    <2>1. holders' = holders /\ m' = on_client_disconnected(m, c)
      BY <1>6 DEF ClientVanished, env
    <2>2. Steps(m, m') /\ HoldsOn(m, m')
      BY <1>1, <2>1, DepartureStep DEF Steps
    <2> QED
      BY <2>1, <2>2, SameSelf, HandlerImplements
  <1> QED
    BY <1>2, <1>3, <1>4, <1>5, <1>6
       DEF EndSessionResponse, SaveYourselfPhase2Request, InteractRequest, InteractDone,
           SaveYourselfDone

\* A connection that holds an inhibitor and is no releaser loses it only with
\* its name, and then it has left the bus.
LEMMA BusStepImplements ==
    ASSUME Inv, ClientsInStep, HoldersKept, BusStep
    PROVE  Implemented
  <1>1. Typed(m) /\ Settled(m) /\ Tracked(m) /\ holders \cap left = {}
    BY InvTyped, TrackedInStep DEF Inv, TypeOK
  <1>2. PICK o \in Connections :
            Inhibit(o) \/ Uninhibit(o) \/ LeaveBus(o) \/ NameOwnerChanged(o) \/ ReleaseName(o)
    BY DEF BusStep
  <1>3. ASSUME NEW app \in SUBSET Connections, m' = SetInhibitors(m, m.jit_inhibitors, app)
        PROVE  SameButDialog(m, m') /\ m'.app_inhibitors = app
    <2>1. m.jit_inhibitors \in SUBSET Clients
      BY <1>1 DEF Typed, ManagerState
    <2> QED
      BY <1>1, <1>3, <2>1, InhibitorsSet
  <1>4. CASE Inhibit(o)
    <2>1. m.app_inhibitors \cup {o} \in SUBSET Connections
      BY <1>1 DEF Typed, ManagerState
    <2>2. SameButDialog(m, m') /\ m'.app_inhibitors = m.app_inhibitors \cup {o}
      BY <1>3, <1>4, <2>1 DEF Inhibit
    <2>3. HoldersKept'
      BY <1>4, <2>2 DEF Inhibit, SameButDialog, HoldersKept, Running
    <2> QED
      BY <2>2, <2>3, UnseenImplements DEF SameButDialog, Over
  <1>5. CASE Uninhibit(o)
    <2>1. m.app_inhibitors \ {o} \in SUBSET Connections
      BY <1>1 DEF Typed, ManagerState
    <2>2. SameButDialog(m, m') /\ m'.app_inhibitors = m.app_inhibitors \ {o}
      BY <1>3, <1>5, <2>1 DEF Uninhibit
    <2>3. HoldersKept'
      BY <1>5, <2>2 DEF Uninhibit, SameButDialog, HoldersKept, Running
    <2> QED
      BY <2>2, <2>3, UnseenImplements DEF SameButDialog, Over
  <1>6. CASE LeaveBus(o)
    BY <1>6, UnseenImplements DEF LeaveBus, HoldersKept, Running, Over
  <1>7. ASSUME m' = on_name_lost_owner(m, o), holders' = holders,
               Running, o \in left \cup Releasers
        PROVE  Implemented
    <2> DEFINE without == [m EXCEPT !.app_inhibitors = @ \ {o}]
    <2>1. Forward(m, m') /\ HoldsOn(without, m') /\ (Saves(m, m') => m'.clients # {})
      BY <1>1, <1>7, NameLostStep
    <2>2. /\ without.power_request = m.power_request /\ without.loop = m.loop
          /\ without.app_inhibitors = m.app_inhibitors \ {o}
      BY <1>1 DEF Typed, ManagerState
    <2> HIDE DEF without
    <2>3. HoldersKept'
      BY <1>1, <1>7, <2>1, <2>2 DEF HoldersKept, Running, HoldsOn
    <2>4. Protocol!Next
      BY <2>1, SameSelf, StepImplements DEF Steps
    <2> QED
      BY <2>3, <2>4 DEF Implemented
  <1> QED
    BY <1>2, <1>4, <1>5, <1>6, <1>7 DEF NameOwnerChanged, ReleaseName, env

LEMMA DialogStepImplements ==
    ASSUME Inv, ClientsInStep, HoldersKept, DialogStep
    PROVE  Implemented
  <1>1. Typed(m) /\ Settled(m) /\ Tracked(m)
    BY InvTyped, TrackedInStep
  <1>2. ASSUME Same(m, m'), holders' = holders
        PROVE  Implemented
    BY <1>2, UnseenImplements DEF Same, HoldersKept, Running, Over
  <1>3. ASSUME NEW call, NEW then, DialogSends(call, then)
        PROVE  Implemented
    BY <1>1, <1>2, <1>3 DEF DialogSends, env, Same, Typed, ManagerState
  <1>4. CASE DialogExits
    BY <1>1, <1>2, <1>4, DialogClosedSame DEF DialogExits, env
  <1>5. CASE HandleDialogCall
    <2> DEFINE rest == Tail(m.calls)
               s == [m EXCEPT !.calls = rest]
               call == Head(m.calls)
               closed == close_end_session_dialog(s)
    <2>1. rest \in Seq(DialogCalls) /\ Len(rest) <= MaxCalls /\ call \in DialogCalls
      BY <1>1, <1>5, ConstantsAssumption DEF HandleDialogCall, Typed, ManagerState
    <2>2. m' = handle_dialog_method_call(s, call) /\ holders' = holders /\ Running
      BY <1>5 DEF HandleDialogCall, env
    <2> HIDE DEF rest, call
    <2>3. Typed(s) /\ Settled(s) /\ Same(m, s)
      BY <1>1, <2>1 DEF Typed, ManagerState, Settled, Same
    <2> HIDE DEF s
    <2>4. Tracked(s) /\ HoldsOn(m, s)
      BY <1>1, <2>3, SameLeaves
    <2>5. Typed(closed) /\ Settled(closed) /\ Same(m, closed) /\ Tracked(closed)
      BY <1>1, <2>3, DialogClosed, DialogClosedSame, SameLeaves DEF Same
    <2>6. ASSUME NEW t, Typed(t), Same(m, t), t.logout_type # "NONE", m' = end_phase(t)
          PROVE  Implemented
      <3>1. Steps(t, m') /\ HoldsOn(m, m')
        BY <1>1, <2>6, EndRequested
      <3> QED
        BY <2>2, <2>6, <3>1, HandlerImplements
    <2>7. CASE call = "Logout"
      <3> DEFINE t == [s EXCEPT !.logout_mode = "NO_CONFIRMATION", !.logout_type = "LOGOUT"]
      <3>1. Typed(t) /\ Same(m, t) /\ t.logout_type # "NONE"
        BY <2>3 DEF Typed, ManagerState, LogoutTypes, LogoutModes, Same
      <3>2. m' = end_phase(t)
        BY <2>2, <2>7 DEF handle_dialog_method_call, request_logout
      <3> HIDE DEF t
      <3> QED
        BY <2>6, <3>1, <3>2
    <2>8. CASE call \in {"Shutdown", "Restart"}
      <3> DEFINE t == [s EXCEPT !.logout_type = IF call = "Shutdown" THEN "SHUTDOWN" ELSE "REBOOT"]
      <3>1. Typed(t) /\ Same(m, t) /\ t.logout_type # "NONE"
        BY <2>3 DEF Typed, ManagerState, LogoutTypes, Same
      <3>2. m' = end_phase(t)
        BY <2>2, <2>8 DEF handle_dialog_method_call, request_power
      <3> HIDE DEF t
      <3> QED
        BY <2>6, <3>1, <3>2
    <2>9. CASE call = "Suspend"
      BY <1>2, <2>2, <2>3, <2>9 DEF handle_dialog_method_call
    <2>10. CASE call = "Cancel"
      <3> DEFINE t == IF s.dialog_action # "UNDEFINED" THEN cancel_end_session(s) ELSE s
      <3>1. m' = close_end_session_dialog(t)
        BY <2>2, <2>10 DEF handle_dialog_method_call
      <3>2. Typed(t) /\ (t = s \/ (Cancels(s, t) /\ HoldsOn(s, t)))
        BY <2>3, <2>4, Cancelled, CancelStep
      <3> HIDE DEF t
      <3>3. Same(t, m')
        BY <3>1, <3>2, DialogClosedSame
      <3>4. CASE t = s
        BY <1>2, <2>2, <2>3, <3>3, <3>4 DEF Same
      <3>5. CASE Cancels(s, t) /\ HoldsOn(s, t)
        <4>1. Steps(s, m') /\ HoldsOn(m, m')
          BY <2>4, <3>3, <3>5 DEF Same, Steps, Cancels, Told, GoesOn, Over, HoldsOn
        <4> QED
          BY <2>2, <2>3, <4>1, HandlerImplements
      <3> QED
        BY <3>2, <3>4, <3>5
    <2>11. CASE call = "IgnoreInhibitors"
      <3>1. m' = do_inhibit_dialog_action(closed)
        BY <2>2, <2>11 DEF handle_dialog_method_call
      <3> HIDE DEF closed
      <3>2. CASE closed.dialog_action = "UNDEFINED"
        <4>1. m' = [closed EXCEPT !.loop = "aborted"]
          BY <3>1, <3>2 DEF do_inhibit_dialog_action
        <4>2. /\ m'.phase = m.phase /\ m'.clients = m.clients /\ m'.told = m.told
              /\ m'.power_request = m.power_request /\ m'.loop = "aborted"
          BY <2>5, <4>1 DEF Typed, ManagerState, Same
        <4> QED
          BY <2>2, <4>2, UnseenImplements DEF Running, Over, HoldersKept
      <3>3. CASE closed.dialog_action # "UNDEFINED"
        <4> DEFINE t == [closed EXCEPT !.logout_mode = "FORCE"]
        <4>1. Typed(t) /\ Same(m, t) /\ t.logout_type # "NONE"
          BY <2>5, <3>3 DEF Typed, ManagerState, LogoutModes, Phases, Settled, Same
        <4>2. m' = end_phase(t)
          BY <3>1, <3>3 DEF do_inhibit_dialog_action
        <4> HIDE DEF t
        <4> QED
          BY <2>6, <4>1, <4>2
      <3> QED
        BY <3>2, <3>3
    <2> QED
      BY <2>1, <2>7, <2>8, <2>9, <2>10, <2>11 DEF DialogCalls
  <1> QED
    BY <1>3, <1>4, <1>5 DEF DialogStep, PressAction, PressCancel, PressContinue

LEMMA SystemStepImplements ==
    ASSUME Inv, ClientsInStep, HoldersKept, SystemStep
    PROVE  Implemented
  <1>1. Typed(m) /\ Settled(m) /\ Tracked(m)
    BY InvTyped, TrackedInStep
  <1>2. CASE QueryEndSessionTimeout
    <2>1. m.phase = "QUERY_END_SESSION" /\ holders' = holders
          /\ m' = _on_query_end_session_timeout(m)
      BY <1>1, <1>2 DEF QueryEndSessionTimeout, env, Settled, Typed, ManagerState, Phases
    <2>2. Steps(m, m') /\ HoldsOn(m, m')
      BY <1>1, <2>1, QueryTimeoutStep DEF Steps
    <2> QED
      BY <2>1, <2>2, SameSelf, HandlerImplements
  <1>3. CASE PhaseTimeout
    <2>1. m.phase_timer /\ holders' = holders /\ m' = on_phase_timeout(m)
      BY <1>3 DEF PhaseTimeout, env
    <2>2. Steps(m, m') /\ HoldsOn(m, m')
      BY <1>1, <2>1, PhaseTimeoutStep DEF Steps, Saves
    <2> QED
      BY <2>1, <2>2, SameSelf, HandlerImplements
  <1>4. ASSUME NEW loop, m' = [m EXCEPT !.loop = loop]
        PROVE  /\ m'.phase = m.phase /\ m'.clients = m.clients /\ m'.told = m.told
               /\ m'.power_request = m.power_request /\ m'.loop = loop
    BY <1>1, <1>4 DEF Typed, ManagerState
  <1>5. CASE PowerRequestAnswered
    <2>1. m.power_request /\ m' = [m EXCEPT !.loop = "quit"]
      BY <1>5 DEF PowerRequestAnswered
    <2>2. Protocol!PoweredOff /\ HoldersKept'
      BY <1>4, <2>1 DEF Protocol!PoweredOff, HoldersKept, Running
    <2> QED
      BY <2>2 DEF Implemented, Protocol!Next
  <1>6. CASE FreedClientCrash
    <2>1. Running /\ m' = [m EXCEPT !.loop = "crashed"]
      BY <1>6 DEF FreedClientCrash
    <2> QED
      BY <1>4, <2>1, UnseenImplements DEF HoldersKept, Running, Over
  <1>7. CASE ToggleLockdown
    BY <1>7, UnseenImplements DEF ToggleLockdown, HoldersKept, Running, Over
  <1> QED
    BY <1>2, <1>3, <1>5, <1>6, <1>7 DEF SystemStep

LEMMA NextImplements ==
    ASSUME Inv, ClientsInStep, HoldersKept, [Next]_vars
    PROVE  [~Over(m) /\ Protocol!Next]_(Protocol!vars) /\ HoldersKept'
  <1>1. CASE UNCHANGED vars
    BY <1>1 DEF vars, Protocol!vars, HoldersKept, Running
  <1>2. CASE Next /\ ~UNCHANGED vars
    <2>1. Running
      BY <1>2
         DEF Next, Request, ClientStep, BusStep, DialogStep, SystemStep, Terminated,
             Logout, ShowShutdownDialog, RequestPower, RegisterClient, EndSessionResponse,
             SaveYourselfPhase2Request, InteractRequest, InteractDone, SaveYourselfDone,
             Respond, XSMPDisconnected, ClientVanished, Inhibit, Uninhibit, LeaveBus,
             NameOwnerChanged, ReleaseName, PressAction, PressCancel, PressContinue,
             DialogSends, DialogExits, HandleDialogCall, QueryEndSessionTimeout,
             PhaseTimeout, PowerRequestAnswered, FreedClientCrash, ToggleLockdown
    <2>2. Implemented
      BY <1>2, RequestImplements, ClientStepImplements, BusStepImplements,
         DialogStepImplements, SystemStepImplements DEF Next, Terminated
    <2> QED
      BY <2>1, <2>2 DEF Implemented, Running, Over
  <1> QED
    BY <1>1, <1>2

\* Whoever follows the protocol keeps its clients in step.
LEMMA ProtocolKeepsStep ==
    ASSUME ClientsInStep, [~Over(m) /\ Protocol!Next]_(Protocol!vars)
    PROVE  ClientsInStep'
  <1>1. CASE UNCHANGED Protocol!vars
    BY <1>1 DEF Protocol!vars, ClientsInStep
  <1>2. ASSUME NEW c \in Clients, Protocol!Join(c)
        PROVE  ClientsInStep'
    BY <1>2 DEF Protocol!Join, ClientsInStep
  <1>3. CASE Protocol!Leave
    BY <1>3 DEF Protocol!Leave, ClientsInStep
  <1>4. CASE Protocol!Ask \/ Protocol!Save \/ Protocol!Stop \/ Protocol!Cancel
             \/ Protocol!StopAgain
    BY <1>4 DEF Protocol!Ask, Protocol!Save, Protocol!Stop, Protocol!Cancel,
                Protocol!StopAgain, Protocol!AllTold, ClientsInStep
  <1>5. CASE Protocol!SaveLast
    BY <1>5 DEF Protocol!SaveLast, ClientsInStep
  <1>6. CASE Protocol!PoweredOff
    BY <1>6 DEF Protocol!PoweredOff, ClientsInStep
  <1> QED
    BY <1>1, <1>2, <1>3, <1>4, <1>5, <1>6 DEF Protocol!Next

-----------------------------------------------------------------------------
(* The theorems.                                                           *)

LEMMA InitImplements == Init => Protocol!Init /\ ClientsInStep /\ HoldersKept
  <1> SUFFICES ASSUME Init PROVE Protocol!Init /\ ClientsInStep /\ HoldersKept
    OBVIOUS
  <1>1. /\ m.phase = "RUNNING" /\ m.clients = {} /\ m.told = [c \in Clients |-> "none"]
        /\ m.power_request = FALSE /\ m.loop = "running" /\ holders = {}
    BY DEF Init, InitialManager
  <1> QED
    BY <1>1 DEF Protocol!Init, ClientsInStep, HoldersKept

\* The invariant behind the refinement: clients are in step, and inhibitors
\* are kept.
THEOREM StepHolds == Spec => [](Inv /\ ClientsInStep /\ HoldersKept)
  <1>1. Init => Inv /\ ClientsInStep /\ HoldersKept
    BY InitEstablishesInv, InitImplements
  <1>2. Inv /\ ClientsInStep /\ HoldersKept /\ [Next]_vars
            => (Inv /\ ClientsInStep /\ HoldersKept)'
    BY NextKeepsInv, NextImplements, ProtocolKeepsStep
  <1> QED
    BY <1>1, <1>2, PTL DEF Spec

\* Every client in the store was last told what the phase is about.
THEOREM ClientsStayInStep == Spec => []ClientsInStep
  BY StepHolds, PTL

\* A connection keeps its inhibitor until it gives it back or leaves the bus.
THEOREM HoldersStayKept == Spec => []HoldersKept
  BY StepHolds, PTL

\* The manager, with all its nested handlers, implements the protocol.
THEOREM Refinement == Spec => ImplementsProtocol
  <1>1. Init => Protocol!Init
    BY InitImplements
  <1>2. Inv /\ ClientsInStep /\ HoldersKept /\ [Next]_vars
            => [~(m.loop = "quit") /\ Protocol!Next]_(Protocol!vars)
    BY NextImplements DEF Over
  <1> QED
    BY <1>1, <1>2, StepHolds, PTL DEF Spec, ImplementsProtocol, Protocol!Spec

=============================================================================
