-------------------------- MODULE XsmpClient_proof --------------------------
(***************************************************************************)
(* Proofs about XsmpClient.                                                *)
(***************************************************************************)
EXTENDS XsmpClient, TLAPS

\* A structure between two handlers.  What a cancellation leaves behind and
\* what may be queued is all that the action properties need to know.
Sound(s) ==
    /\ s \in XSMPClientState
    /\ s.phase = "RUNNING" => OnlyLocalSaves(s)
    /\ s.next_save_yourself = SmSaveBoth => ~s.next_save_yourself_allow_interact

SamePhase(s, r) == r.phase = s.phase /\ r.forced = s.forced

\* A message that the phase the client is left in allows.
Fits(msg, r) ==
    IsSave(msg) =>
        /\ msg.shutdown => r.phase # "RUNNING"
        /\ msg.interact => r.phase = "QUERY_END_SESSION" /\ ~r.forced

\* r has the messages of s, and new ones that fit.
Delivers(s, r) ==
    /\ Len(s.to_client) <= Len(r.to_client)
    /\ \A i \in 1 .. Len(s.to_client) : r.to_client[i] = s.to_client[i]
    /\ \A i \in Len(s.to_client) + 1 .. Len(r.to_client) : Fits(r.to_client[i], r)

\* The new messages fit in any phase.
Quiet(s, r) ==
    \A i \in Len(s.to_client) + 1 .. Len(r.to_client) : ~IsSave(r.to_client[i])

LEMMA Composed ==
    ASSUME NEW s \in XSMPClientState, NEW r \in XSMPClientState, NEW q \in XSMPClientState,
           Delivers(s, r), Delivers(r, q), Quiet(s, r) \/ SamePhase(r, q)
    PROVE  Delivers(s, q)
  <1>1. /\ Len(s.to_client) \in Nat /\ Len(r.to_client) \in Nat /\ Len(q.to_client) \in Nat
    BY DEF XSMPClientState
  <1>2. Len(s.to_client) <= Len(q.to_client)
    BY <1>1 DEF Delivers
  <1>3. ASSUME NEW i \in 1 .. Len(s.to_client)
        PROVE  q.to_client[i] = s.to_client[i]
    BY <1>1 DEF Delivers
  <1>4. ASSUME NEW i \in Len(s.to_client) + 1 .. Len(q.to_client)
        PROVE  Fits(q.to_client[i], q)
    <2>1. CASE i > Len(r.to_client)
      BY <1>1, <2>1 DEF Delivers
    <2>2. CASE i <= Len(r.to_client)
      <3>1. q.to_client[i] = r.to_client[i] /\ Fits(r.to_client[i], r)
        BY <1>1, <2>2 DEF Delivers
      <3>2. CASE Quiet(s, r)
        BY <1>1, <2>2, <3>1, <3>2 DEF Quiet, Fits
      <3>3. CASE SamePhase(r, q)
        BY <3>1, <3>3 DEF SamePhase, Fits
      <3> QED
        BY <3>2, <3>3
    <2> QED
      BY <1>1, <2>1, <2>2
  <1> QED
    BY <1>2, <1>3, <1>4 DEF Delivers

LEMMA Unchanged ==
    ASSUME NEW s \in XSMPClientState, NEW r, r.to_client = s.to_client
    PROVE  Delivers(s, r) /\ Quiet(s, r)
  <1>1. Len(s.to_client) \in Nat
    BY DEF XSMPClientState
  <1> QED
    BY <1>1 DEF Delivers, Quiet

LEMMA SameMessages ==
    ASSUME NEW s, NEW t, NEW r, t.to_client = s.to_client, Delivers(t, r)
    PROVE  Delivers(s, r)
  BY DEF Delivers

\* Sending one message.
LEMMA SendFacts ==
    ASSUME NEW s \in XSMPClientState, NEW msg \in ToClient
    PROVE  LET r == Send(s, msg)
           IN  /\ r \in XSMPClientState
               /\ SamePhase(s, r)
               /\ r.current_save_yourself = s.current_save_yourself
               /\ r.next_save_yourself = s.next_save_yourself
               /\ r.next_save_yourself_allow_interact = s.next_save_yourself_allow_interact
               /\ Fits(msg, r) => Delivers(s, r)
               /\ ~IsSave(msg) => Delivers(s, r) /\ Quiet(s, r)
  <1> DEFINE wire == Append(s.to_client, msg)
             r == Send(s, msg)
  <1>1. s.to_client \in Seq(ToClient)
    BY DEF XSMPClientState
  <1>2. /\ wire \in Seq(ToClient)
        /\ Len(wire) = Len(s.to_client) + 1
        /\ \A i \in 1 .. Len(s.to_client) : wire[i] = s.to_client[i]
        /\ wire[Len(s.to_client) + 1] = msg
        /\ Len(s.to_client) \in Nat
    BY <1>1
  <1>3. r = [s EXCEPT !.to_client = wire]
    BY DEF Send
  <1> HIDE DEF wire, r
  <1>4. /\ r \in XSMPClientState /\ SamePhase(s, r) /\ r.to_client = wire
        /\ r.current_save_yourself = s.current_save_yourself
        /\ r.next_save_yourself = s.next_save_yourself
        /\ r.next_save_yourself_allow_interact = s.next_save_yourself_allow_interact
    BY <1>2, <1>3 DEF XSMPClientState, SamePhase
  <1>5. \A i \in Len(s.to_client) + 1 .. Len(r.to_client) : r.to_client[i] = msg
    BY <1>2, <1>4
  <1>6. Fits(msg, r) => Delivers(s, r)
    BY <1>2, <1>4, <1>5 DEF Delivers
  <1>7. ~IsSave(msg) => Fits(msg, r) /\ Quiet(s, r)
    BY <1>5 DEF Fits, Quiet
  <1> QED
    BY <1>4, <1>6, <1>7 DEF r

LEMMA MessageFacts ==
    ASSUME NEW kind, kind \in {"SaveYourselfPhase2", "Interact", "SaveComplete",
                               "ShutdownCancelled", "Die", "RegisterClientRejected"}
    PROVE  Message(kind) \in ToClient /\ ~IsSave(Message(kind))
  BY DEF Message, ToClient, IsSave

-----------------------------------------------------------------------------
(* The object's operations.                                                *)

\* A save of the given type may be asked for in the phase of s.
MaySave(s, save_type, allow_interact) ==
    /\ s.phase = "RUNNING" => save_type \in {NoSave, SmSaveLocal}
    /\ save_type = SmSaveBoth => ~allow_interact
    /\ save_type = SmSaveGlobal /\ allow_interact =>
           s.phase = "QUERY_END_SESSION" /\ ~s.forced

LEMMA SaveStarted ==
    ASSUME NEW s, Sound(s), NEW save_type \in SaveTypes \cup {NoSave},
           NEW allow_interact \in BOOLEAN, MaySave(s, save_type, allow_interact)
    PROVE  LET r == do_save_yourself(s, save_type, allow_interact)
           IN  Sound(r) /\ SamePhase(s, r) /\ Delivers(s, r)
  <1> DEFINE r == do_save_yourself(s, save_type, allow_interact)
  <1>1. CASE s.next_save_yourself # NoSave
    BY <1>1, Unchanged DEF do_save_yourself, SamePhase, Sound
  <1>2. CASE s.next_save_yourself = NoSave /\ s.current_save_yourself # NoSave
    <2>1. r = [s EXCEPT !.next_save_yourself = save_type,
                        !.next_save_yourself_allow_interact = allow_interact]
      BY <1>2 DEF do_save_yourself
    <2> HIDE DEF r
    <2>2. /\ r \in XSMPClientState /\ SamePhase(s, r) /\ r.to_client = s.to_client
          /\ r.next_save_yourself = save_type
          /\ r.next_save_yourself_allow_interact = allow_interact
          /\ r.current_save_yourself = s.current_save_yourself
      BY <2>1 DEF Sound, XSMPClientState, SamePhase
    <2>3. Sound(r)
      BY <2>2 DEF Sound, SamePhase, MaySave, OnlyLocalSaves
    <2> QED
      BY <2>2, <2>3, Unchanged DEF Sound, r
  <1>3. CASE s.next_save_yourself = NoSave /\ s.current_save_yourself = NoSave
    <2> DEFINE t == [s EXCEPT !.current_save_yourself = save_type,
                              !.next_save_yourself_allow_interact = FALSE,
                              !.asked = @ \/ (save_type = SmSaveGlobal /\ allow_interact)]
               msg == SaveYourself(save_type, save_type # SmSaveLocal,
                                   save_type # SmSaveLocal /\ allow_interact)
    <2>1. r = Send(t, msg)
      BY <1>3 DEF do_save_yourself
    <2>2. /\ t \in XSMPClientState /\ SamePhase(s, t) /\ t.to_client = s.to_client
          /\ t.current_save_yourself = save_type
          /\ t.next_save_yourself = NoSave
          /\ t.next_save_yourself_allow_interact = FALSE
      BY <1>3 DEF Sound, XSMPClientState, SamePhase
    <2>3. /\ msg \in ToClient
          /\ msg.type = save_type
          /\ msg.shutdown <=> save_type # SmSaveLocal
          /\ msg.interact <=> save_type # SmSaveLocal /\ allow_interact
      BY DEF SaveYourself, ToClient
    <2> HIDE DEF t, msg, r
    <2>4. /\ r \in XSMPClientState /\ SamePhase(t, r)
          /\ r.current_save_yourself = save_type
          /\ r.next_save_yourself = NoSave
          /\ Fits(msg, r) => Delivers(t, r)
      BY <2>1, <2>2, <2>3, SendFacts
    <2>5. Fits(msg, r)
      <3>1. r.phase = s.phase /\ r.forced = s.forced
        BY <2>2, <2>4 DEF SamePhase
      <3>2. save_type \in SaveTypes /\ save_type # SmSaveLocal => s.phase # "RUNNING"
        BY DEF MaySave, SaveTypes, NoSave, SmSaveLocal, SmSaveGlobal, SmSaveBoth
      <3>3. save_type \in SaveTypes /\ save_type # SmSaveLocal /\ allow_interact =>
              s.phase = "QUERY_END_SESSION" /\ ~s.forced
        BY DEF MaySave, SaveTypes, SmSaveLocal
      <3> QED
        BY <2>3, <3>1, <3>2, <3>3 DEF Fits, IsSave
    <2>6. Delivers(s, r)
      BY <2>2, <2>4, <2>5 DEF Delivers
    <2>7. Sound(r)
      BY <2>2, <2>4 DEF Sound, SamePhase, MaySave, OnlyLocalSaves, NoSave, SmSaveBoth
    <2> QED
      BY <2>2, <2>4, <2>6, <2>7 DEF SamePhase, r
  <1> QED
    BY <1>1, <1>2, <1>3

LEMMA Told ==
    ASSUME NEW s, Sound(s), NEW msg \in ToClient, ~IsSave(msg)
    PROVE  LET r == Send(s, msg)
           IN  Sound(r) /\ SamePhase(s, r) /\ Delivers(s, r) /\ Quiet(s, r)
  BY SendFacts DEF Sound, SamePhase, OnlyLocalSaves

LEMMA QueueMoves ==
    ASSUME NEW s, Sound(s)
    PROVE  Sound(send_next(s)) /\ SamePhase(s, send_next(s)) /\ Delivers(s, send_next(s))
  <1>1. CASE s.next_save_yourself = 0
    BY <1>1, Unchanged DEF send_next, Sound, SamePhase
  <1>2. CASE s.next_save_yourself # 0
    <2> DEFINE t == [s EXCEPT !.next_save_yourself = NoSave,
                              !.next_save_yourself_allow_interact = TRUE]
    <2>1. send_next(s) = do_save_yourself(t, s.next_save_yourself,
                                          s.next_save_yourself_allow_interact)
      BY <1>2 DEF send_next
    <2>2. /\ t \in XSMPClientState /\ SamePhase(s, t) /\ t.to_client = s.to_client
          /\ t.current_save_yourself = s.current_save_yourself
          /\ t.next_save_yourself = NoSave
      BY DEF Sound, XSMPClientState, SamePhase
    <2>3. Sound(t)
      BY <2>2 DEF Sound, SamePhase, OnlyLocalSaves, NoSave, SmSaveBoth
    <2>4. /\ s.next_save_yourself \in SaveTypes \cup {NoSave}
          /\ s.next_save_yourself_allow_interact \in BOOLEAN
      BY DEF Sound, XSMPClientState
    <2>5. MaySave(t, s.next_save_yourself, s.next_save_yourself_allow_interact)
      BY <1>2, <2>2 DEF MaySave, Sound, SamePhase, OnlyLocalSaves, SmSaveGlobal
    <2> HIDE DEF t
    <2>6. Sound(send_next(s)) /\ SamePhase(t, send_next(s)) /\ Delivers(t, send_next(s))
      BY <2>1, <2>3, <2>4, <2>5, SaveStarted
    <2> QED
      BY <2>2, <2>6, SameMessages DEF SamePhase
  <1> QED
    BY <1>1, <1>2

-----------------------------------------------------------------------------
(* The manager.                                                            *)

LEMMA Cancelled ==
    ASSUME NEW s, Sound(s)
    PROVE  Sound(cancel_end_session(s)) /\ Delivers(s, cancel_end_session(s))
  <1> DEFINE told == Send(s, Message("ShutdownCancelled"))
             r == cancel_end_session(s)
  <1>1. CASE s.phase = "RUNNING"
    BY <1>1, Unchanged DEF cancel_end_session, Sound
  <1>2. CASE s.phase # "RUNNING"
    <2>1. Sound(told) /\ Delivers(s, told) /\ Quiet(s, told)
      BY Told, MessageFacts
    <2>2. r = [[told EXCEPT !.current_save_yourself = NoSave,
                            !.next_save_yourself = NoSave,
                            !.next_save_yourself_allow_interact = FALSE]
                 EXCEPT !.phase = "RUNNING", !.forced = FALSE, !.awaited = FALSE,
                        !.do_last = FALSE, !.inhibits = FALSE, !.asked = TRUE]
      BY <1>2 DEF cancel_end_session, xsmp_cancel_end_session
    <2> HIDE DEF told, r
    <2>3. /\ r \in XSMPClientState /\ r.to_client = told.to_client
          /\ r.current_save_yourself = NoSave /\ r.next_save_yourself = NoSave
      BY <2>1, <2>2 DEF Sound, XSMPClientState, Phases
    <2>4. Sound(r)
      BY <2>3 DEF Sound, OnlyLocalSaves, NoSave, SmSaveBoth
    <2>5. Delivers(s, r)
      BY <2>1, <2>3, <2>4, Unchanged, Composed DEF Sound
    <2> QED
      BY <2>4, <2>5 DEF r
  <1> QED
    BY <1>1, <1>2

LEMMA SaveTold ==
    ASSUME NEW s, Sound(s), NEW r \in do_phase_end_session(s)
    PROVE  Sound(r) /\ Delivers(s, r)
  <1> DEFINE t == [s EXCEPT !.phase = "END_SESSION", !.awaited = TRUE]
  <1>1. PICK type \in {SmSaveGlobal, SmSaveBoth} : r = do_save_yourself(t, type, FALSE)
    BY DEF do_phase_end_session, xsmp_end_session
  <1>2. /\ t \in XSMPClientState /\ t.to_client = s.to_client /\ t.phase = "END_SESSION"
        /\ t.next_save_yourself = s.next_save_yourself
        /\ t.next_save_yourself_allow_interact = s.next_save_yourself_allow_interact
    BY DEF Sound, XSMPClientState, Phases
  <1>3. Sound(t)
    BY <1>2 DEF Sound
  <1>4. MaySave(t, type, FALSE) /\ type \in SaveTypes \cup {NoSave}
    BY <1>2 DEF MaySave, SaveTypes
  <1> HIDE DEF t
  <1>5. Sound(r) /\ Delivers(t, r)
    BY <1>1, <1>3, <1>4, SaveStarted
  <1> QED
    BY <1>2, <1>5, SameMessages

LEMMA StopTold ==
    ASSUME NEW s, Sound(s)
    PROVE  Sound(do_phase_exit(s)) /\ Delivers(s, do_phase_exit(s))
  <1> DEFINE t == [s EXCEPT !.phase = "EXIT", !.awaited = FALSE, !.do_last = FALSE]
  <1>1. do_phase_exit(s) = Send(t, Message("Die"))
    BY DEF do_phase_exit, xsmp_stop
  <1>2. /\ t \in XSMPClientState /\ t.to_client = s.to_client /\ t.phase = "EXIT"
        /\ t.next_save_yourself = s.next_save_yourself
        /\ t.next_save_yourself_allow_interact = s.next_save_yourself_allow_interact
    BY DEF Sound, XSMPClientState, Phases
  <1>3. Sound(t)
    BY <1>2 DEF Sound
  <1> HIDE DEF t
  <1> QED
    BY <1>1, <1>2, <1>3, Told, MessageFacts, SameMessages

LEMMA LastTold ==
    ASSUME NEW s, Sound(s)
    PROVE  /\ Sound(do_phase_end_session_part_2(s))
           /\ Delivers(s, do_phase_end_session_part_2(s))
  <1> DEFINE t == [s EXCEPT !.awaited = TRUE, !.do_last = FALSE]
  <1>1. do_phase_end_session_part_2(s) = Send(t, Message("SaveYourselfPhase2"))
    BY DEF do_phase_end_session_part_2, xsmp_save_yourself_phase2
  <1>2. /\ t \in XSMPClientState /\ t.to_client = s.to_client /\ t.phase = s.phase
        /\ t.current_save_yourself = s.current_save_yourself
        /\ t.next_save_yourself = s.next_save_yourself
        /\ t.next_save_yourself_allow_interact = s.next_save_yourself_allow_interact
    BY DEF Sound, XSMPClientState
  <1>3. Sound(t)
    BY <1>2 DEF Sound, OnlyLocalSaves
  <1> HIDE DEF t
  <1> QED
    BY <1>1, <1>2, <1>3, Told, MessageFacts, SameMessages

LEMMA PhaseEnded ==
    ASSUME NEW s, Sound(s), NEW r \in end_phase(s)
    PROVE  Sound(r) /\ Delivers(s, r)
  <1>1. s.phase \in Phases
    BY DEF Sound, XSMPClientState
  <1>2. \/ r \in do_phase_end_session(s)
        \/ r = do_phase_exit(s)
        \/ r = s
    BY <1>1 DEF end_phase, Phases
  <1>3. Delivers(s, s)
    BY Unchanged DEF Sound
  <1> QED
    BY <1>2, <1>3, SaveTold, StopTold

LEMMA WentOn ==
    ASSUME NEW s, Sound(s), NEW r \in go_on(s)
    PROVE  Sound(r) /\ Delivers(s, r)
  <1>1. \/ r = s
        \/ r = do_phase_end_session_part_2(s)
        \/ r \in end_phase(s)
    BY DEF go_on
  <1>2. Delivers(s, s)
    BY Unchanged DEF Sound
  <1> QED
    BY <1>1, <1>2, LastTold, PhaseEnded

\* A change of what the manager notes about the client.
LEMMA Noted ==
    ASSUME NEW s, Sound(s), s.phase # "RUNNING", NEW r \in XSMPClientState,
           r.to_client = s.to_client, r.phase = s.phase,
           r.next_save_yourself = s.next_save_yourself,
           r.next_save_yourself_allow_interact = s.next_save_yourself_allow_interact
    PROVE  /\ Sound(r)
           /\ \A q : Delivers(r, q) => Delivers(s, q)
  BY DEF Sound, Delivers

LEMMA Responded ==
    ASSUME NEW s, Sound(s), NEW is_ok \in BOOLEAN, NEW do_last \in BOOLEAN,
           NEW cancel \in BOOLEAN,
           NEW r \in end_session_response(s, is_ok, do_last, cancel)
    PROVE  Sound(r) /\ Delivers(s, r)
  <1> DEFINE noted == [s EXCEPT !.awaited = FALSE,
                                !.inhibits = ~is_ok /\ ~s.forced,
                                !.do_last = @ \/ (do_last /\ s.phase = "END_SESSION")]
  <1>1. CASE s.phase = "RUNNING"
    BY <1>1, Unchanged DEF end_session_response, Sound
  <1>2. CASE s.phase # "RUNNING" /\ cancel
    BY <1>2, Cancelled DEF end_session_response
  <1>3. CASE s.phase # "RUNNING" /\ ~cancel
    <2>1. r = noted \/ r \in go_on(noted)
      BY <1>3 DEF end_session_response
    <2>2. /\ noted \in XSMPClientState
          /\ noted.to_client = s.to_client /\ noted.phase = s.phase
          /\ noted.next_save_yourself = s.next_save_yourself
          /\ noted.next_save_yourself_allow_interact = s.next_save_yourself_allow_interact
      BY DEF Sound, XSMPClientState
    <2> HIDE DEF noted
    <2>3. Sound(noted) /\ \A q : Delivers(noted, q) => Delivers(s, q)
      BY <1>3, <2>2, Noted
    <2>4. Delivers(noted, noted)
      BY <2>2, Unchanged
    <2> QED
      BY <2>1, <2>3, <2>4, WentOn
  <1> QED
    BY <1>1, <1>2, <1>3

-----------------------------------------------------------------------------
(* The callbacks.                                                          *)

LEMMA SaveDone ==
    ASSUME NEW s, Sound(s), NEW r \in save_yourself_done_callback(s)
    PROVE  Sound(r) /\ Delivers(s, r)
  <1> DEFINE told == Send(s, Message("SaveComplete"))
             done == [told EXCEPT !.current_save_yourself = NoSave]
             completed == IF s.current_save_yourself = NoSave THEN s ELSE done
  <1>1. PICK t \in end_session_response(completed, TRUE, FALSE, FALSE) : r = send_next(t)
    BY DEF save_yourself_done_callback
  <1>2. Sound(told) /\ Delivers(s, told) /\ Quiet(s, told)
    BY Told, MessageFacts
  <1>3. Sound(done) /\ Delivers(s, done) /\ Quiet(s, done)
    <2> HIDE DEF told
    <2>1. /\ done \in XSMPClientState /\ SamePhase(told, done)
          /\ done.to_client = told.to_client
          /\ done.current_save_yourself = NoSave
          /\ done.next_save_yourself = told.next_save_yourself
          /\ done.next_save_yourself_allow_interact = told.next_save_yourself_allow_interact
      BY <1>2 DEF Sound, XSMPClientState, SamePhase
    <2> HIDE DEF done
    <2>2. Sound(done)
      BY <1>2, <2>1 DEF Sound, SamePhase, OnlyLocalSaves
    <2>3. Delivers(s, done)
      BY <1>2, <2>1, <2>2, Unchanged, Composed DEF Sound
    <2>4. Quiet(s, done)
      BY <1>2, <2>1 DEF Quiet
    <2> QED
      BY <2>2, <2>3, <2>4
  <1>4. Sound(completed) /\ Delivers(s, completed) /\ Quiet(s, completed)
    <2>1. Delivers(s, s) /\ Quiet(s, s)
      BY Unchanged DEF Sound
    <2> HIDE DEF told, done
    <2> QED
      BY <1>3, <2>1
  <1> HIDE DEF completed
  <1>5. Sound(t) /\ Delivers(completed, t)
    BY <1>1, <1>4, Responded
  <1>6. Delivers(s, t)
    BY <1>4, <1>5, Composed DEF Sound
  <1>7. Sound(r) /\ SamePhase(t, r) /\ Delivers(t, r)
    BY <1>1, <1>5, QueueMoves
  <1> QED
    BY <1>5, <1>6, <1>7, Composed DEF Sound

LEMMA Interacts ==
    ASSUME NEW s, Sound(s), NEW r \in interact_request_callback(s)
    PROVE  Sound(r) /\ Delivers(s, r)
  <1>1. PICK t \in end_session_response(s, FALSE, FALSE, FALSE) :
            r = Send(t, Message("Interact"))
    BY DEF interact_request_callback
  <1>2. Sound(t) /\ Delivers(s, t)
    BY <1>1, Responded
  <1>3. Sound(r) /\ SamePhase(t, r) /\ Delivers(t, r)
    BY <1>1, <1>2, Told, MessageFacts
  <1> QED
    BY <1>2, <1>3, Composed DEF Sound

LEMMA Phase2Requested ==
    ASSUME NEW s, Sound(s), NEW r \in save_yourself_phase2_request_callback(s)
    PROVE  Sound(r) /\ Delivers(s, r)
  <1> DEFINE t == [s EXCEPT !.current_save_yourself = NoSave]
  <1>1. r \in end_session_response(t, TRUE, TRUE, FALSE)
    BY DEF save_yourself_phase2_request_callback
  <1>2. /\ t \in XSMPClientState /\ SamePhase(s, t) /\ t.to_client = s.to_client
        /\ t.current_save_yourself = NoSave
        /\ t.next_save_yourself = s.next_save_yourself
        /\ t.next_save_yourself_allow_interact = s.next_save_yourself_allow_interact
    BY DEF Sound, XSMPClientState, SamePhase
  <1> HIDE DEF t
  <1>3. Sound(t)
    BY <1>2 DEF Sound, SamePhase, OnlyLocalSaves
  <1>4. Sound(r) /\ Delivers(t, r)
    BY <1>1, <1>3, Responded
  <1> QED
    BY <1>2, <1>4, SameMessages

LEMMA Registered ==
    ASSUME NEW s, Sound(s), NEW r \in register_client_callback(s)
    PROVE  Sound(r) /\ Delivers(s, r)
  <1> DEFINE t == [s EXCEPT !.current_save_yourself = SmSaveLocal]
             msg == SaveYourself(SmSaveLocal, FALSE, FALSE)
  <1>1. \/ r = Send(s, Message("RegisterClientRejected"))
        \/ r = s
        \/ r = Send(t, msg)
    BY DEF register_client_callback
  <1>2. msg \in ToClient /\ ~msg.shutdown /\ ~msg.interact
    BY DEF SaveYourself, ToClient, SaveTypes
  <1>3. /\ t \in XSMPClientState /\ SamePhase(s, t) /\ t.to_client = s.to_client
        /\ t.current_save_yourself = SmSaveLocal
        /\ t.next_save_yourself = s.next_save_yourself
        /\ t.next_save_yourself_allow_interact = s.next_save_yourself_allow_interact
    BY DEF Sound, XSMPClientState, SamePhase, SaveTypes
  <1> HIDE DEF t, msg
  <1>4. Fits(msg, Send(t, msg))
    BY <1>2 DEF Fits
  <1>5. /\ Send(t, msg) \in XSMPClientState /\ SamePhase(t, Send(t, msg))
        /\ Send(t, msg).current_save_yourself = SmSaveLocal
        /\ Send(t, msg).next_save_yourself = s.next_save_yourself
        /\ Send(t, msg).next_save_yourself_allow_interact = s.next_save_yourself_allow_interact
        /\ Delivers(t, Send(t, msg))
    BY <1>2, <1>3, <1>4, SendFacts
  <1>6. Sound(Send(t, msg)) /\ Delivers(s, Send(t, msg))
    BY <1>3, <1>5, SameMessages DEF Sound, SamePhase, OnlyLocalSaves
  <1>7. Delivers(s, s)
    BY Unchanged DEF Sound
  <1> QED
    BY <1>1, <1>6, <1>7, Told, MessageFacts

-----------------------------------------------------------------------------
(* The invariant.                                                          *)

PeerTyped ==
    /\ from_client \in Seq(FromClient)
    /\ client \in [state : ClientStates, interact : BOOLEAN]

Inv == Sound(x) /\ PeerTyped

LEMMA InitInv ==
    ASSUME Init
    PROVE  Inv
  <1>1. /\ x \in XSMPClientState
        /\ x.phase = "RUNNING"
        /\ x.current_save_yourself = NoSave /\ x.next_save_yourself = NoSave
    BY DEF Init, XSMPClientState, Phases
  <1>2. PeerTyped
    BY DEF Init, PeerTyped, FromClient, ClientStates
  <1> QED
    BY <1>1, <1>2 DEF Inv, Sound, OnlyLocalSaves, NoSave, SmSaveBoth

LEMMA CallbackSteps ==
    ASSUME Inv, Callback
    PROVE  Inv' /\ Delivers(x, x')
  <1>1. Sound(x)
    BY DEF Inv
  <1>2. PICK kind, result :
            /\ Handle(kind, result)
            /\ \/ result = register_client_callback(x)
               \/ result = save_yourself_request_callback(x)
               \/ result = save_yourself_phase2_request_callback(x)
               \/ result = interact_request_callback(x)
               \/ result = interact_done_callback(x, FALSE)
               \/ result = interact_done_callback(x, TRUE)
               \/ result = save_yourself_done_callback(x)
               \/ result = close_connection_callback(x)
    BY DEF Callback, RegisterClient, SaveYourselfRequest, SaveYourselfPhase2Request,
       InteractRequest, InteractDone, SaveYourselfDone, CloseConnection
  <1>3. x' \in result
    BY <1>2 DEF Handle
  <1>4. PeerTyped'
    BY <1>2 DEF Handle, Inv, PeerTyped
  <1>5. CASE result = save_yourself_request_callback(x)
    <2>1. MaySave(x, SmSaveLocal, TRUE) /\ SmSaveLocal \in SaveTypes \cup {NoSave}
      BY DEF MaySave, SaveTypes, SmSaveLocal, SmSaveGlobal, SmSaveBoth
    <2>2. x' = do_save_yourself(x, SmSaveLocal, TRUE)
      BY <1>3, <1>5 DEF save_yourself_request_callback
    <2> QED
      BY <1>1, <1>4, <2>1, <2>2, SaveStarted DEF Inv
  <1>6. CASE result \in {interact_done_callback(x, FALSE), interact_done_callback(x, TRUE)}
    BY <1>1, <1>3, <1>4, <1>6, Responded DEF interact_done_callback, Inv
  <1>7. CASE result = close_connection_callback(x)
    <2>1. x' = [x EXCEPT !.gone = TRUE, !.awaited = FALSE, !.do_last = FALSE,
                         !.inhibits = FALSE]
      BY <1>3, <1>7 DEF close_connection_callback
    <2>2. /\ x' \in XSMPClientState /\ x'.to_client = x.to_client /\ x'.phase = x.phase
          /\ x'.current_save_yourself = x.current_save_yourself
          /\ x'.next_save_yourself = x.next_save_yourself
          /\ x'.next_save_yourself_allow_interact = x.next_save_yourself_allow_interact
      BY <1>1, <2>1 DEF Sound, XSMPClientState
    <2>3. Sound(x)'
      BY <1>1, <2>2 DEF Sound, OnlyLocalSaves
    <2> QED
      BY <1>1, <1>4, <2>2, <2>3, Unchanged DEF Inv, Sound
  <1>8. CASE \/ result = register_client_callback(x)
             \/ result = save_yourself_phase2_request_callback(x)
             \/ result = interact_request_callback(x)
             \/ result = save_yourself_done_callback(x)
    BY <1>1, <1>3, <1>4, <1>8, Registered, Phase2Requested, Interacts, SaveDone
       DEF Inv
  <1> QED
    BY <1>2, <1>5, <1>6, <1>7, <1>8

LEMMA ManagerSteps ==
    ASSUME Inv, ManagerStep
    PROVE  Inv' /\ Delivers(x, x')
  <1>1. Sound(x)
    BY DEF Inv
  <1>2. UNCHANGED <<from_client, client>>
    BY DEF ManagerStep, Manage, StartLogout, QueryTimeout, OthersAnswered,
       IgnoreInhibitors, PhaseTimeout, CancelEndSession
  <1>3. PeerTyped'
    BY <1>2 DEF Inv, PeerTyped
  <1> SUFFICES Sound(x)' /\ Delivers(x, x')
    BY <1>3 DEF Inv
  <1>4. ASSUME NEW forced \in BOOLEAN, StartLogout(forced)
        PROVE  Sound(x)' /\ Delivers(x, x')
    <2> DEFINE t == [x EXCEPT !.phase = "QUERY_END_SESSION", !.awaited = TRUE,
                              !.forced = forced, !.asked = forced]
    <2>1. x' = do_save_yourself(t, SmSaveGlobal, ~t.forced)
      BY <1>4 DEF StartLogout, Manage, xsmp_query_end_session
    <2>2. /\ t \in XSMPClientState /\ t.to_client = x.to_client
          /\ t.phase = "QUERY_END_SESSION"
          /\ t.next_save_yourself = x.next_save_yourself
          /\ t.next_save_yourself_allow_interact = x.next_save_yourself_allow_interact
      BY <1>1 DEF Sound, XSMPClientState, Phases
    <2>3. Sound(t)
      BY <1>1, <2>2 DEF Sound
    <2> HIDE DEF t
    <2>4. SmSaveGlobal \in SaveTypes \cup {NoSave} /\ (~t.forced) \in BOOLEAN
      BY DEF SaveTypes
    <2>5. SmSaveGlobal # SmSaveBoth
      BY DEF SmSaveGlobal, SmSaveBoth
    <2>6. MaySave(t, SmSaveGlobal, ~t.forced)
      BY <2>2, <2>5, Zenon DEF MaySave
    <2>7. Sound(x') /\ Delivers(t, x')
      BY <2>1, <2>3, <2>4, <2>6, SaveStarted
    <2> QED
      BY <2>2, <2>7, SameMessages
  <1>5. CASE QueryTimeout
    <2> DEFINE t == [x EXCEPT !.awaited = FALSE, !.inhibits = ~x.forced, !.asked = TRUE]
    <2>1. x' \in go_on(t) /\ x.phase = "QUERY_END_SESSION"
      BY <1>5 DEF QueryTimeout, Manage
    <2>2. /\ t \in XSMPClientState /\ t.to_client = x.to_client /\ t.phase = x.phase
          /\ t.next_save_yourself = x.next_save_yourself
          /\ t.next_save_yourself_allow_interact = x.next_save_yourself_allow_interact
      BY <1>1 DEF Sound, XSMPClientState
    <2> HIDE DEF t
    <2>3. Sound(t) /\ \A q : Delivers(t, q) => Delivers(x, q)
      BY <1>1, <2>1, <2>2, Noted
    <2> QED
      BY <2>1, <2>3, WentOn
  <1>6. CASE IgnoreInhibitors
    <2> DEFINE t == [x EXCEPT !.forced = TRUE, !.asked = TRUE]
    <2>1. x' \in end_phase(t) /\ x.phase # "RUNNING"
      BY <1>6 DEF IgnoreInhibitors, Manage
    <2>2. /\ t \in XSMPClientState /\ t.to_client = x.to_client /\ t.phase = x.phase
          /\ t.next_save_yourself = x.next_save_yourself
          /\ t.next_save_yourself_allow_interact = x.next_save_yourself_allow_interact
      BY <1>1 DEF Sound, XSMPClientState
    <2> HIDE DEF t
    <2>3. Sound(t) /\ \A q : Delivers(t, q) => Delivers(x, q)
      BY <1>1, <2>1, <2>2, Noted
    <2> QED
      BY <2>1, <2>3, PhaseEnded
  <1>7. CASE OthersAnswered
    BY <1>1, <1>7, WentOn DEF OthersAnswered, Manage
  <1>8. CASE PhaseTimeout
    BY <1>1, <1>8, StopTold DEF PhaseTimeout, Manage
  <1>9. CASE CancelEndSession
    BY <1>1, <1>9, Cancelled DEF CancelEndSession, Manage
  <1> QED
    BY <1>4, <1>5, <1>6, <1>7, <1>8, <1>9 DEF ManagerStep

\* What a step does to the messages on their way to the peer.
Wire == Delivers(x, x') \/ Len(x'.to_client) <= Len(x.to_client)

LEMMA Answered ==
    ASSUME Inv, NEW state \in ClientStates, NEW kind \in FromClient, Answer(state, kind)
    PROVE  Inv' /\ UNCHANGED x
  BY DEF Answer, Inv, PeerTyped, Sound, OnlyLocalSaves

LEMMA Received ==
    ASSUME Inv, Receive
    PROVE  Inv' /\ Wire
  <1> DEFINE msg == Head(x.to_client)
  <1>1. x.to_client \in Seq(ToClient) /\ x.to_client # <<>>
    BY DEF Inv, Sound, XSMPClientState, Receive
  <1>2. /\ msg \in ToClient
        /\ Tail(x.to_client) \in Seq(ToClient)
        /\ Len(Tail(x.to_client)) <= Len(x.to_client)
    BY <1>1
  <1>3. x' = [x EXCEPT !.to_client = Tail(x.to_client)]
    BY DEF Receive
  <1>4. /\ x' \in XSMPClientState /\ x'.to_client = Tail(x.to_client)
        /\ x'.phase = x.phase
        /\ x'.current_save_yourself = x.current_save_yourself
        /\ x'.next_save_yourself = x.next_save_yourself
        /\ x'.next_save_yourself_allow_interact = x.next_save_yourself_allow_interact
    BY <1>2, <1>3 DEF Inv, Sound, XSMPClientState
  <1>5. Sound(x)'
    BY <1>4 DEF Inv, Sound, OnlyLocalSaves
  <1>6. client' \in [state : ClientStates, interact : BOOLEAN]
    <2> HIDE DEF msg
    <2>1. client' = AfterReceiving(msg)
      BY DEF Receive, msg
    <2>2. client \in [state : ClientStates, interact : BOOLEAN] /\ msg.interact \in BOOLEAN
      BY <1>2 DEF Inv, PeerTyped, ToClient
    <2>3. \/ client' = [state |-> "saving", interact |-> msg.interact]
          \/ client' = client
          \/ \E state \in {"finishing", "interacting", "closed"} :
                client' = [client EXCEPT !.state = state]
      BY <2>1 DEF AfterReceiving
    <2> QED
      BY <2>2, <2>3 DEF ClientStates
  <1>7. from_client' \in Seq(FromClient)
    BY DEF Receive, Inv, PeerTyped, FromClient
  <1> QED
    BY <1>2, <1>4, <1>5, <1>6, <1>7 DEF Inv, PeerTyped, Wire

LEMMA StepInv ==
    ASSUME Inv, [Next]_vars
    PROVE  Inv' /\ (UNCHANGED x \/ Wire)
  <1>1. CASE Callback
    BY <1>1, CallbackSteps DEF Wire
  <1>2. CASE ManagerStep
    BY <1>2, ManagerSteps DEF Wire
  <1>3. CASE PeerStep
    <2>1. CASE Receive
      BY <2>1, Received
    <2>2. CASE ~Receive
      <3>1. client.state \in ClientStates
        BY DEF Inv, PeerTyped
      <3>2. PICK state \in ClientStates, kind \in FromClient : Answer(state, kind)
        BY <1>3, <2>2, <3>1 DEF PeerStep, FinishSave, RequestPhase2, RequestInteract,
           FinishInteract, RequestCheckpoint, Close, ClientStates, FromClient
      <3> QED
        BY <3>2, Answered
    <2> QED
      BY <2>1, <2>2
  <1>4. CASE UNCHANGED vars \/ Terminated
    BY <1>4 DEF Inv, Sound, OnlyLocalSaves, PeerTyped, Terminated, vars
  <1> QED
    BY <1>1, <1>2, <1>3, <1>4 DEF Next

THEOREM InvHolds == Spec => []Inv
  <1>1. Inv /\ [Next]_vars => Inv'
    BY StepInv
  <1> QED
    BY InitInv, <1>1, PTL DEF Spec

-----------------------------------------------------------------------------
(* The properties that runs check, for all constants.                      *)

\* Every variable has its type, however the callbacks and the manager's
\* handlers nest.
THEOREM TypeCorrect == Spec => []TypeOK
  <1>1. Inv => TypeOK
    BY DEF Inv, Sound, PeerTyped, TypeOK
  <1> QED
    BY <1>1, InvHolds, PTL

\* Outside a logout only local saves are in progress or queued: cancelling
\* a logout leaves nothing of it in the queue.
THEOREM RunningOnlySavesLocally == Spec => []RunningSavesAreLocal
  <1>1. Inv => RunningSavesAreLocal
    BY DEF Inv, Sound, RunningSavesAreLocal
  <1> QED
    BY <1>1, InvHolds, PTL

\* No step tells a client to save for a shutdown that is not going on.
THEOREM ShutdownSavesOnlyInLogout == Spec => ShutdownSavesBelongToLogout
  <1>1. Inv /\ [Next]_vars =>
          [\A msg \in Sent : IsSave(msg) /\ msg.shutdown => x'.phase # "RUNNING"]_vars
    <2> SUFFICES ASSUME Inv, [Next]_vars, NEW msg \in Sent, IsSave(msg), msg.shutdown
                 PROVE  x'.phase # "RUNNING"
      OBVIOUS
    <2>1. PICK i \in Len(x.to_client) + 1 .. Len(x'.to_client) : msg = x'.to_client[i]
      BY DEF Sent
    <2>2. Len(x.to_client) \in Nat /\ Len(x'.to_client) \in Nat
      BY StepInv DEF Inv, Sound, XSMPClientState
    <2>3. Delivers(x, x')
      BY <2>1, <2>2, StepInv DEF Wire
    <2> QED
      BY <2>1, <2>3 DEF Delivers, Fits
  <1> QED
    BY <1>1, InvHolds, PTL DEF Spec, ShutdownSavesBelongToLogout

\* Nothing that is sent from the queue lets a client interact in a forced
\* logout or once the session ends.
THEOREM NoLateInteraction == Spec => TooLateToInteract
  <1>1. Inv /\ [Next]_vars =>
          [\A msg \in Sent :
             IsSave(msg) /\ (x'.forced \/ x'.phase \in {"END_SESSION", "EXIT"}) =>
                 ~msg.interact]_vars
    <2> SUFFICES ASSUME Inv, [Next]_vars, NEW msg \in Sent, IsSave(msg),
                        x'.forced \/ x'.phase \in {"END_SESSION", "EXIT"}
                 PROVE  ~msg.interact
      OBVIOUS
    <2>1. PICK i \in Len(x.to_client) + 1 .. Len(x'.to_client) : msg = x'.to_client[i]
      BY DEF Sent
    <2>2. Len(x.to_client) \in Nat /\ Len(x'.to_client) \in Nat
      BY StepInv DEF Inv, Sound, XSMPClientState
    <2>3. Delivers(x, x')
      BY <2>1, <2>2, StepInv DEF Wire
    <2> QED
      BY <2>1, <2>3 DEF Delivers, Fits
  <1> QED
    BY <1>1, InvHolds, PTL DEF Spec, TooLateToInteract

-----------------------------------------------------------------------------
(* A save in progress is answered.  The property is inductive with the     *)
(* types: whoever makes a save the one in progress sends it, and whoever   *)
(* takes one of its answers off the wire ends it.                          *)

\* A save is on its way to the peer.
Carries(s) == \E i \in 1 .. Len(s.to_client) : IsSave(s.to_client[i])

\* r has the save of s in progress, or none, or one that is on its way.
Owes(s, r) ==
    \/ r.current_save_yourself \in {NoSave, s.current_save_yourself}
    \/ Carries(r)

LEMMA StillCarries ==
    ASSUME NEW s \in XSMPClientState, NEW r \in XSMPClientState,
           Delivers(s, r), Carries(s)
    PROVE  Carries(r)
  <1>1. Len(s.to_client) \in Nat /\ Len(r.to_client) \in Nat
    BY DEF XSMPClientState
  <1> QED
    BY <1>1 DEF Delivers, Carries

LEMMA OwesTwice ==
    ASSUME NEW s \in XSMPClientState, NEW t \in XSMPClientState,
           NEW r \in XSMPClientState,
           Owes(s, t), Owes(t, r), Delivers(t, r)
    PROVE  Owes(s, r)
  BY StillCarries DEF Owes

LEMMA SendOwes ==
    ASSUME NEW s \in XSMPClientState, NEW msg \in ToClient
    PROVE  LET r == Send(s, msg)
           IN  /\ r.current_save_yourself = s.current_save_yourself
               /\ IsSave(msg) => Carries(r)
  <1> DEFINE r == Send(s, msg)
  <1>1. s.to_client \in Seq(ToClient)
    BY DEF XSMPClientState
  <1>2. r.to_client = Append(s.to_client, msg)
    BY DEF Send, XSMPClientState
  <1> HIDE DEF r
  <1>3. Len(r.to_client) \in 1 .. Len(r.to_client) /\ r.to_client[Len(r.to_client)] = msg
    BY <1>1, <1>2
  <1> QED
    BY <1>3, SendFacts DEF Carries, r

LEMMA SaveOwes ==
    ASSUME NEW s, Sound(s), NEW save_type \in SaveTypes \cup {NoSave},
           NEW allow_interact \in BOOLEAN
    PROVE  Owes(s, do_save_yourself(s, save_type, allow_interact))
  <1> DEFINE r == do_save_yourself(s, save_type, allow_interact)
  <1>1. CASE s.next_save_yourself # NoSave
    BY <1>1 DEF do_save_yourself, Owes
  <1>2. CASE s.next_save_yourself = NoSave /\ s.current_save_yourself # NoSave
    <2>1. r.current_save_yourself = s.current_save_yourself
      BY <1>2 DEF do_save_yourself, Sound, XSMPClientState
    <2> QED
      BY <2>1 DEF Owes
  <1>3. CASE s.next_save_yourself = NoSave /\ s.current_save_yourself = NoSave
    <2> DEFINE t == [s EXCEPT !.current_save_yourself = save_type,
                              !.next_save_yourself_allow_interact = FALSE,
                              !.asked = @ \/ (save_type = SmSaveGlobal /\ allow_interact)]
               msg == SaveYourself(save_type, save_type # SmSaveLocal,
                                   save_type # SmSaveLocal /\ allow_interact)
    <2>1. r = Send(t, msg)
      BY <1>3 DEF do_save_yourself
    <2>2. t \in XSMPClientState /\ t.current_save_yourself = save_type
      BY DEF Sound, XSMPClientState
    <2>3. msg \in ToClient /\ (save_type \in SaveTypes => IsSave(msg))
      BY DEF SaveYourself, ToClient, IsSave
    <2> HIDE DEF t, msg, r
    <2>4. r.current_save_yourself = save_type /\ (save_type \in SaveTypes => Carries(r))
      BY <2>1, <2>2, <2>3, SendOwes
    <2> QED
      BY <2>4 DEF Owes, r
  <1> QED
    BY <1>1, <1>2, <1>3

LEMMA QueueOwes ==
    ASSUME NEW s, Sound(s)
    PROVE  Owes(s, send_next(s))
  <1>1. CASE s.next_save_yourself = 0
    BY <1>1 DEF send_next, Owes
  <1>2. CASE s.next_save_yourself # 0
    <2> DEFINE t == [s EXCEPT !.next_save_yourself = NoSave,
                              !.next_save_yourself_allow_interact = TRUE]
    <2>1. send_next(s) = do_save_yourself(t, s.next_save_yourself,
                                          s.next_save_yourself_allow_interact)
      BY <1>2 DEF send_next
    <2>2. /\ t \in XSMPClientState /\ t.phase = s.phase
          /\ t.current_save_yourself = s.current_save_yourself
          /\ t.next_save_yourself = NoSave
      BY DEF Sound, XSMPClientState
    <2>3. Sound(t)
      BY <2>2 DEF Sound, OnlyLocalSaves, NoSave, SmSaveBoth
    <2>4. /\ s.next_save_yourself \in SaveTypes \cup {NoSave}
          /\ s.next_save_yourself_allow_interact \in BOOLEAN
      BY DEF Sound, XSMPClientState
    <2> HIDE DEF t
    <2>5. Owes(t, send_next(s))
      BY <2>1, <2>3, <2>4, SaveOwes
    <2> QED
      BY <2>2, <2>5 DEF Owes
  <1> QED
    BY <1>1, <1>2

\* The manager starts saves, or leaves the one in progress alone, or cancels
\* it.
LEMMA ManagerOwes ==
    ASSUME NEW s, Sound(s)
    PROVE  /\ Owes(s, cancel_end_session(s))
           /\ \A r \in end_phase(s) : Owes(s, r)
           /\ \A r \in go_on(s) : Owes(s, r)
           /\ Owes(s, do_phase_exit(s))
  <1>1. Owes(s, cancel_end_session(s))
    <2>1. CASE s.phase = "RUNNING"
      BY <2>1 DEF cancel_end_session, Owes
    <2>2. CASE s.phase # "RUNNING"
      <3> DEFINE told == Send(s, Message("ShutdownCancelled"))
      <3>1. told \in XSMPClientState
        BY Told, MessageFacts DEF Sound
      <3> HIDE DEF told
      <3>2. cancel_end_session(s).current_save_yourself = NoSave
        BY <2>2, <3>1 DEF cancel_end_session, xsmp_cancel_end_session, told, XSMPClientState
      <3> QED
        BY <3>2 DEF Owes
    <2> QED
      BY <2>1, <2>2
  <1>2. ASSUME NEW r \in do_phase_end_session(s) PROVE Owes(s, r)
    <2> DEFINE t == [s EXCEPT !.phase = "END_SESSION", !.awaited = TRUE]
    <2>1. PICK type \in {SmSaveGlobal, SmSaveBoth} : r = do_save_yourself(t, type, FALSE)
      BY DEF do_phase_end_session, xsmp_end_session
    <2>2. /\ t \in XSMPClientState /\ t.phase = "END_SESSION"
          /\ t.current_save_yourself = s.current_save_yourself
          /\ t.next_save_yourself = s.next_save_yourself
          /\ t.next_save_yourself_allow_interact = s.next_save_yourself_allow_interact
      BY DEF Sound, XSMPClientState, Phases
    <2>3. Sound(t) /\ type \in SaveTypes \cup {NoSave}
      BY <2>2 DEF Sound, SaveTypes
    <2> HIDE DEF t
    <2> QED
      BY <2>1, <2>2, <2>3, SaveOwes DEF Owes
  <1>3. Owes(s, do_phase_exit(s))
    <2> DEFINE t == [s EXCEPT !.phase = "EXIT", !.awaited = FALSE, !.do_last = FALSE]
    <2>1. t \in XSMPClientState /\ t.current_save_yourself = s.current_save_yourself
      BY DEF Sound, XSMPClientState, Phases
    <2> HIDE DEF t
    <2>2. Send(t, Message("Die")).current_save_yourself = s.current_save_yourself
      BY <2>1, SendOwes, MessageFacts
    <2> QED
      BY <2>2 DEF do_phase_exit, xsmp_stop, Owes, t
  <1>4. Owes(s, do_phase_end_session_part_2(s))
    <2> DEFINE t == [s EXCEPT !.awaited = TRUE, !.do_last = FALSE]
    <2>1. t \in XSMPClientState /\ t.current_save_yourself = s.current_save_yourself
      BY DEF Sound, XSMPClientState
    <2> HIDE DEF t
    <2>2. Send(t, Message("SaveYourselfPhase2")).current_save_yourself = s.current_save_yourself
      BY <2>1, SendOwes, MessageFacts
    <2> QED
      BY <2>2 DEF do_phase_end_session_part_2, xsmp_save_yourself_phase2, Owes, t
  <1>5. ASSUME NEW r \in end_phase(s) PROVE Owes(s, r)
    <2>1. s.phase \in Phases
      BY DEF Sound, XSMPClientState
    <2>2. \/ r \in do_phase_end_session(s)
          \/ r = do_phase_exit(s)
          \/ r = s
      BY <2>1 DEF end_phase, Phases
    <2> QED
      BY <1>2, <1>3, <2>2 DEF Owes
  <1>6. ASSUME NEW r \in go_on(s) PROVE Owes(s, r)
    <2>1. r = s \/ r = do_phase_end_session_part_2(s) \/ r \in end_phase(s)
      BY DEF go_on
    <2> QED
      BY <1>4, <1>5, <2>1 DEF Owes
  <1> QED
    BY <1>1, <1>3, <1>5, <1>6

LEMMA ResponseOwes ==
    ASSUME NEW s, Sound(s), NEW is_ok \in BOOLEAN, NEW do_last \in BOOLEAN,
           NEW cancel \in BOOLEAN,
           NEW r \in end_session_response(s, is_ok, do_last, cancel)
    PROVE  Owes(s, r)
  <1> DEFINE noted == [s EXCEPT !.awaited = FALSE,
                                !.inhibits = ~is_ok /\ ~s.forced,
                                !.do_last = @ \/ (do_last /\ s.phase = "END_SESSION")]
  <1>1. CASE s.phase = "RUNNING"
    BY <1>1 DEF end_session_response, Owes
  <1>2. CASE s.phase # "RUNNING" /\ cancel
    BY <1>2, ManagerOwes DEF end_session_response
  <1>3. CASE s.phase # "RUNNING" /\ ~cancel
    <2>1. r = noted \/ r \in go_on(noted)
      BY <1>3 DEF end_session_response
    <2>2. /\ noted \in XSMPClientState
          /\ noted.to_client = s.to_client /\ noted.phase = s.phase
          /\ noted.current_save_yourself = s.current_save_yourself
          /\ noted.next_save_yourself = s.next_save_yourself
          /\ noted.next_save_yourself_allow_interact = s.next_save_yourself_allow_interact
      BY DEF Sound, XSMPClientState
    <2> HIDE DEF noted
    <2>3. Sound(noted)
      BY <1>3, <2>2, Noted
    <2> QED
      BY <2>1, <2>2, <2>3, ManagerOwes DEF Owes
  <1> QED
    BY <1>1, <1>2, <1>3

\* The callbacks that take an answer to a save off the wire leave no save in
\* progress but one that is on its way; the others leave it as it was.
LEMMA DoneOwes ==
    ASSUME NEW s, Sound(s), NEW r \in save_yourself_done_callback(s)
    PROVE  r.current_save_yourself = NoSave \/ Carries(r)
  <1> DEFINE told == Send(s, Message("SaveComplete"))
             done == [told EXCEPT !.current_save_yourself = NoSave]
             completed == IF s.current_save_yourself = NoSave THEN s ELSE done
  <1>1. PICK t \in end_session_response(completed, TRUE, FALSE, FALSE) : r = send_next(t)
    BY DEF save_yourself_done_callback
  <1>2. Sound(told)
    BY Told, MessageFacts
  <1>3. Sound(done) /\ done.current_save_yourself = NoSave
    <2> HIDE DEF told
    <2>1. /\ done \in XSMPClientState /\ done.phase = told.phase
          /\ done.current_save_yourself = NoSave
          /\ done.next_save_yourself = told.next_save_yourself
          /\ done.next_save_yourself_allow_interact = told.next_save_yourself_allow_interact
      BY <1>2 DEF Sound, XSMPClientState
    <2> QED
      BY <1>2, <2>1 DEF Sound, OnlyLocalSaves
  <1> HIDE DEF told, done
  <1>4. Sound(completed) /\ completed.current_save_yourself = NoSave
    BY <1>3
  <1> HIDE DEF completed
  <1>5. Sound(t) /\ Owes(completed, t)
    BY <1>1, <1>4, Responded, ResponseOwes
  <1>6. Sound(r) /\ Delivers(t, r) /\ Owes(t, r)
    BY <1>1, <1>5, QueueMoves, QueueOwes
  <1>7. Owes(completed, r)
    BY <1>4, <1>5, <1>6, OwesTwice DEF Sound
  <1> QED
    BY <1>4, <1>7 DEF Owes

LEMMA Phase2Owes ==
    ASSUME NEW s, Sound(s), NEW r \in save_yourself_phase2_request_callback(s)
    PROVE  r.current_save_yourself = NoSave \/ Carries(r)
  <1> DEFINE t == [s EXCEPT !.current_save_yourself = NoSave]
  <1>1. r \in end_session_response(t, TRUE, TRUE, FALSE)
    BY DEF save_yourself_phase2_request_callback
  <1>2. /\ t \in XSMPClientState /\ t.phase = s.phase
        /\ t.current_save_yourself = NoSave
        /\ t.next_save_yourself = s.next_save_yourself
        /\ t.next_save_yourself_allow_interact = s.next_save_yourself_allow_interact
    BY DEF Sound, XSMPClientState
  <1> HIDE DEF t
  <1>3. Sound(t)
    BY <1>2 DEF Sound, OnlyLocalSaves
  <1> QED
    BY <1>1, <1>2, <1>3, ResponseOwes DEF Owes

LEMMA InteractOwes ==
    ASSUME NEW s, Sound(s), NEW r \in interact_request_callback(s)
    PROVE  Owes(s, r)
  <1>1. PICK t \in end_session_response(s, FALSE, FALSE, FALSE) :
            r = Send(t, Message("Interact"))
    BY DEF interact_request_callback
  <1>2. Sound(t) /\ Owes(s, t)
    BY <1>1, Responded, ResponseOwes
  <1>3. /\ Sound(r) /\ Delivers(t, r)
        /\ r.current_save_yourself = t.current_save_yourself
    BY <1>1, <1>2, Told, SendOwes, MessageFacts DEF Sound
  <1> QED
    BY <1>2, <1>3, StillCarries DEF Owes, Sound

LEMMA RegisterOwes ==
    ASSUME NEW s, Sound(s), NEW r \in register_client_callback(s)
    PROVE  Owes(s, r)
  <1> DEFINE t == [s EXCEPT !.current_save_yourself = SmSaveLocal]
             msg == SaveYourself(SmSaveLocal, FALSE, FALSE)
  <1>1. \/ r = Send(s, Message("RegisterClientRejected"))
        \/ r = s
        \/ r = Send(t, msg)
    BY DEF register_client_callback
  <1>2. msg \in ToClient /\ IsSave(msg)
    BY DEF SaveYourself, ToClient, SaveTypes, IsSave
  <1>3. t \in XSMPClientState
    BY DEF Sound, XSMPClientState, SaveTypes
  <1> HIDE DEF t, msg
  <1>4. Carries(Send(t, msg))
    BY <1>2, <1>3, SendOwes
  <1>5. Send(s, Message("RegisterClientRejected")).current_save_yourself =
            s.current_save_yourself
    BY SendOwes, MessageFacts DEF Sound
  <1> QED
    BY <1>1, <1>4, <1>5 DEF Owes

Answers == {"SaveYourselfDone", "SaveYourselfPhase2Request"}

LEMMA CallbackOwes ==
    ASSUME Inv, Callback
    PROVE  \/ x'.current_save_yourself = NoSave \/ Carries(x')
           \/ Owes(x, x') /\ Head(from_client) \notin Answers
  <1>1. Sound(x)
    BY DEF Inv
  <1>2. CASE RegisterClient
    BY <1>1, <1>2, RegisterOwes DEF RegisterClient, Handle, Answers
  <1>3. CASE SaveYourselfRequest
    <2>1. x' = do_save_yourself(x, SmSaveLocal, TRUE)
          /\ Head(from_client) = "SaveYourselfRequest"
      BY <1>3 DEF SaveYourselfRequest, Handle, save_yourself_request_callback
    <2>2. SmSaveLocal \in SaveTypes \cup {NoSave}
      BY DEF SaveTypes
    <2> QED
      BY <1>1, <2>1, <2>2, SaveOwes DEF Answers
  <1>4. CASE SaveYourselfPhase2Request
    BY <1>1, <1>4, Phase2Owes DEF SaveYourselfPhase2Request, Handle
  <1>5. CASE InteractRequest
    BY <1>1, <1>5, InteractOwes DEF InteractRequest, Handle, Answers
  <1>6. CASE InteractDone
    BY <1>1, <1>6, ResponseOwes DEF InteractDone, Handle, interact_done_callback, Answers
  <1>7. CASE SaveYourselfDone
    BY <1>1, <1>7, DoneOwes DEF SaveYourselfDone, Handle
  <1>8. CASE CloseConnection
    <2>1. /\ x' = [x EXCEPT !.gone = TRUE, !.awaited = FALSE, !.do_last = FALSE,
                            !.inhibits = FALSE]
          /\ Head(from_client) = "CloseConnection"
      BY <1>8 DEF CloseConnection, Handle, close_connection_callback
    <2>2. x'.current_save_yourself = x.current_save_yourself
      BY <1>1, <2>1 DEF Sound, XSMPClientState
    <2> QED
      BY <2>1, <2>2 DEF Owes, Answers
  <1> QED
    BY <1>2, <1>3, <1>4, <1>5, <1>6, <1>7, <1>8 DEF Callback

LEMMA ManagerStepOwes ==
    ASSUME Inv, ManagerStep
    PROVE  Owes(x, x') /\ UNCHANGED <<from_client, client>>
  <1>1. Sound(x)
    BY DEF Inv
  <1>2. UNCHANGED <<from_client, client>>
    BY DEF ManagerStep, Manage, StartLogout, QueryTimeout, OthersAnswered,
       IgnoreInhibitors, PhaseTimeout, CancelEndSession
  <1>3. ASSUME NEW forced \in BOOLEAN, StartLogout(forced)
        PROVE  Owes(x, x')
    <2> DEFINE t == [x EXCEPT !.phase = "QUERY_END_SESSION", !.awaited = TRUE,
                              !.forced = forced, !.asked = forced]
    <2>1. x' = do_save_yourself(t, SmSaveGlobal, ~t.forced)
      BY <1>3 DEF StartLogout, Manage, xsmp_query_end_session
    <2>2. /\ t \in XSMPClientState /\ t.phase = "QUERY_END_SESSION"
          /\ t.current_save_yourself = x.current_save_yourself
          /\ t.next_save_yourself = x.next_save_yourself
          /\ t.next_save_yourself_allow_interact = x.next_save_yourself_allow_interact
      BY <1>1 DEF Sound, XSMPClientState, Phases
    <2>3. Sound(t)
      BY <1>1, <2>2 DEF Sound
    <2>4. SmSaveGlobal \in SaveTypes \cup {NoSave} /\ (~t.forced) \in BOOLEAN
      BY DEF SaveTypes
    <2> HIDE DEF t
    <2> QED
      BY <2>1, <2>2, <2>3, <2>4, SaveOwes DEF Owes
  <1>4. CASE QueryTimeout
    <2> DEFINE t == [x EXCEPT !.awaited = FALSE, !.inhibits = ~x.forced, !.asked = TRUE]
    <2>1. x' \in go_on(t) /\ x.phase # "RUNNING"
      BY <1>4 DEF QueryTimeout, Manage
    <2>2. /\ t \in XSMPClientState /\ t.to_client = x.to_client /\ t.phase = x.phase
          /\ t.current_save_yourself = x.current_save_yourself
          /\ t.next_save_yourself = x.next_save_yourself
          /\ t.next_save_yourself_allow_interact = x.next_save_yourself_allow_interact
      BY <1>1 DEF Sound, XSMPClientState
    <2> HIDE DEF t
    <2>3. Sound(t)
      BY <1>1, <2>1, <2>2, Noted
    <2>4. Owes(t, x')
      BY <2>1, <2>3, ManagerOwes
    <2> QED
      BY <1>2, <2>2, <2>4 DEF Owes
  <1>5. CASE IgnoreInhibitors
    <2> DEFINE t == [x EXCEPT !.forced = TRUE, !.asked = TRUE]
    <2>1. x' \in end_phase(t) /\ x.phase # "RUNNING"
      BY <1>5 DEF IgnoreInhibitors, Manage
    <2>2. /\ t \in XSMPClientState /\ t.to_client = x.to_client /\ t.phase = x.phase
          /\ t.current_save_yourself = x.current_save_yourself
          /\ t.next_save_yourself = x.next_save_yourself
          /\ t.next_save_yourself_allow_interact = x.next_save_yourself_allow_interact
      BY <1>1 DEF Sound, XSMPClientState
    <2> HIDE DEF t
    <2>3. Sound(t)
      BY <1>1, <2>1, <2>2, Noted
    <2>4. Owes(t, x')
      BY <2>1, <2>3, ManagerOwes
    <2> QED
      BY <1>2, <2>2, <2>4 DEF Owes
  <1>6. CASE OthersAnswered
    BY <1>1, <1>6, ManagerOwes DEF OthersAnswered, Manage
  <1>7. CASE PhaseTimeout
    BY <1>1, <1>7, ManagerOwes DEF PhaseTimeout, Manage
  <1>8. CASE CancelEndSession
    BY <1>1, <1>8, ManagerOwes DEF CancelEndSession, Manage
  <1> QED
    BY <1>2, <1>3, <1>4, <1>5, <1>6, <1>7, <1>8 DEF ManagerStep

\* The peer has the save.
Busy == client.state \in {"saving", "asking", "interacting", "finishing", "closed"}

\* An answer to a save is on its way back.
Answering == \E i \in 1 .. Len(from_client) : from_client[i] \in Answers

Pending == x.current_save_yourself # NoSave => Carries(x) \/ Busy \/ Answering

LEMMA PendingIsAnswered ==
    ASSUME Inv, Pending
    PROVE  SaveInProgressIsAnswered
  <1>1. /\ DOMAIN x.to_client = 1 .. Len(x.to_client)
        /\ DOMAIN from_client = 1 .. Len(from_client)
    BY DEF Inv, Sound, XSMPClientState, PeerTyped
  <1>2. (\E msg \in OnTheWay(x.to_client) : IsSave(msg)) <=> Carries(x)
    BY <1>1 DEF OnTheWay, Carries
  <1>3. OnTheWay(from_client) \cap Answers # {} <=> Answering
    BY <1>1 DEF OnTheWay, Answering
  <1> QED
    BY <1>2, <1>3 DEF SaveInProgressIsAnswered, Pending, Busy, Answers

LEMMA ReceiveOwes ==
    ASSUME Inv, Receive, Carries(x) \/ Busy \/ Answering
    PROVE  Carries(x') \/ Busy' \/ Answering'
  <1> DEFINE msg == Head(x.to_client)
  <1>1. x.to_client \in Seq(ToClient) /\ x.to_client # <<>>
    BY DEF Inv, Sound, XSMPClientState, Receive
  <1>2. x'.to_client = Tail(x.to_client)
    BY DEF Receive, Inv, Sound, XSMPClientState
  <1>3. Answering => Answering'
    BY DEF Receive, Answering, Inv, PeerTyped
  <1>4. IsSave(msg) => Busy'
    BY DEF Receive, AfterReceiving, Busy
  <1>5. Carries(x) /\ ~IsSave(msg) => Carries(x')
    <2>1. SUFFICES ASSUME NEW i \in 1 .. Len(x.to_client), IsSave(x.to_client[i]),
                          ~IsSave(msg)
                   PROVE  Carries(x')
      BY DEF Carries
    <2>2. i # 1
      BY <1>1, <2>1
    <2>3. /\ i - 1 \in 1 .. Len(Tail(x.to_client))
          /\ Tail(x.to_client)[i - 1] = x.to_client[i]
      BY <1>1, <2>2
    <2> QED
      BY <1>2, <2>1, <2>3 DEF Carries
  <1>6. Busy => Busy'
    <2> HIDE DEF msg
    <2>1. client' = AfterReceiving(msg)
      BY DEF Receive, msg
    <2>2. client \in [state : ClientStates, interact : BOOLEAN]
      BY DEF Inv, PeerTyped
    <2>3. \/ client'.state = client.state
          \/ client'.state \in {"saving", "finishing", "interacting", "closed"}
      BY <2>1, <2>2 DEF AfterReceiving
    <2> QED
      BY <2>3 DEF Busy
  <1> QED
    BY <1>3, <1>4, <1>5, <1>6

LEMMA AnswerOwes ==
    ASSUME Inv, PeerStep, ~Receive, Carries(x) \/ Busy \/ Answering
    PROVE  UNCHANGED x /\ (Carries(x) \/ Busy' \/ Answering')
  <1>1. from_client \in Seq(FromClient) /\ client.state \in ClientStates
    BY DEF Inv, PeerTyped
  <1>2. ASSUME NEW state \in ClientStates, NEW kind \in FromClient, Answer(state, kind)
        PROVE  /\ UNCHANGED x /\ client'.state = state
               /\ Answering => Answering'
               /\ kind \in Answers => Answering'
    <2>1. from_client' = Append(from_client, kind) /\ UNCHANGED x /\ client'.state = state
      BY <1>2 DEF Answer, Inv, PeerTyped
    <2>2. Answering => Answering'
      BY <1>1, <2>1 DEF Answering
    <2>3. ASSUME kind \in Answers PROVE Answering'
      <3>1. /\ Len(from_client') \in 1 .. Len(from_client')
            /\ from_client'[Len(from_client')] = kind
        BY <1>1, <2>1
      <3> QED
        BY <2>3, <3>1 DEF Answering
    <2> QED
      BY <2>1, <2>2, <2>3
  <1>3. CASE FinishSave \/ RequestPhase2
    <2>1. PICK state \in ClientStates, kind \in Answers : Answer(state, kind)
      BY <1>3 DEF FinishSave, RequestPhase2, Answers, ClientStates
    <2> QED
      BY <1>2, <2>1 DEF Answers, FromClient
  <1>4. CASE RequestInteract \/ FinishInteract \/ Close
    <2>1. PICK state \in {"asking", "finishing", "closed"}, kind \in FromClient :
              Answer(state, kind)
      BY <1>4 DEF RequestInteract, FinishInteract, Close, FromClient
    <2> QED
      BY <1>2, <2>1 DEF Busy, ClientStates
  <1>5. CASE RequestCheckpoint
    <2>1. Answer(client.state, "SaveYourselfRequest")
      BY <1>5 DEF RequestCheckpoint
    <2> QED
      BY <1>1, <1>2, <2>1 DEF Busy, FromClient
  <1> QED
    BY <1>3, <1>4, <1>5 DEF PeerStep

LEMMA StepOwes ==
    ASSUME Inv, [Next]_vars, Pending
    PROVE  Pending'
  <1>1. x.current_save_yourself = NoSave \/ Carries(x) \/ Busy \/ Answering
    BY DEF Pending
  <1>2. Inv'
    BY StepInv
  <1> SUFFICES x'.current_save_yourself = NoSave \/ Carries(x') \/ Busy' \/ Answering'
    BY DEF Pending, Carries
  <1>3. x \in XSMPClientState /\ x' \in XSMPClientState
    BY <1>2 DEF Inv, Sound
  <1>4. CASE Callback
    <2>1. UNCHANGED client /\ from_client' = Tail(from_client) /\ from_client # <<>>
      BY <1>4 DEF Callback, Handle, RegisterClient, SaveYourselfRequest,
         SaveYourselfPhase2Request, InteractRequest, InteractDone, SaveYourselfDone,
         CloseConnection
    <2>2. Busy => Busy'
      BY <2>1 DEF Busy
    <2>3. Carries(x) => Carries(x')
      BY <1>3, <1>4, CallbackSteps, StillCarries
    <2>4. ASSUME Answering, Head(from_client) \notin Answers
          PROVE  Answering'
      <3>1. PICK i \in 1 .. Len(from_client) : from_client[i] \in Answers
        BY <2>4 DEF Answering
      <3>2. from_client \in Seq(FromClient)
        BY DEF Inv, PeerTyped
      <3>3. i # 1
        BY <2>1, <2>4, <3>1, <3>2
      <3>4. /\ i - 1 \in 1 .. Len(Tail(from_client))
            /\ Tail(from_client)[i - 1] = from_client[i]
        BY <2>1, <3>2, <3>3
      <3> QED
        BY <2>1, <3>1, <3>4 DEF Answering
    <2> QED
      BY <1>1, <1>4, <2>2, <2>3, <2>4, CallbackOwes DEF Owes
  <1>5. CASE ManagerStep
    <2>1. Owes(x, x') /\ UNCHANGED <<from_client, client>>
      BY <1>5, ManagerStepOwes
    <2>2. (Busy => Busy') /\ (Answering => Answering')
      BY <2>1 DEF Busy, Answering
    <2>3. Carries(x) => Carries(x')
      BY <1>3, <1>5, ManagerSteps, StillCarries
    <2> QED
      BY <1>1, <2>1, <2>2, <2>3 DEF Owes
  <1>6. CASE PeerStep
    <2>1. CASE Receive
      <3>1. x'.current_save_yourself = x.current_save_yourself
        BY <1>3, <2>1 DEF Receive
      <3> QED
        BY <1>1, <2>1, <3>1, ReceiveOwes
    <2>2. CASE ~Receive
      <3>1. UNCHANGED x
        BY <1>6, <2>2 DEF PeerStep, FinishSave, RequestPhase2, RequestInteract,
           FinishInteract, RequestCheckpoint, Close, Answer
      <3> QED
        BY <1>1, <1>6, <2>2, <3>1, AnswerOwes
    <2> QED
      BY <2>1, <2>2
  <1>7. CASE UNCHANGED vars \/ Terminated
    BY <1>1, <1>7 DEF Terminated, vars, Busy, Answering, Carries
  <1> QED
    BY <1>4, <1>5, <1>6, <1>7 DEF Next

\* A save counts as in progress only while its answer is still to come,
\* whatever cancellations, phases and checkpoints come in between: the client
\* object is never left waiting for an answer that the peer does not owe, with
\* the next save stuck behind it.
THEOREM SavesAreAnswered == Spec => []SaveInProgressIsAnswered
  <1>1. Init => Pending
    BY DEF Init, Pending
  <1>2. Inv /\ Pending /\ [Next]_vars => Pending'
    BY StepOwes
  <1>3. Inv /\ Pending => SaveInProgressIsAnswered
    BY PendingIsAnswered
  <1> QED
    BY <1>1, <1>2, <1>3, InvHolds, PTL DEF Spec
=============================================================================
