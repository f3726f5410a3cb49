------------------------------ MODULE XsmpClient ------------------------------
(***************************************************************************)
(* One XSMP client of the session as csm-xsmp-client.c drives it: at most  *)
(* one SaveYourself in progress (current_save_yourself) and one waiting    *)
(* behind it (next_save_yourself), through registration, the client's own  *)
(* checkpoints, and the logouts that the manager starts, takes through     *)
(* their phases and cancels.                                               *)
(*                                                                         *)
(* The object calls the manager from inside its callbacks: the answer to   *)
(* a save may end a phase of the logout, which calls back into the object  *)
(* to start the next save before the callback goes on.  The callbacks are  *)
(* therefore operators on the object's structure; one that calls the       *)
(* manager returns the set of structures it may find when the call         *)
(* returns, since what the other clients have answered is not modelled.    *)
(*                                                                         *)
(* The peer is a client that follows the protocol, on an ordered           *)
(* connection: it answers every SaveYourself, interacts only if it may,    *)
(* and only once in a save.                                                *)
(***************************************************************************)
EXTENDS Integers, Sequences

CONSTANTS
    Features,       \* what the peer uses: "interact", "phase2", "checkpoint"
    MaxMessages     \* bound: messages on the way when a new exchange is begun

ASSUME ConstantsAssumption ==
    /\ Features \subseteq {"interact", "phase2", "checkpoint"}
    /\ MaxMessages \in Nat \ {0}

VARIABLES
    x,              \* CsmXSMPClientPrivate, and how the manager stands to it
    from_client,    \* messages of the peer, not handled yet
    client          \* the peer

vars == <<x, from_client, client>>

-----------------------------------------------------------------------------
(* Types.  The save types are the integers of SMlib.h, as the code compares *)
(* them with -1 and, in one place, with 0.                                 *)

SmSaveGlobal == 0
SmSaveLocal == 1
SmSaveBoth == 2
NoSave == -1

SaveTypes == {SmSaveGlobal, SmSaveLocal, SmSaveBoth}

ToClient ==
    [ kind : {"SaveYourself", "SaveYourselfPhase2", "Interact", "SaveComplete",
              "ShutdownCancelled", "Die", "RegisterClientRejected"},
      type : SaveTypes \cup {NoSave}, shutdown : BOOLEAN, interact : BOOLEAN ]

FromClient ==
    {"RegisterClient", "SaveYourselfRequest", "SaveYourselfPhase2Request",
     "InteractRequest", "InteractDone", "InteractDoneCancel",
     "SaveYourselfDone", "CloseConnection"}

Phases == {"RUNNING", "QUERY_END_SESSION", "END_SESSION", "EXIT"}

XSMPClientState ==
    [ current_save_yourself : SaveTypes \cup {NoSave},
      next_save_yourself    : SaveTypes \cup {NoSave},
      next_save_yourself_allow_interact : BOOLEAN,
      to_client : Seq(ToClient),
      phase     : Phases,
      forced    : BOOLEAN,      \* logout_mode is FORCE
      awaited   : BOOLEAN,      \* the client is in query_clients
      do_last   : BOOLEAN,      \* the client is in next_query_clients
      inhibits  : BOOLEAN,      \* it has a just-in-time inhibitor
      asked     : BOOLEAN,      \* history: this logout asked it, or needed not
      gone      : BOOLEAN ]     \* disconnected, and out of the store

\* The peer: in a save it may still request to interact ("saving") or may not
\* ("finishing"); it waits for the permission, interacts, waits for phase 2.
ClientStates ==
    {"idle", "saving", "asking", "interacting", "phase2", "finishing", "closed"}

Message(kind) ==
    [kind |-> kind, type |-> NoSave, shutdown |-> FALSE, interact |-> FALSE]

SaveYourself(type, shutdown, interact) ==
    [kind |-> "SaveYourself", type |-> type, shutdown |-> shutdown,
     interact |-> interact]

IsSave(msg) == msg.kind = "SaveYourself" /\ msg.type \in SaveTypes

-----------------------------------------------------------------------------
(* The object's operations.                                                *)

Send(s, msg) == [s EXCEPT !.to_client = Append(@, msg)]

\* One save at a time, and one behind it; a third is redundant.  Only a
\* SmSaveLocal is not part of a shutdown.
do_save_yourself(s, save_type, allow_interact) ==
    IF s.next_save_yourself # NoSave
      THEN s
      ELSE IF s.current_save_yourself # NoSave
             THEN [s EXCEPT !.next_save_yourself = save_type,
                            !.next_save_yourself_allow_interact = allow_interact]
             ELSE Send([s EXCEPT !.current_save_yourself = save_type,
                                 !.next_save_yourself_allow_interact = FALSE,
                                 !.asked = @ \/ (save_type = SmSaveGlobal /\ allow_interact)],
                       SaveYourself(save_type, save_type # SmSaveLocal,
                                    save_type # SmSaveLocal /\ allow_interact))

xsmp_query_end_session(s) == do_save_yourself(s, SmSaveGlobal, ~s.forced)

\* Mutant: the client may interact again.
xsmp_end_session_interactive(s, save_type) ==
    do_save_yourself(s, save_type, ~s.forced)

xsmp_end_session(s, save_type) == do_save_yourself(s, save_type, FALSE)

xsmp_save_yourself_phase2(s) == Send(s, Message("SaveYourselfPhase2"))

\* Mutant: what is queued stays queued.
xsmp_cancel_end_session_keeps_next(s) ==
    [Send(s, Message("ShutdownCancelled")) EXCEPT !.current_save_yourself = NoSave]

xsmp_cancel_end_session(s) ==
    [Send(s, Message("ShutdownCancelled")) EXCEPT
        !.current_save_yourself = NoSave,
        !.next_save_yourself = NoSave,
        !.next_save_yourself_allow_interact = FALSE]

xsmp_stop(s) == Send(s, Message("Die"))

-----------------------------------------------------------------------------
(* The manager, as far as this client sees it (module EndSession has the    *)
(* whole of it).                                                           *)

cancel_end_session(s) ==
    IF s.phase = "RUNNING"
      THEN s
      ELSE [xsmp_cancel_end_session(s) EXCEPT
               !.phase = "RUNNING", !.forced = FALSE, !.awaited = FALSE,
               !.do_last = FALSE, !.inhibits = FALSE, !.asked = TRUE]

\* The session is saved, or not, as the user's setting has it.
do_phase_end_session(s) ==
    { xsmp_end_session([s EXCEPT !.phase = "END_SESSION", !.awaited = TRUE], type) :
        type \in {SmSaveGlobal, SmSaveBoth} }

do_phase_end_session_part_2(s) ==
    xsmp_save_yourself_phase2([s EXCEPT !.awaited = TRUE, !.do_last = FALSE])

do_phase_exit(s) ==
    xsmp_stop([s EXCEPT !.phase = "EXIT", !.awaited = FALSE, !.do_last = FALSE])

end_phase(s) ==
    CASE s.phase = "QUERY_END_SESSION" -> do_phase_end_session(s)
      [] s.phase = "END_SESSION" -> {do_phase_exit(s)}
      [] s.phase \in {"RUNNING", "EXIT"} -> {s}

\* What the manager does once nobody is waited for.
go_on(s) ==
    IF s.inhibits /\ ~s.forced
      THEN {s}
      ELSE IF s.phase = "END_SESSION" /\ s.do_last
             THEN {do_phase_end_session_part_2(s)}
             ELSE end_phase(s)

\* csm_client_end_session_response.  An answer that was the last one ends the
\* phase before the call returns; others may have to answer still.
end_session_response(s, is_ok, do_last, cancel) ==
    LET noted == [s EXCEPT !.awaited = FALSE,
                           !.inhibits = ~is_ok /\ ~s.forced,
                           !.do_last = @ \/ (do_last /\ s.phase = "END_SESSION")]
    IN  CASE s.phase = "RUNNING" -> {s}
          [] s.phase # "RUNNING" /\ cancel -> {cancel_end_session(s)}
          [] s.phase # "RUNNING" /\ ~cancel -> {noted} \cup go_on(noted)

-----------------------------------------------------------------------------
(* The callbacks, one for each message of the peer.                        *)

\* A new client is told to save its state at once; one that asks to register
\* in the middle of a logout is turned down.
register_client_callback(s) ==
    IF s.phase # "RUNNING"
      THEN {Send(s, Message("RegisterClientRejected"))}
      ELSE {s, Send([s EXCEPT !.current_save_yourself = SmSaveLocal],
                    SaveYourself(SmSaveLocal, FALSE, FALSE))}

\* The peer asks for a checkpoint of its own: neither shutdown nor global.
save_yourself_request_callback(s) == {do_save_yourself(s, SmSaveLocal, TRUE)}

\* Mutant: the save stays in progress while the peer waits for phase 2.
save_yourself_phase2_request_callback_in_progress(s) ==
    end_session_response(s, TRUE, TRUE, FALSE)

save_yourself_phase2_request_callback(s) ==
    end_session_response([s EXCEPT !.current_save_yourself = NoSave], TRUE, TRUE, FALSE)

interact_request_callback(s) ==
    { Send(t, Message("Interact")) : t \in end_session_response(s, FALSE, FALSE, FALSE) }

interact_done_callback(s, cancel_shutdown) ==
    end_session_response(s, TRUE, FALSE, cancel_shutdown)

\* Mutant: the queue is not emptied before its save is started.
send_next_still_queued(s) ==
    IF s.next_save_yourself = 0
      THEN s
      ELSE do_save_yourself(s, s.next_save_yourself, s.next_save_yourself_allow_interact)

\* What is queued is sent unless it is 0: that is SmSaveGlobal, and not -1,
\* which stands for an empty queue.
send_next(s) ==
    IF s.next_save_yourself = 0
      THEN s
      ELSE do_save_yourself([s EXCEPT !.next_save_yourself = NoSave,
                                      !.next_save_yourself_allow_interact = TRUE],
                            s.next_save_yourself, s.next_save_yourself_allow_interact)

save_yourself_done_callback(s) ==
    LET completed == IF s.current_save_yourself = NoSave
                       THEN s
                       ELSE [Send(s, Message("SaveComplete")) EXCEPT
                                !.current_save_yourself = NoSave]
    IN  { send_next(t) : t \in end_session_response(completed, TRUE, FALSE, FALSE) }

\* The manager forgets the client, and no longer waits for it.
close_connection_callback(s) ==
    {[s EXCEPT !.gone = TRUE, !.awaited = FALSE, !.do_last = FALSE, !.inhibits = FALSE]}

-----------------------------------------------------------------------------
Init ==
    /\ x = [ current_save_yourself |-> NoSave,
             next_save_yourself |-> NoSave,
             next_save_yourself_allow_interact |-> FALSE,
             to_client |-> <<>>,
             phase |-> "RUNNING",
             forced |-> FALSE,
             awaited |-> FALSE,
             do_last |-> FALSE,
             inhibits |-> FALSE,
             asked |-> TRUE,
             gone |-> FALSE ]
    /\ from_client = <<"RegisterClient">>
    /\ client = [state |-> "idle", interact |-> FALSE]

\* A message of the peer is handled.
Handle(kind, result) ==
    /\ ~x.gone
    /\ from_client # <<>>
    /\ Head(from_client) = kind
    /\ x' \in result
    /\ from_client' = Tail(from_client)
    /\ UNCHANGED client

RegisterClient == Handle("RegisterClient", register_client_callback(x))
SaveYourselfRequest ==
    Handle("SaveYourselfRequest", save_yourself_request_callback(x))
SaveYourselfPhase2Request ==
    Handle("SaveYourselfPhase2Request", save_yourself_phase2_request_callback(x))
InteractRequest == Handle("InteractRequest", interact_request_callback(x))
InteractDone ==
    \/ Handle("InteractDone", interact_done_callback(x, FALSE))
    \/ Handle("InteractDoneCancel", interact_done_callback(x, TRUE))
SaveYourselfDone == Handle("SaveYourselfDone", save_yourself_done_callback(x))
CloseConnection == Handle("CloseConnection", close_connection_callback(x))

\* The manager acts on its own, or for another client.
Manage(result) ==
    /\ ~x.gone
    /\ x' \in result
    /\ UNCHANGED <<from_client, client>>

StartLogout(forced) ==
    /\ x.phase = "RUNNING"
    /\ Len(x.to_client) + Len(from_client) < MaxMessages
    /\ Manage({xsmp_query_end_session([x EXCEPT !.phase = "QUERY_END_SESSION",
                                               !.awaited = TRUE, !.forced = forced,
                                               !.asked = forced])})

\* The query's second is over, and the client had its chance.  Only a forced
\* logout goes on without its answer.
QueryTimeout ==
    /\ x.phase = "QUERY_END_SESSION"
    /\ x.awaited
    /\ Manage(go_on([x EXCEPT !.awaited = FALSE, !.inhibits = ~x.forced, !.asked = TRUE]))

\* The last of the others answered.
OthersAnswered ==
    /\ x.phase \in {"QUERY_END_SESSION", "END_SESSION"}
    /\ ~x.awaited
    /\ Manage(go_on(x))

\* The user goes on in spite of the inhibitors.
IgnoreInhibitors ==
    /\ x.phase \in {"QUERY_END_SESSION", "END_SESSION"}
    /\ Manage(end_phase([x EXCEPT !.forced = TRUE, !.asked = TRUE]))

PhaseTimeout ==
    /\ x.phase = "END_SESSION"
    /\ Manage({do_phase_exit(x)})

CancelEndSession ==
    /\ x.phase # "RUNNING"
    /\ Manage({cancel_end_session(x)})

-----------------------------------------------------------------------------
(* The peer.                                                               *)

Answer(state, kind) ==
    /\ client' = [client EXCEPT !.state = state]
    /\ from_client' = Append(from_client, kind)
    /\ UNCHANGED x

FinishSave ==
    /\ client.state \in {"saving", "finishing"}
    /\ Answer("idle", "SaveYourselfDone")

RequestPhase2 ==
    /\ "phase2" \in Features
    /\ client.state = "saving"
    /\ Answer("phase2", "SaveYourselfPhase2Request")

RequestInteract ==
    /\ "interact" \in Features
    /\ client.state = "saving"
    /\ client.interact
    /\ Answer("asking", "InteractRequest")

FinishInteract ==
    /\ client.state = "interacting"
    /\ \E kind \in {"InteractDone", "InteractDoneCancel"} : Answer("finishing", kind)

RequestCheckpoint ==
    /\ "checkpoint" \in Features
    /\ client.state # "closed"
    /\ Len(x.to_client) + Len(from_client) < MaxMessages
    /\ Answer(client.state, "SaveYourselfRequest")

\* The peer exits, at any time.
Close ==
    /\ client.state # "closed"
    /\ Answer("closed", "CloseConnection")

\* A save of another type than the protocol's three is refused by the peer's
\* library.  A cancelled save is finished without further ado.
AfterReceiving(msg) ==
    CASE IsSave(msg) -> [state |-> "saving", interact |-> msg.interact]
      [] msg.kind = "SaveYourselfPhase2" /\ client.state = "phase2" ->
             [client EXCEPT !.state = "finishing"]
      [] msg.kind = "Interact" /\ client.state = "asking" ->
             [client EXCEPT !.state = "interacting"]
      [] msg.kind = "ShutdownCancelled" /\ client.state # "idle" ->
             [client EXCEPT !.state = "finishing"]
      [] msg.kind \in {"Die", "RegisterClientRejected"} ->
             [client EXCEPT !.state = "closed"]
      [] OTHER -> client

Receive ==
    /\ client.state # "closed"
    /\ x.to_client # <<>>
    /\ x' = [x EXCEPT !.to_client = Tail(@)]
    /\ client' = AfterReceiving(Head(x.to_client))
    /\ from_client' = IF client'.state = "closed"
                        THEN Append(from_client, "CloseConnection")
                        ELSE from_client

\* Nothing happens to a client that is gone.
Terminated == x.gone /\ UNCHANGED vars

Callback ==
    \/ RegisterClient
    \/ SaveYourselfRequest
    \/ SaveYourselfPhase2Request
    \/ InteractRequest
    \/ InteractDone
    \/ SaveYourselfDone
    \/ CloseConnection

ManagerStep ==
    \/ \E forced \in BOOLEAN : StartLogout(forced)
    \/ QueryTimeout
    \/ OthersAnswered
    \/ IgnoreInhibitors
    \/ PhaseTimeout
    \/ CancelEndSession

PeerStep ==
    \/ FinishSave
    \/ RequestPhase2
    \/ RequestInteract
    \/ FinishInteract
    \/ RequestCheckpoint
    \/ Close
    \/ Receive

Next == Callback \/ ManagerStep \/ PeerStep \/ Terminated

Spec == Init /\ [][Next]_vars

\* The main loop handles what arrives; a peer reads what it is sent and ends
\* its saves and interactions.
FairSpec ==
    /\ Spec
    /\ WF_vars(Callback)
    /\ WF_vars(Receive)
    /\ WF_vars(FinishSave)
    /\ WF_vars(FinishInteract)

-----------------------------------------------------------------------------
(* Properties.                                                             *)

\* Every variable has its type.
TypeOK ==
    /\ x \in XSMPClientState
    /\ from_client \in Seq(FromClient)
    /\ client \in [state : ClientStates, interact : BOOLEAN]

OnTheWay(msgs) == {msgs[i] : i \in DOMAIN msgs}

\* Messages that this step put on the wire to the peer.
Sent == { x'.to_client[i] : i \in Len(x.to_client) + 1 .. Len(x'.to_client) }

\* While a save counts as in progress an answer to it is still to come: the
\* save is on its way to the peer, or the peer is at it, or its answer is on
\* its way back.  Otherwise nothing would ever take the next save from the
\* queue (do_save_yourself, save_yourself_done_callback and the callback for
\* phase 2, against cancellations and saves of earlier logouts).
SaveInProgressIsAnswered ==
    x.current_save_yourself # NoSave =>
        \/ \E msg \in OnTheWay(x.to_client) : IsSave(msg)
        \/ client.state \in {"saving", "asking", "interacting", "finishing", "closed"}
        \/ OnTheWay(from_client) \cap
              {"SaveYourselfDone", "SaveYourselfPhase2Request"} # {}

OnlyLocalSaves(s) ==
    /\ s.current_save_yourself \in {NoSave, SmSaveLocal}
    /\ s.next_save_yourself \in {NoSave, SmSaveLocal}

\* Outside a logout only local saves are in progress or queued, although a
\* logout may be cancelled with one save in progress and another behind it,
\* and the answers to both may come after that (xsmp_cancel_end_session).
RunningSavesAreLocal == x.phase = "RUNNING" => OnlyLocalSaves(x)

\* A client is never told to save for a shutdown that is not going on.
ShutdownSavesBelongToLogout ==
    [][ \A msg \in Sent : IsSave(msg) /\ msg.shutdown => x'.phase # "RUNNING" ]_vars

\* A forced logout, and any logout once the session ends, does not let a
\* client interact, whatever is sent from the queue after the fact
\* ("now it's too late to interact", xsmp_end_session).
TooLateToInteract ==
    [][ \A msg \in Sent :
          IsSave(msg) /\ (x'.forced \/ x'.phase \in {"END_SESSION", "EXIT"}) =>
              ~msg.interact ]_vars

\* A queued save of another type than SmSaveGlobal is sent or dropped by a
\* cancellation, unless the session or the client ends first, or the client
\* waits for phase 2: the queue moves with a SaveYourselfDone only, which that
\* client does not send before it is told SaveYourselfPhase2.
QueuedSaveIsSent ==
    x.next_save_yourself \in {SmSaveLocal, SmSaveBoth}
        ~> \/ x.next_save_yourself = NoSave
           \/ x.phase = "EXIT"
           \/ client.state \in {"closed", "phase2"}

\* Violated.  "we want to give the client a chance to tell the user about it"
\* (xsmp_query_end_session): a logout that is not forced ends the session
\* only after it asked the client, unless the client kept silent.
AskedBeforeTheEnd ==
    x.phase \in {"END_SESSION", "EXIT"} => x.asked

=============================================================================
