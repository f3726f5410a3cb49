-------------------------- MODULE EndSessionProtocol --------------------------
(***************************************************************************)
(* What the session manager promises its clients when the session ends,    *)
(* whatever the dialog, the inhibitors, the timers and the bus do: all the *)
(* clients are asked together, then told to save together, then told to    *)
(* stop together; nobody is told to save who was not asked first, nobody   *)
(* is told to stop who was not told to save; a cancellation puts everybody *)
(* back to work; and the session is over only after everybody was told to  *)
(* stop or the system was asked to go down.  Clients may leave at any time *)
(* and join only while the session runs.                                   *)
(***************************************************************************)
CONSTANT Clients

VARIABLES
    phase,      \* of the session
    clients,    \* those that are part of the session
    told,       \* the last signal each of them received
    poweroff,   \* the system was asked to go down
    over        \* the manager has left its main loop

vars == <<phase, clients, told, poweroff, over>>

\* Everybody who stays is told signal.
AllTold(signal) ==
    /\ clients' \subseteq clients
    /\ told' = [c \in Clients |-> IF c \in clients' THEN signal ELSE "none"]

Init ==
    /\ phase = "RUNNING"
    /\ clients = {}
    /\ told = [c \in Clients |-> "none"]
    /\ poweroff = FALSE
    /\ over = FALSE

Join(c) ==
    /\ phase = "RUNNING"
    /\ c \notin clients
    /\ clients' = clients \cup {c}
    /\ UNCHANGED <<phase, told, poweroff, over>>

Leave ==
    /\ clients' \subseteq clients
    /\ told' = [c \in Clients |-> IF c \in clients' THEN told[c] ELSE "none"]
    /\ UNCHANGED <<phase, poweroff, over>>

Ask ==
    /\ phase = "RUNNING"
    /\ phase' = "QUERY_END_SESSION"
    /\ AllTold("QueryEndSession")
    /\ UNCHANGED <<clients, poweroff, over>>

Save ==
    /\ phase = "QUERY_END_SESSION"
    /\ phase' = "END_SESSION"
    /\ AllTold("EndSession")
    /\ clients' # {}
    /\ UNCHANGED <<poweroff, over>>

\* Those who wanted to be last are told to save again.
SaveLast ==
    /\ phase = "END_SESSION"
    /\ clients' \subseteq clients
    /\ \E last \in SUBSET clients' :
          told' = [c \in Clients |-> IF c \notin clients' THEN "none"
                                     ELSE IF c \in last THEN "EndSessionLast"
                                                        ELSE told[c]]
    /\ UNCHANGED <<phase, poweroff, over>>

\* A logout is over at once, a reboot or power-off when the system has answered.
Quit ==
    \/ over' = TRUE /\ UNCHANGED poweroff
    \/ poweroff' = TRUE /\ UNCHANGED over

\* The save is skipped only if there is nobody left to save.
Stop ==
    /\ \/ phase = "END_SESSION"
       \/ phase = "QUERY_END_SESSION" /\ clients' = {}
    /\ phase' = "EXIT"
    /\ AllTold("Stop")
    /\ Quit

Cancel ==
    /\ phase # "RUNNING"
    /\ phase' = "RUNNING"
    /\ AllTold("none")
    /\ UNCHANGED <<clients, poweroff, over>>

\* Asked again, as the last client leaves.
StopAgain ==
    /\ phase = "EXIT"
    /\ AllTold("Stop")
    /\ Quit
    /\ UNCHANGED phase

\* The machine goes down, or the manager quits, though the end of the session
\* was cancelled after the system had been asked to power off.
PoweredOff ==
    /\ poweroff
    /\ over' = TRUE
    /\ UNCHANGED <<phase, clients, told, poweroff>>

Next ==
    \/ \E c \in Clients : Join(c)
    \/ Leave
    \/ Ask
    \/ Save
    \/ SaveLast
    \/ Stop
    \/ Cancel
    \/ StopAgain
    \/ PoweredOff

Spec == Init /\ [][~over /\ Next]_vars

=============================================================================
