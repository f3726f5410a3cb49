----------------------------- MODULE XsmpServer -----------------------------
(***************************************************************************)
(* The XSMP servers of the sessions of one user: each listens on sockets,  *)
(* publishes cookies in the one authority file, and takes connections      *)
(* through authentication to a client in its session's store.  Sessions    *)
(* end, or crash, at any moment; the next one may get their process id.    *)
(*                                                                         *)
(* A registered client's messages are XsmpClient's, and the phases are     *)
(* EndSession's: here a session accepts new clients or does not.  libICE   *)
(* and the peers are modelled from how the server uses them.               *)
(***************************************************************************)
EXTENDS IceAuthority, FiniteSets

CONSTANTS
    Servers,        \* sessions at a time
    Peers,          \* connections at a time
    Pids,           \* process ids that sessions get
    SocketLists,    \* what IceListenForConnections may return
    MaxStarts       \* bound: sessions started

\* A process listens once on a local address.
ASSUME XsmpServerAssumption ==
    /\ SocketLists \subseteq Seq(Transports)
    /\ \A l \in SocketLists : \E i \in 1..Len(l) : IsLocal(l[i])
    /\ \A l \in SocketLists : \A i, j \in 1..Len(l) : IsLocal(l[i]) /\ l[i] = l[j] => i = j
    /\ IsFiniteSet(Pids)
    /\ MaxStarts \in Nat

Nobody == "nobody"
ASSUME NobodyAssumption == Nobody \notin Servers \cup Peers

VARIABLES
    file,           \* .ICEauthority
    lock,           \* who holds its lock, or held it when it died
    starts,         \* sessions started, which number the cookies
    server,         \* CsmXsmpServerPrivate, and how far it got
    conn            \* an IceConn with its CsmIceConnectionWatch

vars == <<file, lock, starts, server, conn>>

-----------------------------------------------------------------------------
(* Types.                                                                  *)

Cookies == 0..MaxStarts
Entry == [protocol : Protocols, id : Pids \X {"local", "unix"}, cookie : Cookies]

\* off, and the steps of setup_listener: waiting for the lock, reading,
\* writing, unlocking; then SESSION_MANAGER is set, and csm_manager_start.
Stages == {"off", "locking", "reading", "writing", "written", "set up", "started"}

Server ==
    [ stage : Stages, pid : Pids \cup {0}, ids : Seq(Pids \X {"local", "unix"}),
      cookie : Cookies,             \* that the server checks against
      entries : Seq(Entry),         \* to be written
      stopping : BOOLEAN ]

NoServer ==
    [ stage |-> "off", pid |-> 0, ids |-> << >>, cookie |-> 0, entries |-> << >>,
      stopping |-> FALSE ]

\* queued: in the socket's backlog; ghost: a client in the store whose IceConn
\* was closed by the error handler.
Connection ==
    [ state : {"none", "queued", "setup", "rejected", "ready", "client", "ghost"},
      server : Servers \cup {Nobody},
      ice : Cookies, xsmp : Cookies,    \* what the peer looked up
      timer : BOOLEAN, watch : BOOLEAN, \* CsmIceConnectionWatch
      peer : BOOLEAN ]                  \* has not hung up

NoConnection ==
    [ state |-> "none", server |-> Nobody, ice |-> 0, xsmp |-> 0,
      timer |-> FALSE, watch |-> FALSE, peer |-> FALSE ]

\* The file has at most two entries of a network id, whatever sessions ended
\* without removing theirs.
TypeOK ==
    /\ file \in Seq(Entry) /\ Len(file) <= 4 * Cardinality(Pids)
    /\ lock \in Servers \cup {Nobody}
    /\ starts \in 0..MaxStarts
    /\ server \in [Servers -> Server]
    /\ conn \in [Peers -> Connection]

Publishes(s) == server[s].stage \in {"set up", "started"}

-----------------------------------------------------------------------------
(* setup_listener and update_iceauthority.                                 *)

csm_xsmp_server_new(s) ==
    /\ server[s].stage = "off" /\ starts < MaxStarts
    /\ \E pid \in Pids \ {server[t].pid : t \in Servers}, l \in SocketLists :
         server' = [server EXCEPT ![s] =
                      [NoServer EXCEPT !.stage = "locking", !.pid = pid,
                                       !.ids = NetworkIds(pid, l), !.cookie = starts + 1]]
    /\ starts' = starts + 1
    /\ UNCHANGED <<file, lock, conn>>

IceLockAuthFile(s) ==
    /\ server[s].stage = "locking" /\ lock = Nobody
    /\ lock' = s
    /\ server' = [server EXCEPT ![s].stage = "reading"]
    /\ UNCHANGED <<file, starts, conn>>

\* After ten retries.
IceLockAuthFileFails(s) ==
    /\ server[s].stage = "locking" /\ lock # Nobody
    /\ server' = [server EXCEPT ![s] = NoServer]
    /\ UNCHANGED <<file, lock, starts, conn>>

\* A lock is broken after ten minutes, in which a living holder is done.
LockIsBroken ==
    /\ lock # Nobody /\ server[lock].stage \notin {"reading", "writing", "written"}
    /\ lock' = Nobody
    /\ UNCHANGED <<file, starts, server, conn>>

Prepared(s) ==
    [server EXCEPT ![s].stage = "writing",
                   ![s].entries = update_entries(file, server[s].ids, server[s].cookie)]

\* Mutant: the lock is given up after reading.
ReadAuthority_unlocked(s) ==
    /\ server[s].stage = "reading"
    /\ server' = Prepared(s) /\ lock' = Nobody
    /\ UNCHANGED <<file, starts, conn>>

ReadAuthority(s) ==
    /\ server[s].stage = "reading"
    /\ server' = Prepared(s)
    /\ UNCHANGED <<file, lock, starts, conn>>

\* The file cannot be opened: an error that ends the session.
ReadAuthorityFails(s) ==
    /\ server[s].stage = "reading"
    /\ lock' = Nobody
    /\ server' = [server EXCEPT ![s] = NoServer]
    /\ UNCHANGED <<file, starts, conn>>

WriteAuthority(s) ==
    /\ server[s].stage = "writing"
    /\ file' = Overwrite(file, server[s].entries)
    /\ server' = [server EXCEPT ![s].stage = "written", ![s].entries = << >>]
    /\ UNCHANGED <<lock, starts, conn>>

IceUnlockAuthFile(s) ==
    /\ server[s].stage = "written"
    /\ lock' = Nobody
    /\ server' = [server EXCEPT ![s].stage = "set up"]
    /\ UNCHANGED <<file, starts, conn>>

csm_xsmp_server_start(s) ==
    /\ server[s].stage = "set up"
    /\ server' = [server EXCEPT ![s].stage = "started"]
    /\ UNCHANGED <<file, lock, starts, conn>>

\* A logout begins, or was cancelled.
AcceptingNewClients(s) ==
    /\ server[s].stage = "started"
    /\ server' = [server EXCEPT ![s].stopping = ~@]
    /\ UNCHANGED <<file, lock, starts, conn>>

\* The session ends or crashes; nobody removes its entries or its lock.
Ends(s) ==
    /\ server[s].stage # "off"
    /\ server' = [server EXCEPT ![s] = NoServer]
    /\ conn' = [c \in Peers |-> IF conn[c].server = s THEN NoConnection ELSE conn[c]]
    /\ UNCHANGED <<file, lock, starts>>

-----------------------------------------------------------------------------
(* A connection.                                                           *)

Connects(c, d) == conn' = [conn EXCEPT ![c] = d] /\ UNCHANGED <<file, lock, starts, server>>

\* A program started in the session tries a network id of SESSION_MANAGER.
Dial(c) ==
    /\ conn[c].state = "none"
    /\ \E s \in Servers : \E i \in 1..Len(server[s].ids) :
         /\ Publishes(s)
         /\ Connects(c, [NoConnection EXCEPT
                           !.state = "queued", !.server = s, !.peer = TRUE,
                           !.ice = Lookup(file, "ICE", server[s].ids[i]),
                           !.xsmp = Lookup(file, "XSMP", server[s].ids[i])])

Owner(c) == server[conn[c].server]

free_ice_connection_watch(d) == [d EXCEPT !.watch = FALSE, !.timer = FALSE]

auth_ice_connection(d) == [d EXCEPT !.state = "setup", !.watch = TRUE, !.timer = TRUE]

accept_ice_connection(c) ==
    /\ conn[c].state = "queued" /\ Owner(c).stage = "started"
    /\ \/ Connects(c, auth_ice_connection(conn[c]))
       \/ Connects(c, NoConnection)                     \* IceAcceptConnection failed

ice_protocol_timeout(c) ==
    /\ conn[c].timer
    /\ Connects(c, NoConnection)

\* Mutant: the watch is freed before the server looks at stopping.
accept_xsmp_connection_freed(d, stopping) ==
    LET e == free_ice_connection_watch(d)
    IN  IF stopping THEN e ELSE [e EXCEPT !.state = "client"]

\* Refused, the connection stays as it is: the peer may try again.
accept_xsmp_connection(d, stopping) ==
    IF stopping THEN d ELSE [free_ice_connection_watch(d) EXCEPT !.state = "client"]

\* IceProcessMessages with a message: the connection's cookie, then the one
\* of the protocol.
IceProcessMessagesSuccess(c) ==
    /\ conn[c].watch
    /\ \/ /\ conn[c].state = "setup"
          /\ Connects(c, [conn[c] EXCEPT !.state =
                            IF conn[c].ice = Owner(c).cookie THEN "ready" ELSE "rejected"])
       \/ /\ conn[c].state = "ready" /\ conn[c].xsmp = Owner(c).cookie
          /\ Connects(c, accept_xsmp_connection(conn[c], Owner(c).stopping))

\* The peer has hung up, or the error handler has closed the connection.
IceProcessMessagesEnds(c) ==
    /\ conn[c].watch
    /\ Connects(c, NoConnection)

HangUp(c) ==
    /\ conn[c].peer
    /\ Connects(c, [conn[c] EXCEPT !.peer = FALSE])

\* "disconnected" removes the client and closes the connection.
ClientIOError(c) ==
    /\ conn[c].state = "client" /\ ~conn[c].peer
    /\ Connects(c, NoConnection)

\* ice_error_handler closes the connection of a client, which forgets it.
ClientConnectionClosed(c) ==
    /\ conn[c].state = "client"
    /\ Connects(c, [conn[c] EXCEPT !.state = "ghost"])

-----------------------------------------------------------------------------

Init ==
    /\ file = << >> /\ lock = Nobody /\ starts = 0
    /\ server = [s \in Servers |-> NoServer]
    /\ conn = [c \in Peers |-> NoConnection]

Next ==
    \/ LockIsBroken
    \/ \E s \in Servers :
         \/ csm_xsmp_server_new(s) \/ IceLockAuthFile(s) \/ IceLockAuthFileFails(s)
         \/ ReadAuthority(s) \/ ReadAuthorityFails(s) \/ WriteAuthority(s)
         \/ IceUnlockAuthFile(s) \/ csm_xsmp_server_start(s)
         \/ AcceptingNewClients(s) \/ Ends(s)
    \/ \E c \in Peers :
         \/ Dial(c) \/ accept_ice_connection(c) \/ ice_protocol_timeout(c)
         \/ IceProcessMessagesSuccess(c) \/ IceProcessMessagesEnds(c)
         \/ HangUp(c) \/ ClientIOError(c) \/ ClientConnectionClosed(c)

Spec == Init /\ [][Next]_vars

\* Sessions start, the main loop accepts what is queued, and timers fire.
FairSpec ==
    /\ Spec
    /\ \A s \in Servers : WF_vars(csm_xsmp_server_start(s))
    /\ \A c \in Peers : WF_vars(accept_ice_connection(c)) /\ WF_vars(ice_protocol_timeout(c))

-----------------------------------------------------------------------------
(* Properties.                                                             *)

\* As long as a session runs, what a program finds in the file for any of the
\* published addresses is what the server accepts: sessions that start at the
\* same time do not lose each other's entries, and entries left behind by
\* sessions that ended or crashed, at whatever step, are not found first.
LookupIsAccepted ==
    \A s \in Servers : Publishes(s) =>
        \A i \in 1..Len(server[s].ids), p \in Protocols :
            Lookup(file, p, server[s].ids[i]) = server[s].cookie

\* A connection that was made becomes a client or is dropped, although the
\* peer may stay silent, have no cookie or be refused during a logout.
Pending(c) == conn[c].state \in {"queued", "setup", "rejected", "ready"}
EveryConnectionIsSettled == \A c \in Peers : Pending(c) ~> ~Pending(c)

=============================================================================
