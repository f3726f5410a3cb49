------------------------------ MODULE Inhibition ------------------------------
(***************************************************************************)
(* What inhibitors of suspending and of idling do while the session runs:  *)
(* the manager's store of inhibitors, the union of their flags that it     *)
(* publishes (InhibitedActions), the presence it tells whether the session *)
(* may become idle, and csm-systemd.c, which holds a lock of logind as     *)
(* long as somebody inhibits suspending (csm-consolekit.c does the same    *)
(* with ConsoleKit).                                                       *)
(*                                                                         *)
(* Around them are the applications that inhibit, give up and vanish, the  *)
(* user, the idle monitor, the screensaver with its messages, which come   *)
(* late but in order, and logind, which answers some time later or not at  *)
(* all.                                                                    *)
(***************************************************************************)
EXTENDS Presence, Sequences, FiniteSets

CONSTANTS
    Cookies,        \* bound: the cookies of inhibitors
    Names,          \* connections that inhibit
    Flags,          \* the sets of flags they ask for
    MaxLocks,       \* bound: locks held and asked for at logind
    MaxMessages     \* bound: messages of the screensaver on their way

ASSUME InhibitionAssumption ==
    /\ Flags \subseteq (SUBSET {"suspend", "idle"}) \ {{}}
    /\ MaxLocks \in Nat \ {0}
    /\ MaxMessages \in Nat \ {0}

VARIABLES
    inhibitors,     \* the store: from cookies to who inhibits what
    inhibited,      \* inhibited_actions
    p,              \* CsmPresence
    systemd,        \* CsmSystemdPrivate
    logind,         \* calls of Inhibit not answered, and locks held for us
    saver,          \* the screensaver
    messages,       \* from the screensaver and the bus to the presence
    user,           \* whether the user is away
    history         \* for the properties

vars == <<inhibitors, inhibited, p, systemd, logind, saver, messages,
          user, history>>
world == <<saver, messages, user>>

-----------------------------------------------------------------------------
(* Types.                                                                  *)

Inhibitor == [name : Names, flags : Flags]
NoInhibitor == [name |-> "none", flags |-> {}]

Message == {"active", "inactive", "came", "left", "reply active", "reply inactive"}

TypeOK ==
    /\ inhibitors \in [Cookies -> Inhibitor \cup {NoInhibitor}]
    /\ inhibited \in SUBSET {"suspend", "idle"}
    /\ p \in PresenceState
    /\ systemd \in [inhibitors : SUBSET Cookies, fd : BOOLEAN]
    /\ logind \in [calls : 0 .. MaxLocks, held : 0 .. MaxLocks]
    /\ logind.calls + logind.held <= MaxLocks
    /\ saver \in [owner : BOOLEAN, active : BOOLEAN, asked : BOOLEAN]
    /\ messages \in Seq(Message) /\ Len(messages) <= MaxMessages
    /\ user \in {"here", "away"}
    /\ history \in [ status : Statuses, byClient : BOOLEAN,
                     refused : BOOLEAN, missed : BOOLEAN ]

Held(i, f) == {c \in Cookies : f \in i[c].flags}
AllFlags(i) == UNION {i[c].flags : c \in Cookies}

-----------------------------------------------------------------------------
(* logind's lock.                                                          *)

\* The lock, if there is one, goes with the descriptor that is known.
drop_system_inhibitor(s, l) ==
    [ s |-> [s EXCEPT !.fd = FALSE],
      l |-> IF s.fd THEN [l EXCEPT !.held = @ - 1] ELSE l ]

csm_systemd_add_inhibitor(s, l, c, flags) ==
    IF "suspend" \notin flags THEN [s |-> s, l |-> l]
    ELSE [ s |-> [s EXCEPT !.inhibitors = @ \cup {c}],
           l |-> IF s.inhibitors = {} THEN [l EXCEPT !.calls = @ + 1] ELSE l ]

csm_systemd_remove_inhibitors(s, l, cs) ==
    LET t == [s EXCEPT !.inhibitors = @ \ cs]
    IN  IF s.inhibitors # {} /\ t.inhibitors = {}
          THEN drop_system_inhibitor(t, l) ELSE [s |-> t, l |-> l]

\* Mutant: the lock that was asked for last is dropped at once.
inhibit_done_dropped(s, l, granted) ==
    LET got == [ s |-> [s EXCEPT !.fd = granted],
                 l |-> [l EXCEPT !.calls = @ - 1,
                                 !.held = IF granted THEN @ + 1 ELSE @] ]
    IN  drop_system_inhibitor(got.s, got.l)

\* The descriptor of an earlier answer is overwritten, not closed.
inhibit_done(s, l, granted) ==
    LET got == [ s |-> [s EXCEPT !.fd = @ \/ granted],
                 l |-> [l EXCEPT !.calls = @ - 1,
                                 !.held = IF granted THEN @ + 1 ELSE @] ]
    IN  IF s.inhibitors = {} THEN drop_system_inhibitor(got.s, got.l) ELSE got

LogindAnswers ==
    /\ logind.calls > 0
    /\ \E granted \in BOOLEAN :
         /\ LET r == inhibit_done(systemd, logind, granted)
            IN  systemd' = r.s /\ logind' = r.l
         /\ history' = [history EXCEPT !.refused = ~granted]
    /\ UNCHANGED <<inhibitors, inhibited, p, world>>

-----------------------------------------------------------------------------
(* Inhibitors.                                                             *)

update_idle(q, i) == csm_presence_set_idle_enabled(q, Held(i, "idle") = {})

Inhibit(c) ==
    /\ inhibitors[c] = NoInhibitor
    /\ logind.calls + logind.held < MaxLocks        \* bound
    /\ \E n \in Names, f \in Flags :
         LET r == csm_systemd_add_inhibitor(systemd, logind, c, f)
         IN  /\ inhibitors' = [inhibitors EXCEPT ![c] = [name |-> n, flags |-> f]]
             /\ systemd' = r.s /\ logind' = r.l
             /\ inhibited' = inhibited \cup f
             /\ p' = update_idle(p, inhibitors')
    /\ UNCHANGED <<world, history>>

inhibited_after(i, cs, old) == AllFlags(i)

\* The objects leave the store first; then each is taken from logind's list,
\* and the flags of those that are left are collected.
Removed(cs) ==
    LET r == csm_systemd_remove_inhibitors(systemd, logind, cs)
    IN  /\ inhibitors' = [c \in Cookies |->
                            IF c \in cs THEN NoInhibitor ELSE inhibitors[c]]
        /\ systemd' = r.s /\ logind' = r.l
        /\ inhibited' = inhibited_after(inhibitors', cs, inhibited)
        /\ p' = update_idle(p, inhibitors')
        /\ history' = [history EXCEPT !.refused = @ /\ r.s.inhibitors # {}]

Uninhibit(c) ==
    /\ inhibitors[c] # NoInhibitor
    /\ Removed({c})
    /\ UNCHANGED world

\* A connection goes with all its inhibitors, or none.
NameVanishes(n) ==
    LET cs == {c \in Cookies : inhibitors[c].name = n}
    IN  /\ cs # {} /\ Removed(cs)
        /\ UNCHANGED world

-----------------------------------------------------------------------------
(* Presence.                                                               *)

\* history keeps the status before the session became idle, and whether it
\* was a client that made it so.
Presence(q) ==
    /\ p' = q
    /\ history' = [ history EXCEPT
           !.status = IF q.status = "idle" THEN @ ELSE q.status,
           !.byClient = @ /\ q.status = "idle" ]
    /\ UNCHANGED <<inhibitors, inhibited, systemd, logind>>

SetStatus ==
    /\ \E s \in Statuses :
         /\ p' = [p EXCEPT !.status = s]
         /\ history' = [ history EXCEPT
               !.status = IF s = "idle" THEN @ ELSE s,
               !.byClient = s = "idle" /\ (@ \/ p.status # "idle") ]
    /\ UNCHANGED <<inhibitors, inhibited, systemd, logind, world>>

\* The setting idle-delay, which is bound to the presence when it is made.
SetIdleTimeout ==
    /\ \E t \in BOOLEAN : Presence(csm_presence_set_idle_timeout(p, t))
    /\ UNCHANGED world

Room == p.status = "idle" \/ p.active < MaxWatches      \* bound

\* The idle monitor tells that the user has been away long enough, again if
\* the watch is set anew, and every watch for activity that the user is back.
IdleBecameIdle ==
    /\ p.idle /\ user = "away" /\ Room
    /\ Presence(set_session_idle(p, TRUE))
    /\ UNCHANGED world

IdleBecameActive ==
    /\ p.active > 0 /\ user = "here"
    /\ Presence(idle_became_active_cb(p))
    /\ UNCHANGED world

HandleMessage ==
    /\ messages # << >> /\ Room
    /\ LET msg == Head(messages)
       IN  CASE msg \in {"active", "reply active"} ->
                  Presence(screensaver_active_changed(p, TRUE))
             [] msg \in {"inactive", "reply inactive"} ->
                  Presence(screensaver_active_changed(p, FALSE))
             [] msg = "left" -> Presence(screensaver_left(p))
             [] msg = "came" -> Presence(p)
    /\ messages' = Tail(messages)
    /\ saver' = [saver EXCEPT !.asked = @ \/ Head(messages) = "came"]
    /\ UNCHANGED user

\* GetActive was not answered within a second.
GetActiveFails ==
    /\ saver.asked
    /\ saver' = [saver EXCEPT !.asked = FALSE]
    /\ history' = [history EXCEPT !.missed = TRUE]
    /\ UNCHANGED <<inhibitors, inhibited, p, systemd, logind, messages, user>>

-----------------------------------------------------------------------------
(* The user and the screensaver.                                           *)

UserComesOrGoes ==
    /\ user' = IF user = "here" THEN "away" ELSE "here"
    /\ UNCHANGED <<inhibitors, inhibited, p, systemd, logind, saver,
                   messages, history>>

\* What the screensaver says corrects what was missed of it before.
Saver(s, msg) ==
    /\ Len(messages) < MaxMessages
    /\ saver' = s
    /\ messages' = Append(messages, msg)
    /\ history' = [history EXCEPT !.missed = @ /\ msg = "came"]
    /\ UNCHANGED <<inhibitors, inhibited, p, systemd, logind, user>>

ScreensaverChanges ==
    /\ saver.owner
    /\ LET s == [saver EXCEPT !.active = ~@]
       IN  Saver(s, IF s.active THEN "active" ELSE "inactive")

ScreensaverComesOrGoes ==
    IF saver.owner
      THEN Saver([saver EXCEPT !.owner = FALSE, !.active = FALSE, !.asked = FALSE], "left")
      ELSE \E a \in BOOLEAN : Saver([saver EXCEPT !.owner = TRUE, !.active = a], "came")

ScreensaverReplies ==
    /\ saver.asked
    /\ Saver([saver EXCEPT !.asked = FALSE],
             IF saver.active THEN "reply active" ELSE "reply inactive")

-----------------------------------------------------------------------------

\* start_phase for RUNNING has called update_idle.
Init ==
    /\ inhibitors = [c \in Cookies |-> NoInhibitor]
    /\ inhibited = {}
    /\ p = csm_presence_set_idle_enabled(NewPresence, TRUE)
    /\ systemd = [inhibitors |-> {}, fd |-> FALSE]
    /\ logind = [calls |-> 0, held |-> 0]
    /\ saver = [owner |-> FALSE, active |-> FALSE, asked |-> FALSE]
    /\ messages = << >>
    /\ user = "here"
    /\ history = [status |-> "available", byClient |-> FALSE,
                  refused |-> FALSE, missed |-> FALSE]

Next ==
    \/ \E c \in Cookies : Inhibit(c) \/ Uninhibit(c)
    \/ \E n \in Names : NameVanishes(n)
    \/ LogindAnswers
    \/ SetStatus \/ SetIdleTimeout \/ IdleBecameIdle \/ IdleBecameActive
    \/ HandleMessage \/ GetActiveFails
    \/ UserComesOrGoes
    \/ ScreensaverChanges \/ ScreensaverComesOrGoes \/ ScreensaverReplies

Spec == Init /\ [][Next]_vars

\* The idle monitor reports activity.
FairSpec == Spec /\ WF_vars(IdleBecameActive)

-----------------------------------------------------------------------------
(* Properties.                                                             *)

\* The idle monitor never marks the session idle while somebody inhibits it,
\* although the watch was set before.
MonitorRespectsInhibitors ==
    [][ IdleBecameIdle => Held(inhibitors, "idle") = {} ]_vars

\* When logind has answered, and did not refuse, a lock is held as long as
\* somebody inhibits suspending, whatever overlapped before.
LockIsHeld ==
    Held(inhibitors, "suspend") # {} /\ logind.calls = 0 /\ ~history.refused
        => systemd.fd /\ logind.held > 0

\* The status that the user chose comes back after idling: the screensaver
\* and the monitor may both make the session idle, and both end it.
StatusIsRemembered ==
    p.status = "idle" /\ ~history.byClient => p.saved = history.status

\* What the presence believes of the screensaver is true when everything it
\* said has arrived, however it came, went and changed in the meantime.
ScreensaverIsKnown ==
    messages = << >> /\ ~saver.asked /\ ~history.missed
        => p.saver = (saver.owner /\ saver.active)

\* An idle session becomes active when the user is back for good, unless a
\* client had set the status to idle.
IdleEnds ==
    p.status = "idle" /\ ~history.byClient ~> p.status # "idle" \/ user # "here"
=============================================================================
