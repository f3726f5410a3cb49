------------------------------- MODULE Presence -------------------------------
(***************************************************************************)
(* The presence of the user as csm-presence.c keeps it: the status, which  *)
(* clients set and which is idle while the user is away, the watches on    *)
(* the idle monitor, and what is known of the screensaver.  A function of  *)
(* the code is an operator from the presence p to p; the manager and the   *)
(* world around it are in Inhibition.                                      *)
(***************************************************************************)
EXTENDS Naturals

CONSTANT MaxWatches     \* bound: user-active watches at a time

ASSUME WatchesAssumption == MaxWatches \in Nat \ {0}

\* SetStatus takes any number; those of CsmPresenceStatus that matter here.
Statuses == {"available", "busy", "idle"}

PresenceState ==
    [ status  : Statuses,
      saved   : Statuses,           \* saved_status
      enabled : BOOLEAN,            \* idle_enabled
      timeout : BOOLEAN,            \* idle_timeout is not 0
      idle    : BOOLEAN,            \* idle_watch_id
      active  : 0 .. MaxWatches,    \* user-active watches, each good for once
      saver   : BOOLEAN ]           \* screensaver_active

NewPresence ==
    [ status |-> "available", saved |-> "available", enabled |-> FALSE,
      timeout |-> FALSE, idle |-> FALSE, active |-> 0, saver |-> FALSE ]

\* Mutant: the status is saved also when it is idle already.
become_idle_again(p) ==
    [p EXCEPT !.saved = p.status, !.status = "idle", !.active = @ + 1]

\* Mutant: nobody waits for the user to come back.
become_idle_unwatched(p) ==
    IF p.status = "idle" THEN p
    ELSE [p EXCEPT !.saved = p.status, !.status = "idle"]

become_idle(p) ==
    IF p.status = "idle" THEN p
    ELSE [p EXCEPT !.saved = p.status, !.status = "idle", !.active = @ + 1]

become_active(p) ==
    IF p.status # "idle" THEN p
    ELSE [p EXCEPT !.status = p.saved, !.saved = "available"]

set_session_idle(p, is_idle) ==
    IF is_idle THEN become_idle(p) ELSE become_active(p)

\* Mutant: a watch is added, never removed.
reset_idle_watch_keeps(p) == [p EXCEPT !.idle = @ \/ (p.enabled /\ p.timeout)]

reset_idle_watch(p) == [p EXCEPT !.idle = p.enabled /\ p.timeout]

csm_presence_set_idle_enabled(p, enabled) ==
    IF p.enabled = enabled THEN p
    ELSE reset_idle_watch([p EXCEPT !.enabled = enabled])

csm_presence_set_idle_timeout(p, timeout) ==
    IF p.timeout = timeout THEN p
    ELSE reset_idle_watch([p EXCEPT !.timeout = timeout])

idle_became_active_cb(p) == set_session_idle([p EXCEPT !.active = @ - 1], FALSE)

screensaver_active_changed(p, is_active) ==
    IF p.saver = is_active THEN p
    ELSE set_session_idle([p EXCEPT !.saver = is_active], is_active)

\* Mutant: a screensaver that has gone is still taken to be active.
screensaver_left_unnoticed(p) == set_session_idle(p, FALSE)

screensaver_left(p) == set_session_idle([p EXCEPT !.saver = FALSE], FALSE)
=============================================================================
