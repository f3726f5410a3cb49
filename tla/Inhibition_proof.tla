--------------------------- MODULE Inhibition_proof ---------------------------
(***************************************************************************)
(* Proofs about Inhibition: the lock, the status and what is known of the  *)
(* screensaver, for any cookies, connections and sets of flags and any     *)
(* number of locks, messages and watches.                                  *)
(*                                                                         *)
(* The invariant has five parts that touch in few places: a lemma each     *)
(* says that a step keeps it, given the types and the parts before it.     *)
(***************************************************************************)
EXTENDS Inhibition, TLAPS

\* The manager's store, the presence and logind's list agree on who inhibits
\* what, and the idle watch is there only if idling is enabled.
InStep ==
    /\ systemd.inhibitors = Held(inhibitors, "suspend")
    /\ p.enabled = (Held(inhibitors, "idle") = {})
    /\ p.idle => p.enabled

\* A descriptor is that of a lock, and a lock that is needed was asked for.
LockSound ==
    /\ systemd.fd => logind.held > 0
    /\ systemd.inhibitors # {} /\ logind.calls = 0 /\ ~history.refused => systemd.fd

\* The status before idling is the one that comes back.
StatusKept ==
    /\ p.saved # "idle"
    /\ p.status # "idle" => p.status = history.status
    /\ StatusIsRemembered

\* The message msg is true of the screensaver s; the last one on its way is.
Tells(s, msg) ==
    /\ s.active => s.owner
    /\ msg \in {"active", "reply active"} => s.active
    /\ msg \in {"inactive", "reply inactive", "left"} => ~s.active

SaverKnown ==
    /\ saver.active => saver.owner
    /\ messages # << >> => Tells(saver, messages[Len(messages)])
    /\ ScreensaverIsKnown

Inv == TypeOK /\ InStep /\ LockSound /\ StatusKept /\ SaverKnown

Bounds == MaxWatches \in Nat \ {0} /\ MaxLocks \in Nat \ {0} /\ MaxMessages \in Nat \ {0}

LEMMA BoundsHold == Bounds
  BY WatchesAssumption, InhibitionAssumption DEF Bounds

-----------------------------------------------------------------------------
(* The functions of the presence.                                          *)

\* Everything of the presence but the status, what it was before idling, and
\* the watches for activity.
SameButStatus(q, r) ==
    /\ r.enabled = q.enabled /\ r.timeout = q.timeout
    /\ r.idle = q.idle /\ r.saver = q.saver

\* Idling is begun only with room for a watch.
LEMMA BecomesIdle ==
    ASSUME NEW q \in PresenceState, q.status = "idle" \/ q.active < MaxWatches
    PROVE  LET r == set_session_idle(q, TRUE)
           IN  /\ r \in PresenceState /\ SameButStatus(q, r)
               /\ r.status = "idle"
               /\ r.saved = IF q.status = "idle" THEN q.saved ELSE q.status
  <1>1. q.active + 1 \in 0 .. MaxWatches \/ q.status = "idle"
    BY BoundsHold DEF PresenceState, Bounds
  <1> QED
    BY <1>1 DEF set_session_idle, become_idle, PresenceState, Statuses, SameButStatus

LEMMA BecomesActive ==
    ASSUME NEW q \in PresenceState
    PROVE  LET r == set_session_idle(q, FALSE)
           IN  /\ r \in PresenceState /\ SameButStatus(q, r)
               /\ r.status = IF q.status = "idle" THEN q.saved ELSE q.status
               /\ r.saved = IF q.status = "idle" THEN "available" ELSE q.saved
  BY DEF set_session_idle, become_active, PresenceState, Statuses, SameButStatus

\* Enabling and the timeout set the idle watch anew; the status stays.
LEMMA WatchSet ==
    ASSUME NEW q \in PresenceState, NEW b \in BOOLEAN, q.idle => q.enabled
    PROVE  /\ LET r == csm_presence_set_idle_enabled(q, b)
              IN  /\ r \in PresenceState
                  /\ r.enabled = b /\ (r.idle => r.enabled)
                  /\ r.status = q.status /\ r.saved = q.saved /\ r.saver = q.saver
           /\ LET r == csm_presence_set_idle_timeout(q, b)
              IN  /\ r \in PresenceState
                  /\ r.enabled = q.enabled /\ (r.idle => r.enabled)
                  /\ r.status = q.status /\ r.saved = q.saved /\ r.saver = q.saver
  BY DEF csm_presence_set_idle_enabled, csm_presence_set_idle_timeout, reset_idle_watch,
         PresenceState

-----------------------------------------------------------------------------
(* The handlers.                                                           *)

\* What the properties need to know of a change of the presence.
Fits(q) ==
    /\ q \in PresenceState
    /\ q.enabled = p.enabled
    /\ q.idle => q.enabled
    /\ q.saved # "idle"
    /\ q.status = "idle" =>
          q.saved = IF p.status = "idle" THEN p.saved ELSE p.status

\* The handlers of the presence keep the status that was there before.
LEMMA PresenceKept ==
    ASSUME TypeOK, InStep, LockSound, StatusKept, NEW q, Fits(q), Presence(q)
    PROVE  /\ p' \in PresenceState
           /\ history' \in [ status : Statuses, byClient : BOOLEAN,
                             refused : BOOLEAN, missed : BOOLEAN ]
           /\ history'.missed = history.missed
           /\ InStep' /\ LockSound' /\ StatusKept'
  <1>1. p' = q /\ UNCHANGED <<inhibitors, inhibited, systemd, logind>>
    BY DEF Presence
  <1>2. /\ history' \in [ status : Statuses, byClient : BOOLEAN,
                          refused : BOOLEAN, missed : BOOLEAN ]
        /\ history'.missed = history.missed
        /\ history'.refused = history.refused
        /\ history'.status = IF q.status = "idle" THEN history.status ELSE q.status
        /\ history'.byClient => history.byClient
    BY DEF Presence, TypeOK, Fits, PresenceState
  <1>3. InStep' /\ LockSound'
    BY <1>1, <1>2 DEF InStep, LockSound, Fits, Held
  <1>4. ~history'.byClient /\ q.status = "idle" => q.saved = history.status
    <2>1. history'.byClient = (history.byClient /\ q.status = "idle")
      BY DEF Presence, TypeOK
    <2> QED
      BY <2>1 DEF StatusKept, StatusIsRemembered, Fits
  <1>5. StatusKept'
    BY <1>1, <1>2, <1>4 DEF StatusKept, StatusIsRemembered, Fits
  <1> QED
    BY <1>1, <1>2, <1>3, <1>5 DEF Fits

\* Idling is enabled or not as the store says, whatever became of it.
LEMMA IdleUpdated ==
    ASSUME TypeOK, InStep, StatusKept, p' = update_idle(p, inhibitors'),
           history'.status = history.status, history'.byClient = history.byClient
    PROVE  /\ p' \in PresenceState
           /\ p'.enabled = (Held(inhibitors', "idle") = {})
           /\ p'.idle => p'.enabled
           /\ p'.saver = p.saver
           /\ StatusKept'
  <1> DEFINE b == Held(inhibitors', "idle") = {}
  <1>1. p' = csm_presence_set_idle_enabled(p, b) /\ b \in BOOLEAN
    BY DEF update_idle
  <1>2. /\ p' \in PresenceState
        /\ p'.enabled = b /\ (p'.idle => p'.enabled)
        /\ p'.status = p.status /\ p'.saved = p.saved /\ p'.saver = p.saver
    <2>1. p \in PresenceState /\ (p.idle => p.enabled)
      BY DEF TypeOK, InStep
    <2> HIDE DEF b
    <2> DEFINE q == csm_presence_set_idle_enabled(p, b)
    <2>2. /\ q \in PresenceState
          /\ q.enabled = b /\ (q.idle => q.enabled)
          /\ q.status = p.status /\ q.saved = p.saved /\ q.saver = p.saver
      BY <1>1, <2>1, WatchSet
    <2> QED
      BY <1>1, <2>2
  <1> QED
    BY <1>2 DEF StatusKept, StatusIsRemembered

LEMMA InhibitKeeps ==
    ASSUME Inv, NEW c \in Cookies, Inhibit(c)
    PROVE  Inv'
  <1>1. PICK n \in Names, f \in Flags :
          LET r == csm_systemd_add_inhibitor(systemd, logind, c, f)
          IN  /\ inhibitors' = [inhibitors EXCEPT ![c] = [name |-> n, flags |-> f]]
              /\ systemd' = r.s /\ logind' = r.l
              /\ inhibited' = inhibited \cup f
              /\ p' = update_idle(p, inhibitors')
    BY DEF Inhibit
  <1>2. inhibitors[c] = NoInhibitor /\ logind.calls + logind.held < MaxLocks
        /\ UNCHANGED <<saver, messages, user, history>>
    BY DEF Inhibit, world
  <1>3. TypeOK /\ InStep /\ LockSound /\ StatusKept /\ SaverKnown
    BY DEF Inv
  <1>4. f \in SUBSET {"suspend", "idle"} /\ [name |-> n, flags |-> f] \in Inhibitor
    BY InhibitionAssumption DEF Inhibitor
  <1>5. inhibitors' \in [Cookies -> Inhibitor \cup {NoInhibitor}]
    BY <1>1, <1>3, <1>4 DEF TypeOK
  <1>6. inhibited' \in SUBSET {"suspend", "idle"}
    BY <1>1, <1>3, <1>4 DEF TypeOK
  <1>7. p' \in PresenceState /\ p'.enabled = (Held(inhibitors', "idle") = {})
        /\ (p'.idle => p'.enabled) /\ p'.saver = p.saver /\ StatusKept'
    BY <1>1, <1>2, <1>3, IdleUpdated
  <1>8. Held(inhibitors', "suspend") =
            IF "suspend" \in f THEN Held(inhibitors, "suspend") \cup {c}
                               ELSE Held(inhibitors, "suspend")
    BY <1>1, <1>2, <1>3 DEF Held, TypeOK, NoInhibitor
  <1>9. /\ systemd' \in [inhibitors : SUBSET Cookies, fd : BOOLEAN]
        /\ logind' \in [calls : 0 .. MaxLocks, held : 0 .. MaxLocks]
        /\ logind'.calls + logind'.held <= MaxLocks
        /\ logind'.held = logind.held /\ systemd'.fd = systemd.fd
        /\ systemd'.inhibitors = IF "suspend" \in f THEN systemd.inhibitors \cup {c}
                                                    ELSE systemd.inhibitors
        /\ logind'.calls = 0 /\ systemd'.inhibitors # {} =>
              logind.calls = 0 /\ systemd.inhibitors # {}
    <2>1. CASE "suspend" \notin f
      BY <1>1, <1>3, <2>1 DEF csm_systemd_add_inhibitor, TypeOK
    <2>2. CASE "suspend" \in f /\ systemd.inhibitors # {}
      BY <1>1, <1>3, <2>2 DEF csm_systemd_add_inhibitor, TypeOK
    <2>3. CASE "suspend" \in f /\ systemd.inhibitors = {}
      <3>1. logind' = [logind EXCEPT !.calls = @ + 1]
            /\ systemd' = [systemd EXCEPT !.inhibitors = @ \cup {c}]
        BY <1>1, <2>3 DEF csm_systemd_add_inhibitor
      <3>2. /\ logind.calls \in Nat /\ logind.held \in Nat /\ MaxLocks \in Nat
            /\ logind.calls + 1 \in 0 .. MaxLocks
            /\ logind.calls + 1 + logind.held <= MaxLocks
        BY <1>2, <1>3, BoundsHold DEF TypeOK, Bounds
      <3>3. /\ logind' \in [calls : 0 .. MaxLocks, held : 0 .. MaxLocks]
            /\ logind'.calls = logind.calls + 1 /\ logind'.held = logind.held
        BY <3>1, <3>2, <1>3 DEF TypeOK
      <3>4. /\ systemd' \in [inhibitors : SUBSET Cookies, fd : BOOLEAN]
            /\ systemd'.inhibitors = systemd.inhibitors \cup {c}
            /\ systemd'.fd = systemd.fd
        BY <3>1, <1>3 DEF TypeOK
      <3> QED
        BY <3>2, <3>3, <3>4, <2>3
    <2> QED
      BY <2>1, <2>2, <2>3
  <1>10. TypeOK'
    BY <1>2, <1>3, <1>5, <1>6, <1>7, <1>9 DEF TypeOK
  <1>11. InStep'
    BY <1>3, <1>7, <1>8, <1>9 DEF InStep
  <1>12. LockSound'
    BY <1>2, <1>3, <1>9 DEF LockSound
  <1>13. SaverKnown'
    BY <1>2, <1>3, <1>7 DEF SaverKnown, ScreensaverIsKnown, Tells
  <1> QED
    BY <1>7, <1>10, <1>11, <1>12, <1>13 DEF Inv

LEMMA RemovedKeeps ==
    ASSUME Inv, NEW cs \in SUBSET Cookies, Removed(cs), UNCHANGED world
    PROVE  Inv'
  <1> DEFINE r == csm_systemd_remove_inhibitors(systemd, logind, cs)
  <1>1. /\ inhibitors' = [c \in Cookies |-> IF c \in cs THEN NoInhibitor ELSE inhibitors[c]]
        /\ systemd' = r.s /\ logind' = r.l
        /\ inhibited' = AllFlags(inhibitors')
        /\ p' = update_idle(p, inhibitors')
        /\ history' = [history EXCEPT !.refused = @ /\ r.s.inhibitors # {}]
        /\ UNCHANGED <<saver, messages, user>>
    BY DEF Removed, inhibited_after, world
  <1>2. TypeOK /\ InStep /\ LockSound /\ StatusKept /\ SaverKnown
    BY DEF Inv
  <1>3. inhibitors' \in [Cookies -> Inhibitor \cup {NoInhibitor}]
    BY <1>1, <1>2 DEF TypeOK
  <1>4. inhibited' \in SUBSET {"suspend", "idle"}
    <2>1. \A c \in Cookies : inhibitors'[c].flags \in SUBSET {"suspend", "idle"}
      BY <1>3, InhibitionAssumption DEF Inhibitor, NoInhibitor
    <2> QED
      BY <1>1, <2>1 DEF AllFlags
  <1>5. /\ history' \in [ status : Statuses, byClient : BOOLEAN,
                          refused : BOOLEAN, missed : BOOLEAN ]
        /\ history'.status = history.status /\ history'.byClient = history.byClient
        /\ history'.missed = history.missed
        /\ systemd'.inhibitors # {} => history'.refused = history.refused
    <2> HIDE DEF r
    <2> QED
      BY <1>1, <1>2 DEF TypeOK
  <1>6. p' \in PresenceState /\ p'.enabled = (Held(inhibitors', "idle") = {})
        /\ (p'.idle => p'.enabled) /\ p'.saver = p.saver /\ StatusKept'
    BY <1>1, <1>2, <1>5, IdleUpdated
  <1>7. Held(inhibitors', "suspend") = Held(inhibitors, "suspend") \ cs
    BY <1>1 DEF Held, NoInhibitor
  <1>8. /\ systemd' \in [inhibitors : SUBSET Cookies, fd : BOOLEAN]
        /\ logind' \in [calls : 0 .. MaxLocks, held : 0 .. MaxLocks]
        /\ logind'.calls + logind'.held <= MaxLocks
        /\ logind'.calls = logind.calls
        /\ systemd'.fd => logind'.held > 0
        /\ systemd'.inhibitors = systemd.inhibitors \ cs
        /\ systemd'.inhibitors # {} => systemd'.fd = systemd.fd
    <2> DEFINE t == [systemd EXCEPT !.inhibitors = @ \ cs]
    <2>1. CASE systemd.inhibitors # {} /\ t.inhibitors = {}
      <3>1. systemd' = [t EXCEPT !.fd = FALSE]
            /\ logind' = IF t.fd THEN [logind EXCEPT !.held = @ - 1] ELSE logind
        BY <1>1, <2>1 DEF csm_systemd_remove_inhibitors, drop_system_inhibitor
      <3>2. t.fd = systemd.fd /\ t.inhibitors = systemd.inhibitors \ cs
            /\ t \in [inhibitors : SUBSET Cookies, fd : BOOLEAN]
        BY <1>2 DEF TypeOK
      <3>3. t.fd => logind.held > 0
        BY <1>2, <3>2 DEF LockSound
      <3> HIDE DEF t
      <3>4. CASE t.fd
        <4>1. /\ logind.held - 1 \in 0 .. MaxLocks
              /\ logind.calls + (logind.held - 1) <= MaxLocks
          BY <3>3, <3>4, <1>2, BoundsHold DEF TypeOK, Bounds
        <4>2. /\ logind' \in [calls : 0 .. MaxLocks, held : 0 .. MaxLocks]
              /\ logind'.calls = logind.calls /\ logind'.held = logind.held - 1
          BY <3>1, <3>4, <4>1, <1>2 DEF TypeOK
        <4> QED
          BY <3>1, <3>2, <4>1, <4>2, <2>1
      <3>5. CASE ~t.fd
        BY <3>1, <3>2, <3>5, <1>2, <2>1 DEF TypeOK
      <3> QED
        BY <3>4, <3>5
    <2>2. CASE ~(systemd.inhibitors # {} /\ t.inhibitors = {})
      <3>1. systemd' = t /\ logind' = logind
        BY <1>1, <2>2 DEF csm_systemd_remove_inhibitors
      <3> QED
        BY <3>1, <1>2 DEF TypeOK, LockSound
    <2> QED
      BY <2>1, <2>2
  <1>9. TypeOK'
    BY <1>1, <1>2, <1>3, <1>4, <1>5, <1>6, <1>8 DEF TypeOK
  <1>10. InStep'
    BY <1>2, <1>6, <1>7, <1>8 DEF InStep
  <1>11. LockSound'
    BY <1>2, <1>5, <1>8 DEF LockSound
  <1>12. SaverKnown'
    BY <1>1, <1>2, <1>5, <1>6 DEF SaverKnown, ScreensaverIsKnown, Tells
  <1> QED
    BY <1>6, <1>9, <1>10, <1>11, <1>12 DEF Inv

LEMMA LogindAnswersKeeps ==
    ASSUME Inv, LogindAnswers
    PROVE  Inv'
  <1>1. PICK granted \in BOOLEAN :
          /\ systemd' = inhibit_done(systemd, logind, granted).s
          /\ logind' = inhibit_done(systemd, logind, granted).l
          /\ history' = [history EXCEPT !.refused = ~granted]
    BY DEF LogindAnswers
  <1>2. logind.calls > 0 /\ UNCHANGED <<inhibitors, inhibited, p, saver, messages, user>>
    BY DEF LogindAnswers, world
  <1>3. TypeOK /\ InStep /\ LockSound /\ StatusKept /\ SaverKnown
    BY DEF Inv
  <1>4. /\ history' \in [ status : Statuses, byClient : BOOLEAN,
                          refused : BOOLEAN, missed : BOOLEAN ]
        /\ history'.status = history.status /\ history'.byClient = history.byClient
        /\ history'.missed = history.missed /\ history'.refused = ~granted
    BY <1>1, <1>3 DEF TypeOK
  <1> DEFINE held == IF granted THEN logind.held + 1 ELSE logind.held
             s == [systemd EXCEPT !.fd = @ \/ granted]
             l == [logind EXCEPT !.calls = @ - 1, !.held = held]
  <1>5. /\ held \in 0 .. MaxLocks /\ logind.calls - 1 \in 0 .. MaxLocks
        /\ (logind.calls - 1) + held <= MaxLocks
        /\ granted => held > 0
        /\ held >= logind.held
        /\ held > 0 => held - 1 \in 0 .. MaxLocks
    BY <1>2, <1>3, BoundsHold DEF TypeOK, Bounds
  <1>6. /\ s \in [inhibitors : SUBSET Cookies, fd : BOOLEAN]
        /\ s.inhibitors = systemd.inhibitors /\ s.fd = (systemd.fd \/ granted)
    BY <1>3 DEF TypeOK
  <1>7. /\ l \in [calls : 0 .. MaxLocks, held : 0 .. MaxLocks]
        /\ l.calls = logind.calls - 1 /\ l.held = held
    <2> HIDE DEF held
    <2> QED
      BY <1>3, <1>5 DEF TypeOK
  <1>8. s.fd => held > 0
    <2>1. systemd.fd => logind.held > 0
      BY <1>3 DEF LockSound
    <2>2. logind.held \in Nat /\ held \in Nat
      BY <1>3, <1>5, BoundsHold DEF TypeOK, Bounds
    <2> HIDE DEF held, s
    <2> QED
      BY <1>5, <1>6, <2>1, <2>2
  <1>9. IF systemd.inhibitors = {}
          THEN /\ systemd' = [s EXCEPT !.fd = FALSE]
               /\ logind' = IF s.fd THEN [l EXCEPT !.held = @ - 1] ELSE l
          ELSE systemd' = s /\ logind' = l
    BY <1>1 DEF inhibit_done, drop_system_inhibitor
  <1> HIDE DEF held, s, l
  <1>10. /\ systemd' \in [inhibitors : SUBSET Cookies, fd : BOOLEAN]
         /\ systemd'.inhibitors = systemd.inhibitors
         /\ systemd.inhibitors # {} => systemd'.fd = s.fd
         /\ systemd.inhibitors = {} => ~systemd'.fd
    BY <1>6, <1>9
  <1>11. /\ logind' \in [calls : 0 .. MaxLocks, held : 0 .. MaxLocks]
         /\ logind'.calls + logind'.held <= MaxLocks
         /\ systemd.inhibitors # {} => logind'.held = held
    <2>1. CASE logind' = l
      BY <1>5, <1>7, <2>1
    <2>2. CASE s.fd /\ systemd.inhibitors = {} /\ logind' = [l EXCEPT !.held = @ - 1]
      <3>1. logind' = [l EXCEPT !.held = held - 1]
        BY <1>7, <2>2
      <3>2. /\ logind' \in [calls : 0 .. MaxLocks, held : 0 .. MaxLocks]
            /\ logind'.calls = logind.calls - 1 /\ logind'.held = held - 1
        BY <1>5, <1>7, <1>8, <2>2, <3>1
      <3>3. (logind.calls - 1) + (held - 1) <= MaxLocks
        BY <1>3, <1>5, BoundsHold DEF TypeOK, Bounds
      <3> QED
        BY <2>2, <3>2, <3>3
    <2> QED
      BY <1>9, <2>1, <2>2
  <1>12. TypeOK'
    BY <1>2, <1>3, <1>4, <1>10, <1>11 DEF TypeOK
  <1>13. InStep'
    BY <1>2, <1>3, <1>10 DEF InStep, Held
  <1>14. LockSound'
    BY <1>4, <1>6, <1>8, <1>10, <1>11 DEF LockSound
  <1>15. StatusKept' /\ SaverKnown'
    BY <1>2, <1>3, <1>4 DEF StatusKept, StatusIsRemembered, SaverKnown,
                            ScreensaverIsKnown, Tells
  <1> QED
    BY <1>12, <1>13, <1>14, <1>15 DEF Inv

-----------------------------------------------------------------------------
(* The presence and the screensaver.                                       *)

\* A change of the presence that is about neither screensaver nor messages.
LEMMA PresenceOnly ==
    ASSUME Inv, NEW q, Fits(q), q.saver = p.saver, Presence(q), UNCHANGED world
    PROVE  Inv'
  <1>1. TypeOK /\ InStep /\ LockSound /\ StatusKept /\ SaverKnown
    BY DEF Inv
  <1>2. /\ p' = q /\ p' \in PresenceState
        /\ UNCHANGED <<inhibitors, inhibited, systemd, logind, saver, messages, user>>
        /\ history' \in [ status : Statuses, byClient : BOOLEAN,
                          refused : BOOLEAN, missed : BOOLEAN ]
        /\ history'.missed = history.missed
        /\ InStep' /\ LockSound' /\ StatusKept'
    BY <1>1, PresenceKept DEF Presence, world
  <1>3. TypeOK'
    BY <1>1, <1>2 DEF TypeOK
  <1>4. SaverKnown'
    BY <1>1, <1>2 DEF SaverKnown, ScreensaverIsKnown, Tells
  <1> QED
    BY <1>2, <1>3, <1>4 DEF Inv

LEMMA SetStatusKeeps ==
    ASSUME Inv, SetStatus
    PROVE  Inv'
  <1>1. PICK s \in Statuses :
          /\ p' = [p EXCEPT !.status = s]
          /\ history' = [ history EXCEPT
                !.status = IF s = "idle" THEN @ ELSE s,
                !.byClient = s = "idle" /\ (@ \/ p.status # "idle") ]
    BY DEF SetStatus
  <1>2. UNCHANGED <<inhibitors, inhibited, systemd, logind, saver, messages, user>>
    BY DEF SetStatus, world
  <1>3. TypeOK /\ InStep /\ LockSound /\ StatusKept /\ SaverKnown
    BY DEF Inv
  <1>4. /\ p' \in PresenceState /\ p'.status = s /\ p'.saved = p.saved
        /\ p'.enabled = p.enabled /\ p'.idle = p.idle /\ p'.saver = p.saver
    BY <1>1, <1>3 DEF TypeOK, PresenceState
  <1>5. /\ history' \in [ status : Statuses, byClient : BOOLEAN,
                          refused : BOOLEAN, missed : BOOLEAN ]
        /\ history'.status = IF s = "idle" THEN history.status ELSE s
        /\ history'.byClient = (s = "idle" /\ (history.byClient \/ p.status # "idle"))
        /\ history'.refused = history.refused /\ history'.missed = history.missed
    BY <1>1, <1>3 DEF TypeOK
  <1>6. TypeOK'
    BY <1>2, <1>3, <1>4, <1>5 DEF TypeOK
  <1>7. InStep' /\ LockSound'
    BY <1>2, <1>3, <1>4, <1>5 DEF InStep, LockSound, Held
  <1>8. StatusKept'
    BY <1>3, <1>4, <1>5 DEF StatusKept, StatusIsRemembered
  <1>9. SaverKnown'
    BY <1>2, <1>3, <1>4, <1>5 DEF SaverKnown, ScreensaverIsKnown, Tells
  <1> QED
    BY <1>6, <1>7, <1>8, <1>9 DEF Inv

LEMMA SetIdleTimeoutKeeps ==
    ASSUME Inv, SetIdleTimeout
    PROVE  Inv'
  <1>1. PICK t \in BOOLEAN : Presence(csm_presence_set_idle_timeout(p, t))
    BY DEF SetIdleTimeout
  <1> DEFINE q == csm_presence_set_idle_timeout(p, t)
  <1>2. p \in PresenceState /\ (p.idle => p.enabled) /\ p.saved # "idle"
    BY DEF Inv, TypeOK, InStep, StatusKept
  <1>3. /\ q \in PresenceState /\ q.enabled = p.enabled /\ (q.idle => q.enabled)
        /\ q.status = p.status /\ q.saved = p.saved /\ q.saver = p.saver
    BY <1>2, WatchSet
  <1> HIDE DEF q
  <1>4. Fits(q)
    BY <1>2, <1>3 DEF Fits
  <1> QED
    BY <1>1, <1>3, <1>4, PresenceOnly DEF SetIdleTimeout, q

LEMMA IdleBecameIdleKeeps ==
    ASSUME Inv, IdleBecameIdle
    PROVE  Inv'
  <1> DEFINE q == set_session_idle(p, TRUE)
  <1>1. Presence(q) /\ UNCHANGED world /\ Room
    BY DEF IdleBecameIdle
  <1>2. p \in PresenceState /\ (p.idle => p.enabled) /\ p.saved # "idle"
    BY DEF Inv, TypeOK, InStep, StatusKept
  <1>3. /\ q \in PresenceState /\ SameButStatus(p, q) /\ q.status = "idle"
        /\ q.saved = IF p.status = "idle" THEN p.saved ELSE p.status
    BY <1>1, <1>2, BecomesIdle DEF Room
  <1> HIDE DEF q
  <1>4. Fits(q)
    BY <1>2, <1>3 DEF Fits, SameButStatus
  <1> QED
    BY <1>1, <1>3, <1>4, PresenceOnly DEF SameButStatus

LEMMA IdleBecameActiveKeeps ==
    ASSUME Inv, IdleBecameActive
    PROVE  Inv'
  <1> DEFINE o == [p EXCEPT !.active = @ - 1]
             q == set_session_idle(o, FALSE)
  <1>1. Presence(q) /\ UNCHANGED world /\ p.active > 0
    BY DEF IdleBecameActive, idle_became_active_cb
  <1>2. p \in PresenceState /\ (p.idle => p.enabled) /\ p.saved # "idle"
    BY DEF Inv, TypeOK, InStep, StatusKept
  <1>3. o \in PresenceState /\ o.status = p.status /\ o.saved = p.saved
        /\ SameButStatus(p, o)
    <2>1. p.active - 1 \in 0 .. MaxWatches
      BY <1>1, <1>2, BoundsHold DEF PresenceState, Bounds
    <2> QED
      BY <1>2, <2>1 DEF PresenceState, SameButStatus
  <1> HIDE DEF o
  <1>4. /\ q \in PresenceState /\ SameButStatus(o, q)
        /\ q.status = IF o.status = "idle" THEN o.saved ELSE o.status
        /\ q.saved = IF o.status = "idle" THEN "available" ELSE o.saved
    BY <1>3, BecomesActive
  <1> HIDE DEF q
  <1>5. Fits(q)
    BY <1>2, <1>3, <1>4 DEF Fits, SameButStatus
  <1> QED
    BY <1>1, <1>3, <1>4, <1>5, PresenceOnly DEF SameButStatus

\* What the presence makes of a message of the screensaver.
Heard(msg) ==
    CASE msg \in {"active", "reply active"}     -> screensaver_active_changed(p, TRUE)
      [] msg \in {"inactive", "reply inactive"} -> screensaver_active_changed(p, FALSE)
      [] msg = "left"                           -> screensaver_left(p)
      [] msg = "came"                           -> p

Means(msg) ==
    CASE msg \in {"active", "reply active"}             -> TRUE
      [] msg \in {"inactive", "reply inactive", "left"} -> FALSE
      [] msg = "came"                                   -> p.saver

LEMMA MessageHeard ==
    ASSUME Inv, Room, NEW msg \in Message
    PROVE  Fits(Heard(msg)) /\ Heard(msg).saver = Means(msg)
  <1>1. p \in PresenceState /\ (p.idle => p.enabled) /\ p.saved # "idle"
    BY DEF Inv, TypeOK, InStep, StatusKept
  <1>2. ASSUME NEW b \in BOOLEAN
        PROVE  LET o == [p EXCEPT !.saver = b]
                   r == set_session_idle(o, b)
               IN  Fits(r) /\ r.saver = b
    <2> DEFINE o == [p EXCEPT !.saver = b]
               r == set_session_idle(o, b)
    <2>1. /\ o \in PresenceState /\ o.status = p.status /\ o.saved = p.saved
          /\ o.active = p.active /\ o.enabled = p.enabled /\ o.idle = p.idle
          /\ o.saver = b
      BY <1>1 DEF PresenceState
    <2> HIDE DEF o
    <2>2. CASE b = TRUE
      <3>1. /\ r \in PresenceState /\ SameButStatus(o, r) /\ r.status = "idle"
            /\ r.saved = IF o.status = "idle" THEN o.saved ELSE o.status
        BY <2>1, <2>2, BecomesIdle DEF Room
      <3> HIDE DEF r
      <3> QED
        BY <1>1, <2>1, <3>1 DEF Fits, SameButStatus, o, r
    <2>3. CASE b = FALSE
      <3>1. /\ r \in PresenceState /\ SameButStatus(o, r)
            /\ r.status = IF o.status = "idle" THEN o.saved ELSE o.status
            /\ r.saved = IF o.status = "idle" THEN "available" ELSE o.saved
        BY <2>1, <2>3, BecomesActive
      <3> HIDE DEF r
      <3> QED
        BY <1>1, <2>1, <3>1 DEF Fits, SameButStatus, o, r
    <2> QED
      BY <2>2, <2>3
  <1>3. Fits(p)
    BY <1>1 DEF Fits
  <1>4. ASSUME NEW b \in BOOLEAN
        PROVE  LET r == screensaver_active_changed(p, b) IN Fits(r) /\ r.saver = b
    BY <1>2, <1>3, <1>4 DEF screensaver_active_changed
  <1>5. Fits(screensaver_left(p)) /\ screensaver_left(p).saver = FALSE
    BY <1>2 DEF screensaver_left
  <1>6. CASE msg \in {"active", "reply active"}
    BY <1>4, <1>6 DEF Heard, Means
  <1>7. CASE msg \in {"inactive", "reply inactive"}
    BY <1>4, <1>7 DEF Heard, Means
  <1>8. CASE msg = "left"
    BY <1>5, <1>8 DEF Heard, Means
  <1>9. CASE msg = "came"
    BY <1>3, <1>9 DEF Heard, Means
  <1> QED
    BY <1>6, <1>7, <1>8, <1>9 DEF Message

LEMMA HandleMessageKeeps ==
    ASSUME Inv, HandleMessage
    PROVE  Inv'
  <1> DEFINE msg == Head(messages)
             q == Heard(msg)
  <1>1. /\ TypeOK /\ InStep /\ LockSound /\ StatusKept /\ SaverKnown
        /\ messages # << >> /\ messages \in Seq(Message) /\ Len(messages) <= MaxMessages
    BY DEF Inv, TypeOK, HandleMessage
  <1>2. /\ msg \in Message
        /\ messages' = Tail(messages) /\ messages' \in Seq(Message)
        /\ Len(messages') = Len(messages) - 1 /\ Len(messages) \in Nat \ {0}
        /\ messages' # << >> => messages'[Len(messages')] = messages[Len(messages)]
        /\ messages' = << >> => msg = messages[Len(messages)]
    <2>1. messages' = Tail(messages)
      BY DEF HandleMessage
    <2>2. messages' \in Seq(Message) /\ Len(messages') = Len(messages) - 1
      BY <1>1, <2>1
    <2>3. Len(messages) \in Nat \ {0} /\ msg = messages[1] /\ msg \in Message
      BY <1>1
    <2>4. \A i \in 1 .. Len(messages') : messages'[i] = messages[i + 1]
      BY <1>1, <2>1
    <2>5. ASSUME messages' # << >>
          PROVE  messages'[Len(messages')] = messages[Len(messages)]
      <3>1. Len(messages') \in 1 .. Len(messages') /\ Len(messages') + 1 = Len(messages)
        BY <2>2, <2>3, <2>5
      <3> QED
        BY <2>4, <3>1
    <2>6. ASSUME messages' = << >>
          PROVE  msg = messages[Len(messages)]
      <3>1. Len(messages') = 0
        BY <2>6
      <3>2. Len(messages) = 1
        BY <2>2, <2>3, <3>1
      <3> QED
        BY <2>3, <3>2
    <2> QED
      BY <2>1, <2>2, <2>3, <2>5, <2>6
  <1>3. Presence(q)
    BY <1>2 DEF HandleMessage, Heard, Message
  <1>4. Room /\ UNCHANGED user
    BY DEF HandleMessage
  <1>5. /\ saver' \in [owner : BOOLEAN, active : BOOLEAN, asked : BOOLEAN]
        /\ saver'.owner = saver.owner /\ saver'.active = saver.active
        /\ saver'.asked = (saver.asked \/ msg = "came")
    BY <1>1 DEF HandleMessage, TypeOK
  <1> HIDE DEF msg
  <1>6. Fits(q) /\ q.saver = Means(msg)
    BY <1>2, <1>4, MessageHeard
  <1> HIDE DEF q
  <1>7. /\ p' = q /\ p' \in PresenceState
        /\ UNCHANGED <<inhibitors, inhibited, systemd, logind>>
        /\ history' \in [ status : Statuses, byClient : BOOLEAN,
                          refused : BOOLEAN, missed : BOOLEAN ]
        /\ history'.missed = history.missed
        /\ InStep' /\ LockSound' /\ StatusKept'
    BY <1>1, <1>3, <1>6, PresenceKept DEF Presence
  <1>8. Len(messages') <= MaxMessages
    BY <1>1, <1>2, BoundsHold DEF Bounds
  <1>9. TypeOK'
    BY <1>1, <1>2, <1>4, <1>5, <1>7, <1>8 DEF TypeOK
  <1>10. SaverKnown'
    <2>1. saver'.active => saver'.owner
      BY <1>1, <1>5 DEF SaverKnown
    <2>2. Tells(saver, messages[Len(messages)])
      BY <1>1 DEF SaverKnown
    <2>3. (messages # << >> => Tells(saver, messages[Len(messages)]))'
      BY <1>2, <1>5, <2>2 DEF Tells
    <2>4. ScreensaverIsKnown'
      <3>1. SUFFICES ASSUME messages' = << >>, ~saver'.asked
                     PROVE  p'.saver = (saver'.owner /\ saver'.active)
        BY DEF ScreensaverIsKnown
      <3>2. msg # "came" /\ Tells(saver, msg)
        BY <1>2, <1>5, <2>2, <3>1
      <3>3. Means(msg) = (saver.owner /\ saver.active)
        BY <1>1, <1>2, <3>2 DEF Tells, Means, Message, SaverKnown, TypeOK
      <3> QED
        BY <1>5, <1>6, <1>7, <3>3
    <2> QED
      BY <2>1, <2>3, <2>4 DEF SaverKnown
  <1> QED
    BY <1>7, <1>9, <1>10 DEF Inv

LEMMA GetActiveFailsKeeps ==
    ASSUME Inv, GetActiveFails
    PROVE  Inv'
  <1>1. /\ UNCHANGED <<inhibitors, inhibited, p, systemd, logind, messages, user>>
        /\ history' = [history EXCEPT !.missed = TRUE]
        /\ saver' = [saver EXCEPT !.asked = FALSE]
    BY DEF GetActiveFails
  <1>2. TypeOK /\ InStep /\ LockSound /\ StatusKept /\ SaverKnown
    BY DEF Inv
  <1>3. /\ history' \in [ status : Statuses, byClient : BOOLEAN,
                          refused : BOOLEAN, missed : BOOLEAN ]
        /\ history'.status = history.status /\ history'.byClient = history.byClient
        /\ history'.refused = history.refused /\ history'.missed
    BY <1>1, <1>2 DEF TypeOK
  <1>4. /\ saver' \in [owner : BOOLEAN, active : BOOLEAN, asked : BOOLEAN]
        /\ saver'.owner = saver.owner /\ saver'.active = saver.active
    BY <1>1, <1>2 DEF TypeOK
  <1>5. TypeOK'
    BY <1>1, <1>2, <1>3, <1>4 DEF TypeOK
  <1>6. InStep' /\ LockSound' /\ StatusKept'
    BY <1>1, <1>2, <1>3 DEF InStep, LockSound, StatusKept, StatusIsRemembered, Held
  <1>7. SaverKnown'
    BY <1>1, <1>2, <1>3, <1>4 DEF SaverKnown, ScreensaverIsKnown, Tells
  <1> QED
    BY <1>5, <1>6, <1>7 DEF Inv

LEMMA Appended ==
    ASSUME NEW S, NEW q \in Seq(S), NEW e \in S
    PROVE  /\ Append(q, e) \in Seq(S) /\ Append(q, e) # << >>
           /\ Len(q) \in Nat /\ Len(Append(q, e)) = Len(q) + 1
           /\ Append(q, e)[Len(Append(q, e))] = e
  OBVIOUS

\* A message is true when it is sent.
LEMMA SaverKeeps ==
    ASSUME Inv, NEW s \in [owner : BOOLEAN, active : BOOLEAN, asked : BOOLEAN],
           NEW msg \in Message, Saver(s, msg),
           Tells(s, msg)
    PROVE  Inv'
  <1>1. /\ TypeOK /\ InStep /\ LockSound /\ StatusKept /\ SaverKnown
        /\ messages \in Seq(Message) /\ Len(messages) < MaxMessages
    BY DEF Inv, TypeOK, Saver
  <1>2. /\ UNCHANGED <<inhibitors, inhibited, p, systemd, logind, user>>
        /\ saver' = s /\ messages' = Append(messages, msg)
        /\ history' = [history EXCEPT !.missed = @ /\ msg = "came"]
    BY DEF Saver
  <1>3. /\ messages' \in Seq(Message) /\ messages' # << >>
        /\ Len(messages') <= MaxMessages
        /\ messages'[Len(messages')] = msg
    <2>1. messages \in Seq(Message) /\ messages' = Append(messages, msg)
      BY <1>1, <1>2
    <2>2. /\ messages' \in Seq(Message) /\ messages' # << >>
          /\ Len(messages) \in Nat /\ Len(messages') = Len(messages) + 1
          /\ messages'[Len(messages')] = msg
      BY <2>1, Appended
    <2>3. Len(messages') <= MaxMessages
      BY <1>1, <2>2, BoundsHold DEF Bounds
    <2> QED
      BY <2>2, <2>3
  <1>4. /\ history' \in [ status : Statuses, byClient : BOOLEAN,
                          refused : BOOLEAN, missed : BOOLEAN ]
        /\ history'.status = history.status /\ history'.byClient = history.byClient
        /\ history'.refused = history.refused
    BY <1>1, <1>2 DEF TypeOK
  <1>5. TypeOK'
    BY <1>1, <1>2, <1>3, <1>4 DEF TypeOK
  <1>6. InStep' /\ LockSound' /\ StatusKept'
    BY <1>1, <1>2, <1>4 DEF InStep, LockSound, StatusKept, StatusIsRemembered, Held
  <1>7. SaverKnown'
    BY <1>2, <1>3 DEF SaverKnown, ScreensaverIsKnown, Tells
  <1> QED
    BY <1>5, <1>6, <1>7 DEF Inv

LEMMA ScreensaverKeeps ==
    ASSUME Inv, ScreensaverChanges \/ ScreensaverComesOrGoes \/ ScreensaverReplies
    PROVE  Inv'
  <1>1. /\ saver \in [owner : BOOLEAN, active : BOOLEAN, asked : BOOLEAN]
        /\ saver.active => saver.owner
    BY DEF Inv, TypeOK, SaverKnown
  <1>2. CASE ScreensaverChanges
    <2> DEFINE s == [saver EXCEPT !.active = ~@]
    <2>1. s \in [owner : BOOLEAN, active : BOOLEAN, asked : BOOLEAN] /\ s.owner = saver.owner
      BY <1>1
    <2>2. saver.owner /\ Saver(s, IF s.active THEN "active" ELSE "inactive")
      BY <1>2 DEF ScreensaverChanges
    <2> HIDE DEF s
    <2> QED
      BY <2>1, <2>2, SaverKeeps DEF Tells, Message
  <1>3. CASE ScreensaverComesOrGoes
    <2>1. CASE saver.owner
      <3> DEFINE s == [saver EXCEPT !.owner = FALSE, !.active = FALSE, !.asked = FALSE]
      <3>1. s \in [owner : BOOLEAN, active : BOOLEAN, asked : BOOLEAN] /\ ~s.active
        BY <1>1
      <3>2. Saver(s, "left")
        BY <1>3, <2>1 DEF ScreensaverComesOrGoes
      <3> HIDE DEF s
      <3> QED
        BY <3>1, <3>2, SaverKeeps DEF Tells, Message
    <2>2. CASE ~saver.owner
      <3>1. PICK a \in BOOLEAN : Saver([saver EXCEPT !.owner = TRUE, !.active = a], "came")
        BY <1>3, <2>2 DEF ScreensaverComesOrGoes
      <3> DEFINE s == [saver EXCEPT !.owner = TRUE, !.active = a]
      <3>2. s \in [owner : BOOLEAN, active : BOOLEAN, asked : BOOLEAN] /\ s.owner
        BY <1>1
      <3> HIDE DEF s
      <3> QED
        BY <3>1, <3>2, SaverKeeps DEF Tells, Message, s
    <2> QED
      BY <2>1, <2>2
  <1>4. CASE ScreensaverReplies
    <2> DEFINE s == [saver EXCEPT !.asked = FALSE]
               msg == IF saver.active THEN "reply active" ELSE "reply inactive"
    <2>1. /\ s \in [owner : BOOLEAN, active : BOOLEAN, asked : BOOLEAN]
          /\ s.owner = saver.owner /\ s.active = saver.active
      BY <1>1
    <2>2. Saver(s, msg)
      BY <1>4 DEF ScreensaverReplies
    <2>3. msg \in Message /\ Tells(s, msg)
      BY <1>1, <2>1 DEF Message, Tells
    <2> HIDE DEF s, msg
    <2> QED
      BY <2>1, <2>2, <2>3, SaverKeeps
  <1> QED
    BY <1>2, <1>3, <1>4

-----------------------------------------------------------------------------
(* The theorems.                                                           *)

LEMMA InitInv == Init => Inv
  <1> SUFFICES ASSUME Init PROVE Inv
    OBVIOUS
  <1>1. p = [ status |-> "available", saved |-> "available", enabled |-> TRUE,
              timeout |-> FALSE, idle |-> FALSE, active |-> 0, saver |-> FALSE ]
    BY DEF Init, csm_presence_set_idle_enabled, reset_idle_watch, NewPresence
  <1>2. p \in PresenceState
    <2>1. 0 \in 0 .. MaxWatches
      BY BoundsHold DEF Bounds
    <2> QED
      BY <1>1, <2>1 DEF PresenceState, Statuses
  <1>3. Held(inhibitors, "suspend") = {} /\ Held(inhibitors, "idle") = {}
    BY DEF Init, Held, NoInhibitor
  <1>4. TypeOK
    <2>1. logind \in [calls : 0 .. MaxLocks, held : 0 .. MaxLocks]
          /\ logind.calls + logind.held <= MaxLocks
      BY BoundsHold DEF Init, Bounds
    <2>2. messages \in Seq(Message) /\ Len(messages) <= MaxMessages
      BY BoundsHold DEF Init, Bounds
    <2>3. /\ inhibitors \in [Cookies -> Inhibitor \cup {NoInhibitor}]
          /\ inhibited \in SUBSET {"suspend", "idle"}
          /\ systemd \in [inhibitors : SUBSET Cookies, fd : BOOLEAN]
          /\ saver \in [owner : BOOLEAN, active : BOOLEAN, asked : BOOLEAN]
          /\ user \in {"here", "away"}
      BY DEF Init
    <2>4. history \in [ status : Statuses, byClient : BOOLEAN,
                        refused : BOOLEAN, missed : BOOLEAN ]
      BY DEF Init, Statuses
    <2> QED
      BY <1>2, <2>1, <2>2, <2>3, <2>4 DEF TypeOK
  <1>5. InStep /\ LockSound
    <2>1. systemd.inhibitors = {} /\ ~systemd.fd
      BY DEF Init
    <2>2. p.enabled = TRUE /\ p.idle = FALSE
      BY <1>1
    <2> QED
      BY <1>3, <2>1, <2>2 DEF InStep, LockSound
  <1>6. StatusKept
    <2>1. history.status = "available"
      BY DEF Init
    <2>2. p.status = "available" /\ p.saved = "available"
      BY <1>1
    <2> QED
      BY <2>1, <2>2 DEF StatusKept, StatusIsRemembered
  <1>7. SaverKnown
    <2>1. messages = << >> /\ saver.active = FALSE /\ saver.owner = FALSE
      BY DEF Init
    <2>2. p.saver = FALSE
      BY <1>1
    <2> QED
      BY <2>1, <2>2 DEF SaverKnown, ScreensaverIsKnown
  <1> QED
    BY <1>4, <1>5, <1>6, <1>7 DEF Inv

LEMMA StepInv == Inv /\ [Next]_vars => Inv'
  <1> SUFFICES ASSUME Inv, [Next]_vars PROVE Inv'
    OBVIOUS
  <1> DEFINE others == <<inhibitors, inhibited, p, systemd, logind, saver, messages, history>>
  <1>0. ASSUME UNCHANGED others, user' \in {"here", "away"}
        PROVE  Inv'
    <2>1. TypeOK'
      BY <1>0 DEF Inv, TypeOK
    <2>2. InStep' /\ LockSound' /\ StatusKept'
      BY <1>0 DEF Inv, InStep, LockSound, StatusKept, StatusIsRemembered, Held
    <2>3. SaverKnown'
      BY <1>0 DEF Inv, SaverKnown, ScreensaverIsKnown, Tells
    <2> QED
      BY <2>1, <2>2, <2>3 DEF Inv
  <1>1. ASSUME NEW c \in Cookies, Inhibit(c) PROVE Inv'
    BY <1>1, InhibitKeeps
  <1>2. ASSUME NEW c \in Cookies, Uninhibit(c) PROVE Inv'
    <2>1. {c} \in SUBSET Cookies
      OBVIOUS
    <2> QED
      BY <1>2, <2>1, RemovedKeeps DEF Uninhibit
  <1>3. ASSUME NEW n \in Names, NameVanishes(n) PROVE Inv'
    <2>1. {c \in Cookies : inhibitors[c].name = n} \in SUBSET Cookies
      OBVIOUS
    <2> QED
      BY <1>3, <2>1, RemovedKeeps DEF NameVanishes
  <1>4. CASE LogindAnswers
    BY <1>4, LogindAnswersKeeps
  <1>5. CASE SetStatus
    BY <1>5, SetStatusKeeps
  <1>6. CASE SetIdleTimeout
    BY <1>6, SetIdleTimeoutKeeps
  <1>7. CASE IdleBecameIdle
    BY <1>7, IdleBecameIdleKeeps
  <1>8. CASE IdleBecameActive
    BY <1>8, IdleBecameActiveKeeps
  <1>9. CASE HandleMessage
    BY <1>9, HandleMessageKeeps
  <1>10. CASE GetActiveFails
    BY <1>10, GetActiveFailsKeeps
  <1>11. CASE UserComesOrGoes
    BY <1>0, <1>11 DEF UserComesOrGoes
  <1>12. CASE ScreensaverChanges \/ ScreensaverComesOrGoes \/ ScreensaverReplies
    BY <1>12, ScreensaverKeeps
  <1>13. CASE UNCHANGED vars
    BY <1>0, <1>13 DEF vars, Inv, TypeOK
  <1> QED
    BY <1>1, <1>2, <1>3, <1>4, <1>5, <1>6, <1>7, <1>8, <1>9, <1>10, <1>11, <1>12, <1>13
       DEF Next

\* The inductive invariant: the types, what the store, the presence and
\* logind's list say of each other, and what is owed to each message.
THEOREM InvHolds == Spec => []Inv
  BY InitInv, StepInv, PTL DEF Spec

\* Types, with never more locks, messages and watches than there may be:
\* every lock that is dropped was held.
THEOREM TypeCorrect == Spec => []TypeOK
  <1>1. Inv => TypeOK
    BY DEF Inv
  <1> QED
    BY <1>1, InvHolds, PTL

\* csm-systemd.c: however calls and answers of logind overlap, a lock is held
\* while somebody inhibits suspending and no answer is outstanding or was no.
THEOREM LockIsAlwaysHeld == Spec => []LockIsHeld
  <1>1. Inv => LockIsHeld
    BY DEF Inv, InStep, LockSound, LockIsHeld
  <1> QED
    BY <1>1, InvHolds, PTL

\* csm-presence.c: the status that was there before idling is the saved one,
\* whichever of the monitor and the screensaver began it.
THEOREM StatusIsAlwaysRemembered == Spec => []StatusIsRemembered
  <1>1. Inv => StatusIsRemembered
    BY DEF Inv, StatusKept
  <1> QED
    BY <1>1, InvHolds, PTL

\* csm-presence.c: once every message has arrived the presence knows whether
\* the screensaver is active, unless it did not answer.
THEOREM ScreensaverIsAlwaysKnown == Spec => []ScreensaverIsKnown
  <1>1. Inv => ScreensaverIsKnown
    BY DEF Inv, SaverKnown
  <1> QED
    BY <1>1, InvHolds, PTL

\* No watch that was set before somebody inhibited idling makes the session
\* idle.
THEOREM MonitorAlwaysRespectsInhibitors == Spec => MonitorRespectsInhibitors
  <1>1. Inv /\ [Next]_vars => [IdleBecameIdle => Held(inhibitors, "idle") = {}]_vars
    BY DEF Inv, InStep, IdleBecameIdle
  <1> QED
    BY <1>1, InvHolds, PTL DEF Spec, MonitorRespectsInhibitors

=============================================================================
