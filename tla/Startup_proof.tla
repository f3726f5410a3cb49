---------------------------- MODULE Startup_proof ----------------------------
(***************************************************************************)
(* Proofs about Startup: the types, what the session waits for while it    *)
(* starts, and then what no step of it does, for every set of applications *)
(* and every session made of them.                                         *)
(*                                                                         *)
(* A handler is a composition of operators on st, so every operator has a  *)
(* lemma that says that it leads from a good state to a good one: the      *)
(* types, StartupWaits, and that applications whose phase has not come     *)
(* have no process, no timer and nobody who listens to them.               *)
(***************************************************************************)
EXTENDS Startup, TLAPS

State == [m : Manager, app : [Apps -> AppState]]

Asleep(r) == /\ \A s \in Slots : r.procs[s] = "free"
             /\ r.pid = NoPid /\ ~r.watched /\ ~r.delay /\ ~r.followed
             /\ ~r.recent

Lives(r) == \E s \in Slots : r.procs[s] # "free"

\* An application whose phase has not come is asleep, and nobody asks for
\* the launcher to be restarted before the session runs.
Dormant(st) ==
    /\ \A x \in Apps :
         \/ kind[x].phase <= st.m.phase
         \/ Asleep(st.app[x]) /\ client[x] = NoClient
    /\ st.m.relaunch => st.m.phase > APPLICATION

Waits(st) ==
    \/ st.m.quit
    \/ /\ st.m.phase < APPLICATION /\ st.m.timer /\ st.m.pending # {}
       /\ \A x \in st.m.pending :
            kind[x].phase = st.m.phase /\ st.app[x].followed
    \/ st.m.phase > APPLICATION /\ ~st.m.timer /\ st.m.pending = {}

\* Everybody who is waited for and is not in X is there.
PresentBut(st, X) ==
    \A x \in st.m.pending \ X :
        \/ st.m.quit \/ kind[x].activated \/ kind[x].autorestart
        \/ Lives(st.app[x])

\* A state in the middle of a handler about the application x, which may
\* have lost its process.
GoodBut(st, X) ==
    st \in State /\ Dormant(st) /\ Waits(st) /\ PresentBut(st, X)

Good(st) == GoodBut(st, {})

Settings == kind \in Sessions /\ wayland \in BOOLEAN

-----------------------------------------------------------------------------
(* Applications.                                                           *)

\* The constants of the phases, and what a desktop file is made of.
LEMMA Files ==
    ASSUME Settings, NEW x \in Apps
    PROVE  /\ kind[x] \in DesktopFile
           /\ kind[x].phase \in 1 .. 8
           /\ kind[x].delayed => kind[x].phase = 8
           /\ kind[x].required \in BOOLEAN
           /\ kind[x].autorestart \in BOOLEAN
           /\ kind[x].activated \in BOOLEAN
           /\ kind[x].wm \in BOOLEAN
           /\ kind[x].client \in {"none", "dbus", "xsmp"}
<1>1. kind[x] \in DesktopFile
  BY SessionsAssumption DEF Settings
<1>2. QED
  BY <1>1 DEF DesktopFile, StartupPhases, EARLY_INITIALIZATION, APPLICATION

\* Starting an application gives it a process, or leaves it as it is.
LEMMA StartTyped ==
    ASSUME NEW k \in DesktopFile, NEW r \in AppState
    PROVE  /\ csm_app_start(k, r) \in AppState
           /\ csm_app_start(k, r).followed = r.followed
           /\ Lives(r) => Lives(csm_app_start(k, r))
           /\ k.activated \/ Lives(csm_app_start(k, r))
<1> DEFINE s == CHOOSE f \in Free(r) : TRUE
           t == [r EXCEPT !.pid = s, !.procs[s] = "running"]
<1>1. CASE k.activated \/ Free(r) = {}
  <2>1. csm_app_start(k, r) = r
    BY <1>1 DEF csm_app_start
  <2>2. 1 \in Slots
    BY BoundsAssumption DEF Slots
  <2>3. k.activated \/ Lives(r)
    BY <1>1, <2>2 DEF Free, Lives
  <2>4. QED
    BY <2>1, <2>3
<1>2. CASE ~(k.activated \/ Free(r) = {})
  <2>1. csm_app_start(k, r) = t
    BY <1>2 DEF csm_app_start
  <2>2. s \in Slots
    BY <1>2 DEF Free
  <2> HIDE DEF s
  <2>3. r \in AppFields
    BY DEF AppState
  <2>4. t \in AppFields
    BY <2>2, <2>3 DEF AppFields, ProcStates
  <2>5. t.pid = s /\ t.procs[s] = "running" /\ t.followed = r.followed
    BY <2>2, <2>3 DEF AppFields
  <2>6. QED
    BY <2>1, <2>2, <2>4, <2>5 DEF AppState, Lives
<1>3. QED
  BY <1>1, <1>2

LEMMA StopTyped ==
    ASSUME NEW k \in DesktopFile, NEW r \in AppState
    PROVE  /\ csm_app_stop(k, r) \in AppState
           /\ csm_app_stop(k, r).followed = r.followed
           /\ Lives(r) => Lives(csm_app_stop(k, r))
<1> DEFINE t == [r EXCEPT !.procs[r.pid] = "terminating"]
<1>1. CASE k.activated \/ r.pid = NoPid \/ r.procs[r.pid] # "running"
  BY <1>1 DEF csm_app_stop
<1>2. CASE ~(k.activated \/ r.pid = NoPid \/ r.procs[r.pid] # "running")
  <2>1. csm_app_stop(k, r) = t
    BY <1>2 DEF csm_app_stop
  <2>2. r \in AppFields /\ r.pid \in Slots
    BY <1>2 DEF AppState, AppFields
  <2>3. t \in AppFields /\ t.pid = r.pid /\ t.procs[t.pid] = "terminating"
        /\ t.followed = r.followed
    BY <2>2 DEF AppFields, ProcStates
  <2>4. QED
    BY <2>1, <2>2, <2>3 DEF AppState, Lives
<1>3. QED
  BY <1>1, <1>2

LEMMA RestartTyped ==
    ASSUME NEW k \in DesktopFile, NEW r \in AppState, NEW launches \in BOOLEAN
    PROVE  LET t == csm_app_restart(k, r, launches)
           IN  /\ t \in AppState
               /\ t.followed = r.followed
               /\ restarted(k, r, launches) => k.activated \/ Lives(t)
               /\ Lives(r) => Lives(t)
<1> DEFINE u == [r EXCEPT !.recent = @ \/ ~k.launcher]
<1>1. u \in AppState /\ u.followed = r.followed /\ (Lives(r) => Lives(u))
  <2>1. r \in AppFields /\ k.launcher \in BOOLEAN
    BY DEF AppState, DesktopFile
  <2>2. (r.recent \/ ~k.launcher) \in BOOLEAN
    OBVIOUS
  <2>3. u \in AppFields /\ u.pid = r.pid /\ u.procs = r.procs
        /\ u.followed = r.followed
    BY <2>1, <2>2 DEF AppFields
  <2>4. QED
    BY <2>3 DEF AppState, Lives
<1>2. /\ csm_app_stop(k, u) \in AppState
      /\ csm_app_stop(k, u).followed = r.followed
      /\ Lives(r) => Lives(csm_app_stop(k, u))
  BY <1>1, StopTyped
<1>3. LET v == csm_autostart_app_restart(k, u)
      IN  /\ v \in AppState /\ v.followed = r.followed
          /\ k.activated \/ Lives(v)
          /\ Lives(r) => Lives(v)
  BY <1>2, StartTyped DEF csm_autostart_app_restart
<1> HIDE DEF u
<1>4. csm_app_restart(k, r, launches) =
        IF restart_limit(k, r) THEN r
        ELSE IF launches \/ k.activated THEN csm_autostart_app_restart(k, u)
        ELSE csm_app_stop(k, u)
  BY DEF csm_app_restart, u
<1>5. QED
  BY <1>2, <1>3, <1>4 DEF restarted

LEMMA PeekTyped ==
    ASSUME NEW k \in DesktopFile, NEW r \in AppState
    PROVE  LET t == peek_is_conditionally_disabled(k, r)
           IN  /\ t \in AppState
               /\ t.procs = r.procs /\ t.pid = r.pid /\ t.followed = r.followed
<1> DEFINE t == [r EXCEPT !.condition = r.world]
<1>1. r \in AppFields
  BY DEF AppState
<1>2. t \in AppFields /\ t.procs = r.procs /\ t.pid = r.pid
      /\ t.followed = r.followed
  BY <1>1 DEF AppFields
<1>3. t \in AppState
  BY <1>2 DEF AppState
<1>4. QED
  BY <1>2, <1>3 DEF peek_is_conditionally_disabled

\* The operations of an application that only Startup has.
LEMMA StartAppTyped ==
    ASSUME Settings, NEW x \in Apps, NEW r \in AppState, NEW ok
    PROVE  LET k == kind[x]
               t == _start_app(k, r, x \in ok)
           IN  /\ t \in AppState
               /\ /\ ~conditionally_disabled(k, r)
                  /\ x \in ok \/ k.activated
                  /\ k.phase < APPLICATION
                  => t.followed /\ (k.activated \/ Lives(t))
<1> DEFINE k == kind[x]
           p == peek_is_conditionally_disabled(k, r)
           c == [p EXCEPT !.watched = TRUE]
           d == [c EXCEPT !.delay = TRUE]
           s == csm_app_start(k, c)
           f == [s EXCEPT !.followed = (k.phase < APPLICATION)]
<1>1. k \in DesktopFile /\ k.phase \in 1 .. 8 /\ (k.delayed => k.phase = 8)
  BY Files
<1>2. p \in AppState
  BY <1>1, PeekTyped
<1> HIDE DEF k, p
<1>3. c \in AppState
  <2>1. p \in AppFields
    BY <1>2 DEF AppState
  <2>2. c \in AppFields /\ c.pid = p.pid /\ c.procs = p.procs
    BY <2>1 DEF AppFields
  <2>3. QED
    BY <1>2, <2>2 DEF AppState
<1> HIDE DEF c
<1>4. d \in AppState
  <2>1. c \in AppFields
    BY <1>3 DEF AppState
  <2>2. d \in AppFields /\ d.pid = c.pid /\ d.procs = c.procs
    BY <2>1 DEF AppFields
  <2>3. QED
    BY <1>3, <2>2 DEF AppState
<1>5. s \in AppState /\ (k.activated \/ Lives(s))
  BY <1>1, <1>3, StartTyped
<1> HIDE DEF s
<1>6. f \in AppState /\ f.followed = (k.phase < APPLICATION) /\ f.procs = s.procs
  <2>1. s \in AppFields /\ (k.phase < APPLICATION) \in BOOLEAN
    BY <1>5 DEF AppState
  <2>2. /\ f \in AppFields /\ f.pid = s.pid /\ f.procs = s.procs
        /\ f.followed = (k.phase < APPLICATION)
    BY <2>1 DEF AppFields
  <2>3. QED
    BY <1>5, <2>2 DEF AppState
<1>7. _start_app(k, r, x \in ok) =
        IF conditionally_disabled(k, r) THEN c
        ELSE IF k.delayed THEN d
        ELSE IF ~(x \in ok \/ k.activated) THEN c ELSE f
  BY DEF _start_app, c, p, d, s, f
<1>8. k.activated \/ Lives(f)
  BY <1>5, <1>6 DEF Lives
<1> HIDE DEF d, f
<1>9. _start_app(k, r, x \in ok) \in AppState
  BY <1>3, <1>4, <1>6, <1>7
<1>10. ASSUME ~conditionally_disabled(k, r), x \in ok \/ k.activated,
              k.phase < APPLICATION
       PROVE  /\ _start_app(k, r, x \in ok).followed
              /\ k.activated \/ Lives(_start_app(k, r, x \in ok))
  <2>1. ~k.delayed
    BY <1>1, <1>10 DEF APPLICATION
  <2>2. _start_app(k, r, x \in ok) = f
    BY <1>7, <1>10, <2>1
  <2>3. QED
    BY <1>6, <1>8, <1>10, <2>2
<1>11. QED
  BY <1>9, <1>10 DEF k

LEMMA DelayTyped ==
    ASSUME Settings, NEW x \in Apps, NEW r \in AppState, NEW launched \in BOOLEAN
    PROVE  LET t == _autostart_delay_timeout(kind[x], r, launched)
           IN  /\ t \in AppState /\ t.followed = r.followed
               /\ Lives(r) => Lives(t)
<1> DEFINE k == kind[x]
           p == peek_is_conditionally_disabled(k, r)
           c == [p EXCEPT !.delay = FALSE]
<1>1. k \in DesktopFile
  BY Files
<1>2. p \in AppState /\ p.procs = r.procs /\ p.followed = r.followed
  BY <1>1, PeekTyped
<1> HIDE DEF k, p
<1>3. c \in AppState /\ c.followed = r.followed /\ (Lives(r) => Lives(c))
  <2>1. p \in AppFields
    BY <1>2 DEF AppState
  <2>2. /\ c \in AppFields /\ c.pid = p.pid /\ c.procs = p.procs
        /\ c.followed = p.followed
    BY <2>1 DEF AppFields
  <2>3. QED
    BY <1>2, <2>2 DEF AppState, Lives
<1> HIDE DEF c
<1>4. /\ csm_app_start(k, c) \in AppState
      /\ csm_app_start(k, c).followed = r.followed
      /\ Lives(r) => Lives(csm_app_start(k, c))
  BY <1>1, <1>3, StartTyped
<1>5. _autostart_delay_timeout(k, r, launched) =
        IF conditionally_disabled(k, r) \/ ~(launched \/ k.activated)
          THEN c ELSE csm_app_start(k, c)
  BY DEF _autostart_delay_timeout, c, p
<1>6. QED
  BY <1>3, <1>4, <1>5 DEF k

LEMMA ExitTyped ==
    ASSUME NEW r \in AppState, NEW s \in Slots
    PROVE  app_exited(r, s) \in AppState /\ app_exited(r, s).followed = r.followed
<1> DEFINE t == [r EXCEPT !.procs[s] = "free", !.pid = NoPid]
<1>1. r \in AppFields
  BY DEF AppState
<1>2. t \in AppFields /\ t.pid = NoPid /\ t.followed = r.followed
  BY <1>1 DEF AppFields, ProcStates
<1>3. QED
  BY <1>2 DEF AppState, app_exited

LEMMA ConditionTyped ==
    ASSUME NEW k \in DesktopFile, NEW r \in AppState, r.events # << >>
    PROVE  LET t == condition_cb(k, r)
           IN  /\ t \in AppState
               /\ t.procs = r.procs /\ t.pid = r.pid /\ t.followed = r.followed
               /\ t.watched = r.watched /\ t.delay = r.delay
               /\ t.recent = r.recent
<1> DEFINE t == [r EXCEPT !.events = Tail(@), !.condition = announced(k, r)]
<1>1. r \in AppFields
  BY DEF AppState
<1>2. Tail(r.events) \in Seq(BOOLEAN) /\ Head(r.events) \in BOOLEAN
  BY <1>1 DEF AppFields
<1>3. announced(k, r) \in BOOLEAN
  BY <1>1, <1>2 DEF announced, AppFields
<1> HIDE DEF announced
<1>4. /\ t \in AppFields
      /\ t.procs = r.procs /\ t.pid = r.pid /\ t.followed = r.followed
      /\ t.watched = r.watched /\ t.delay = r.delay /\ t.recent = r.recent
  BY <1>1, <1>2, <1>3 DEF AppFields
<1>5. t \in AppState
  BY <1>4 DEF AppState
<1>6. QED
  BY <1>4, <1>5 DEF condition_cb

-----------------------------------------------------------------------------
(* The phases.                                                             *)

\* A set of phases has a first one.
LEMMA FirstPhase ==
    ASSUME NEW p \in 1 .. 8, NEW W \in SUBSET (p .. 8), W # {}
    PROVE  LET q == CHOOSE w \in W : \A r \in W : w <= r
           IN  q \in W /\ \A r \in W : q <= r
<1>1. \A w \in W : w \in 1 .. 8
  OBVIOUS
<1>2. \E w \in W : \A r \in W : w <= r
  <2>1. \/ 1 \in W \/ 2 \in W \/ 3 \in W \/ 4 \in W
        \/ 5 \in W \/ 6 \in W \/ 7 \in W \/ 8 \in W
    <3>1. PICK v \in W : v \in 1 .. 8
      BY <1>1
    <3>2. v = 1 \/ v = 2 \/ v = 3 \/ v = 4 \/ v = 5 \/ v = 6 \/ v = 7 \/ v = 8
      BY <3>1
    <3>3. QED
      BY <3>2
  <2>2. QED
    BY <1>1, <2>1
<1>3. QED
  BY <1>2

\* Starting phases leads to the first one that waits for somebody, or to the
\* end of the startup; everybody who is waited for was started and followed.
LEMMA StartPhase ==
    ASSUME Settings, NEW st \in State, Dormant(st),
           NEW p \in StartupPhases, st.m.phase <= p, NEW ok \in SUBSET Apps
    PROVE  LET t == start_phase(st, p, ok)
           IN  Good(t) /\ st.m.phase <= t.m.phase /\ p <= t.m.phase
<1> DEFINE W == {q \in p .. APPLICATION : awaited(st, q, ok) # {}}
           now == IF W = {} THEN RUNNING
                  ELSE CHOOSE q \in W : \A r \in W : q <= r
           mm == [ st.m EXCEPT !.phase = now,
                               !.pending = awaited(st, now, ok),
                               !.timer = (now < RUNNING) ]
           aa == [ x \in Apps |->
                     IF kind[x].phase \in p .. now
                       THEN _start_app(kind[x], st.app[x], x \in ok)
                       ELSE st.app[x] ]
           t == [m |-> mm, app |-> aa]
<1>1. start_phase(st, p, ok) = t
  BY DEF start_phase
<1>2. p \in 1 .. 8 /\ st.m \in Manager /\ st.app \in [Apps -> AppState]
  BY DEF StartupPhases, EARLY_INITIALIZATION, APPLICATION, State
<1>3. awaited(st, APPLICATION, ok) = {} /\ awaited(st, RUNNING, ok) = {}
  BY DEF awaited, APPLICATION, RUNNING
<1>4. \/ now = 9
      \/ now \in p .. 7 /\ awaited(st, now, ok) # {}
  <2>1. CASE W = {}
    BY <2>1 DEF RUNNING
  <2>2. CASE W # {}
    <3>1. W \in SUBSET (p .. 8)
      BY <1>2 DEF APPLICATION
    <3> DEFINE q == CHOOSE w \in W : \A r \in W : w <= r
    <3>2. q \in W
      <4> HIDE DEF W
      <4>1. QED
        BY <1>2, <2>2, <3>1, FirstPhase
    <3>3. q \in p .. 8 /\ awaited(st, q, ok) # {}
      BY <3>2 DEF APPLICATION
    <3>4. q # 8
      <4> HIDE DEF q, W
      <4>1. QED
        BY <1>3, <3>3 DEF APPLICATION
    <3>5. now = q
      BY <2>2
    <3> HIDE DEF q, W, now
    <3>6. QED
      BY <1>2, <3>3, <3>4, <3>5
  <2>3. QED
    BY <2>1, <2>2
<1> HIDE DEF W, now
<1>5. \A x \in awaited(st, now, ok) :
        /\ x \in Apps /\ kind[x].phase = now
        /\ now < APPLICATION
        /\ ~conditionally_disabled(kind[x], st.app[x])
        /\ x \in ok \/ kind[x].activated
  BY DEF awaited
<1>6. /\ mm \in Manager
      /\ mm.phase = now /\ mm.pending = awaited(st, now, ok)
      /\ mm.timer <=> now < 9
      /\ mm.quit = st.m.quit /\ mm.relaunch = st.m.relaunch
  <2> DEFINE b == (now < RUNNING)
  <2>1. b \in BOOLEAN /\ (b <=> now < 9)
    BY DEF RUNNING
  <2>2. awaited(st, now, ok) \in SUBSET Apps
    BY DEF awaited
  <2>3. now \in 1 .. 10
    BY <1>2, <1>4
  <2>4. mm = [st.m EXCEPT !.phase = now, !.pending = awaited(st, now, ok),
                          !.timer = b]
    OBVIOUS
  <2> HIDE DEF b, mm
  <2>5. /\ mm \in Manager
        /\ mm.phase = now /\ mm.pending = awaited(st, now, ok)
        /\ mm.timer = b /\ mm.quit = st.m.quit
        /\ mm.relaunch = st.m.relaunch
    BY <1>2, <2>1, <2>2, <2>3, <2>4
       DEF Manager, EARLY_INITIALIZATION, QUERY_END_SESSION
  <2>6. QED
    BY <2>1, <2>5
<1>7. aa \in [Apps -> AppState]
  <2>1. ASSUME NEW x \in Apps PROVE aa[x] \in AppState
    BY <1>2, StartAppTyped
  <2>2. QED
    BY <2>1
<1>8. \A x \in awaited(st, now, ok) :
        aa[x].followed /\ (kind[x].activated \/ Lives(aa[x]))
  <2>1. SUFFICES ASSUME NEW x \in awaited(st, now, ok)
                 PROVE  aa[x].followed /\ (kind[x].activated \/ Lives(aa[x]))
    OBVIOUS
  <2>2. now \in p .. 7
    BY <1>4, <1>5, <2>1 DEF APPLICATION
  <2>3. kind[x].phase \in p .. now
    BY <1>2, <1>5, <2>2
  <2>4. aa[x] = _start_app(kind[x], st.app[x], x \in ok)
    BY <1>5, <2>3
  <2>5. QED
    BY <1>2, <1>5, <2>4, StartAppTyped
<1>9. \A x \in Apps : kind[x].phase > now => aa[x] = st.app[x]
  <2>1. \A x \in Apps : kind[x].phase \in 1 .. 8
    BY Files
  <2>2. QED
    BY <1>2, <1>4, <2>1
<1> HIDE DEF mm, aa
<1>10. t \in State
  BY <1>6, <1>7 DEF State
<1>11. Waits(t)
  BY <1>3, <1>4, <1>5, <1>6, <1>8 DEF Waits, APPLICATION, RUNNING
<1>12. PresentBut(t, {})
  BY <1>6, <1>8 DEF PresentBut
<1>13. st.m.phase <= now /\ p <= now
  BY <1>2, <1>4 DEF Manager, EARLY_INITIALIZATION, QUERY_END_SESSION
<1>14. Dormant(t)
  <2>1. \A x \in Apps : kind[x].phase \in 1 .. 8
    BY Files
  <2>2. st.m.phase \in Int /\ now \in Int
    BY <1>2, <1>4 DEF Manager, EARLY_INITIALIZATION, QUERY_END_SESSION
  <2>3. ~mm.relaunch
    BY <1>2, <1>6, <2>2 DEF Dormant, APPLICATION
  <2>4. QED
    BY <1>6, <1>9, <1>13, <2>1, <2>2, <2>3 DEF Dormant
<1>15. QED
  BY <1>1, <1>6, <1>10, <1>11, <1>12, <1>13, <1>14 DEF Good, GoodBut

\* The end of a phase, as far as it waits at all.
LEMMA EndPhase ==
    ASSUME Settings, NEW st \in State, Dormant(st),
           st.m.phase < APPLICATION, NEW ok \in SUBSET Apps
    PROVE  Good(end_phase(st, ok)) /\ st.m.phase < end_phase(st, ok).m.phase
<1>1. st.m.phase \in 1 .. 7
  BY DEF State, Manager, EARLY_INITIALIZATION, QUERY_END_SESSION, APPLICATION
<1>2. st.m.phase + 1 \in StartupPhases /\ st.m.phase <= st.m.phase + 1
  BY <1>1 DEF StartupPhases, EARLY_INITIALIZATION, APPLICATION
<1>3. LET t == start_phase(st, st.m.phase + 1, ok)
      IN  Good(t) /\ st.m.phase + 1 <= t.m.phase
  BY <1>2, StartPhase
<1>4. end_phase(st, ok).m.phase \in Int
  BY <1>3 DEF end_phase, Good, GoodBut, State, Manager, EARLY_INITIALIZATION,
       QUERY_END_SESSION
<1>5. QED
  BY <1>1, <1>3, <1>4 DEF end_phase

-----------------------------------------------------------------------------
(* Applications that change or fail in the middle of a handler.            *)

\* The manager's record and the application's, changed by themselves.
LEMMA AppChanged ==
    ASSUME Settings, NEW x \in Apps, NEW st, GoodBut(st, {x}),
           kind[x].phase <= st.m.phase,
           NEW r \in AppState, r.followed = st.app[x].followed
    PROVE  LET t == [st EXCEPT !.app[x] = r]
           IN  /\ GoodBut(t, {x})
               /\ t.m = st.m /\ t.app[x] = r
               /\ kind[x].activated \/ Lives(r) => Good(t)
<1> DEFINE t == [st EXCEPT !.app[x] = r]
<1>1. st \in State /\ Dormant(st) /\ Waits(st) /\ PresentBut(st, {x})
  BY DEF GoodBut
<1>2. st.app \in [Apps -> AppState]
  BY <1>1 DEF State
<1>3. /\ t \in State /\ t.m = st.m
      /\ t.app[x] = r /\ \A y \in Apps : y # x => t.app[y] = st.app[y]
  BY <1>1, <1>2 DEF State
<1>4. st.m.pending \subseteq Apps
  BY <1>1 DEF State, Manager
<1> HIDE DEF t
<1>5. Dormant(t)
  BY <1>1, <1>3 DEF Dormant
<1>6. Waits(t)
  <2>1. \A y \in Apps : t.app[y].followed = st.app[y].followed
    BY <1>3
  <2>2. QED
    BY <1>1, <1>3, <1>4, <2>1 DEF Waits
<1>7. PresentBut(t, {x})
  BY <1>1, <1>3, <1>4 DEF PresentBut
<1>8. ASSUME kind[x].activated \/ Lives(r) PROVE PresentBut(t, {})
  BY <1>1, <1>3, <1>4, <1>8 DEF PresentBut
<1>9. QED
  BY <1>3, <1>5, <1>6, <1>7, <1>8 DEF t, Good, GoodBut

LEMMA QuitChanged ==
    ASSUME NEW X, NEW st, GoodBut(st, X), NEW q \in BOOLEAN, st.m.quit => q
    PROVE  LET t == [st EXCEPT !.m.quit = q]
           IN  GoodBut(t, X) /\ t.m.phase = st.m.phase /\ (q => Good(t))
<1> DEFINE t == [st EXCEPT !.m.quit = q]
<1>1. st \in State /\ Dormant(st) /\ Waits(st) /\ PresentBut(st, X)
  BY DEF GoodBut
<1>2. /\ t \in State /\ t.app = st.app /\ t.m.quit = q
      /\ t.m.phase = st.m.phase /\ t.m.timer = st.m.timer
      /\ t.m.pending = st.m.pending /\ t.m.relaunch = st.m.relaunch
  BY <1>1 DEF State, Manager
<1> HIDE DEF t
<1>3. Dormant(t)
  BY <1>1, <1>2 DEF Dormant
<1>4. Waits(t)
  BY <1>1, <1>2 DEF Waits
<1>5. PresentBut(t, X) /\ (q => PresentBut(t, {}))
  BY <1>1, <1>2 DEF PresentBut
<1>6. QED
  BY <1>2, <1>3, <1>4, <1>5 DEF t, Good, GoodBut

LEMMA EventGood ==
    ASSUME Settings, NEW x \in Apps, NEW st, GoodBut(st, {x}),
           NEW ok \in SUBSET Apps
    PROVE  LET t == app_event_during_startup(st, x, ok)
           IN  Good(t) /\ st.m.phase <= t.m.phase
<1> DEFINE rest == st.m.pending \ {x}
           u == [st EXCEPT !.m.pending = rest]
<1>1. /\ st \in State /\ Dormant(st) /\ Waits(st) /\ PresentBut(st, {x})
      /\ st.m.phase \in 1 .. 10 /\ st.m.pending \subseteq Apps
  BY DEF GoodBut, State, Manager, EARLY_INITIALIZATION, QUERY_END_SESSION
<1>2. CASE st.m.phase >= APPLICATION
  <2>1. PresentBut(st, {})
    BY <1>1, <1>2 DEF PresentBut, Waits, APPLICATION
  <2>2. QED
    BY <1>1, <1>2, <2>1 DEF app_event_during_startup, Good, GoodBut
<1>3. CASE st.m.phase < APPLICATION /\ rest = {}
  <2>1. app_event_during_startup(st, x, ok) = end_phase(st, ok)
    BY <1>1, <1>3 DEF app_event_during_startup, APPLICATION
  <2>2. Good(end_phase(st, ok)) /\ st.m.phase < end_phase(st, ok).m.phase
    BY <1>1, <1>3, EndPhase
  <2>3. end_phase(st, ok).m.phase \in Int
    BY <2>2 DEF Good, GoodBut, State, Manager, EARLY_INITIALIZATION,
         QUERY_END_SESSION
  <2>4. QED
    BY <1>1, <2>1, <2>2, <2>3
<1>4. CASE st.m.phase < APPLICATION /\ rest # {}
  <2>1. app_event_during_startup(st, x, ok) = u
    BY <1>1, <1>4 DEF app_event_during_startup, APPLICATION
  <2>2. /\ u \in State /\ u.app = st.app /\ u.m.pending = rest
        /\ u.m.phase = st.m.phase /\ u.m.timer = st.m.timer
        /\ u.m.quit = st.m.quit /\ u.m.relaunch = st.m.relaunch
    BY <1>1 DEF State, Manager
  <2> HIDE DEF u
  <2>3. Dormant(u)
    BY <1>1, <2>2 DEF Dormant
  <2>4. Waits(u)
    BY <1>1, <1>4, <2>2 DEF Waits, APPLICATION
  <2>5. PresentBut(u, {})
    BY <1>1, <2>2 DEF PresentBut
  <2>6. QED
    BY <1>1, <2>1, <2>2, <2>3, <2>4, <2>5 DEF Good, GoodBut
<1>5. QED
  BY <1>1, <1>2, <1>3, <1>4 DEF APPLICATION

LEMMA RequiredFailureGood ==
    ASSUME Settings, NEW x \in Apps, NEW st, GoodBut(st, {x})
    PROVE  LET t == on_required_app_failure(st, x)
           IN  GoodBut(t, {x}) /\ t.m.phase = st.m.phase
<1> DEFINE q == st.m.quit \/ (wayland /\ kind[x].wm)
<1>1. st \in State /\ st.m.quit \in BOOLEAN
  BY DEF GoodBut, State, Manager
<1>2. q \in BOOLEAN /\ (st.m.quit => q)
  OBVIOUS
<1>3. on_required_app_failure(st, x) = [st EXCEPT !.m.quit = q]
  BY <1>1 DEF on_required_app_failure
<1> HIDE DEF q
<1>4. QED
  BY <1>2, <1>3, QuitChanged

LEMMA RestartGood ==
    ASSUME Settings, NEW x \in Apps, NEW st, GoodBut(st, {x}),
           kind[x].phase <= st.m.phase, NEW ok \in SUBSET Apps
    PROVE  LET t == _restart_app(st, x, ok)
           IN  Good(t) /\ st.m.phase <= t.m.phase
<1> DEFINE r == csm_app_restart(kind[x], st.app[x], x \in ok)
           t == [st EXCEPT !.app[x] = r]
           f == IF kind[x].required THEN on_required_app_failure(t, x) ELSE t
<1>1. st \in State /\ st.app[x] \in AppState /\ st.m.phase \in Int
  BY DEF GoodBut, State, Manager, EARLY_INITIALIZATION, QUERY_END_SESSION
<1>2. kind[x] \in DesktopFile
  BY Files
<1>3. /\ r \in AppState
      /\ r.followed = st.app[x].followed
      /\ restarted(kind[x], st.app[x], x \in ok)
           => kind[x].activated \/ Lives(r)
  <2> DEFINE b == x \in ok
  <2>1. b \in BOOLEAN
    OBVIOUS
  <2> HIDE DEF b
  <2>2. LET v == csm_app_restart(kind[x], st.app[x], b)
        IN  /\ v \in AppState
            /\ v.followed = st.app[x].followed
            /\ restarted(kind[x], st.app[x], b) => kind[x].activated \/ Lives(v)
    BY <1>1, <1>2, <2>1, RestartTyped
  <2>3. QED
    BY <2>2 DEF b
<1>4. t = [st EXCEPT !.app[x] = csm_app_restart(kind[x], @, x \in ok)]
  BY <1>1 DEF State
<1> HIDE DEF r
<1>5. /\ GoodBut(t, {x})
      /\ t.m = st.m
      /\ kind[x].activated \/ Lives(r) => Good(t)
  BY <1>3, AppChanged
<1>6. _restart_app(st, x, ok) =
        IF wayland /\ kind[x].wm THEN [st EXCEPT !.m.quit = TRUE]
        ELSE IF restarted(kind[x], st.app[x], x \in ok) THEN t
        ELSE csm_app_restart_failed(t, x, ok)
  BY <1>4 DEF _restart_app
<1> HIDE DEF t
<1>7. /\ Good([st EXCEPT !.m.quit = TRUE])
      /\ [st EXCEPT !.m.quit = TRUE].m.phase = st.m.phase
  BY QuitChanged
<1>8. GoodBut(f, {x}) /\ f.m.phase = st.m.phase
  BY <1>5, RequiredFailureGood
<1> HIDE DEF f
<1>9. LET e == app_event_during_startup(f, x, ok)
      IN  Good(e) /\ st.m.phase <= e.m.phase
  BY <1>8, EventGood
<1>10. csm_app_restart_failed(t, x, ok) = app_event_during_startup(f, x, ok)
  BY DEF csm_app_restart_failed, f
<1>11. QED
  BY <1>1, <1>3, <1>5, <1>6, <1>7, <1>9, <1>10

\* An application changes and goes on having a process if it had one.
LEMMA AppKept ==
    ASSUME Settings, NEW x \in Apps, NEW st, Good(st),
           NEW r \in AppState, r.followed = st.app[x].followed,
           kind[x].phase <= st.m.phase \/ Asleep(r),
           Lives(st.app[x]) => Lives(r)
    PROVE  LET t == [st EXCEPT !.app[x] = r]
           IN  Good(t) /\ t.m = st.m /\ t.app[x] = r
<1> DEFINE t == [st EXCEPT !.app[x] = r]
<1>1. st \in State /\ Dormant(st) /\ Waits(st) /\ PresentBut(st, {})
  BY DEF Good, GoodBut
<1>2. st.app \in [Apps -> AppState]
  BY <1>1 DEF State
<1>3. /\ t \in State /\ t.m = st.m
      /\ t.app[x] = r /\ \A y \in Apps : y # x => t.app[y] = st.app[y]
  BY <1>1, <1>2 DEF State
<1>4. st.m.pending \subseteq Apps
  BY <1>1 DEF State, Manager
<1> HIDE DEF t
<1>5. Dormant(t)
  BY <1>1, <1>3 DEF Dormant
<1>6. Waits(t)
  <2>1. \A y \in Apps : t.app[y].followed = st.app[y].followed
    BY <1>3
  <2>2. QED
    BY <1>1, <1>3, <1>4, <2>1 DEF Waits
<1>7. PresentBut(t, {})
  BY <1>1, <1>3, <1>4 DEF PresentBut
<1>8. QED
  BY <1>3, <1>5, <1>6, <1>7 DEF t, Good, GoodBut

\* The ends of a process that the manager hears of.
LEMMA AutorestartGood ==
    ASSUME NEW x \in Apps, NEW st, GoodBut(st, {x}), kind[x].autorestart
    PROVE  Good(st)
BY DEF Good, GoodBut, PresentBut

LEMMA DiedGood ==
    ASSUME Settings, NEW x \in Apps, NEW st, GoodBut(st, {x}),
           kind[x].phase <= st.m.phase, NEW ok \in SUBSET Apps
    PROVE  LET t == app_died(st, x, ok) IN Good(t) /\ st.m.phase <= t.m.phase
<1>1. st.m.phase \in Int
  BY DEF GoodBut, State, Manager, EARLY_INITIALIZATION, QUERY_END_SESSION
<1>2. QED
  BY <1>1, RestartGood, AutorestartGood DEF app_died

LEMMA ExitedGood ==
    ASSUME Settings, NEW x \in Apps, NEW st, GoodBut(st, {x}),
           kind[x].phase <= st.m.phase, NEW ok \in SUBSET Apps, NEW how
    PROVE  LET t == exited(st, x, how, ok) IN Good(t) /\ st.m.phase <= t.m.phase
<1>1. st.m.phase \in Int
  BY DEF GoodBut, State, Manager, EARLY_INITIALIZATION, QUERY_END_SESSION
<1>2. QED
  BY <1>1, RestartGood, AutorestartGood, EventGood DEF exited

\* A client that leaves, told once or twice.
LEMMA DisconnectGood ==
    ASSUME Settings, NEW x \in Apps, NEW st, Good(st),
           kind[x].phase <= st.m.phase, NEW ok \in SUBSET Apps, NEW c
    PROVE  LET t == _disconnect_client(st, x, c, ok)
           IN  Good(t) /\ st.m.phase <= t.m.phase /\ kind[x].phase <= t.m.phase
<1>1. st.m.phase \in Int /\ kind[x].phase \in Int
  BY Files DEF Good, GoodBut, State, Manager, EARLY_INITIALIZATION, QUERY_END_SESSION
<1>2. GoodBut(st, {x})
  BY DEF Good, GoodBut, PresentBut
<1>3. LET t == _restart_app(st, x, ok) IN Good(t) /\ st.m.phase <= t.m.phase
  BY <1>2, RestartGood
<1>4. _restart_app(st, x, ok).m.phase \in Int
  BY <1>3 DEF Good, GoodBut, State, Manager, EARLY_INITIALIZATION, QUERY_END_SESSION
<1>5. QED
  BY <1>1, <1>3, <1>4 DEF _disconnect_client

LEMMA DisconnectedGood ==
    ASSUME Settings, NEW x \in Apps, NEW st, Good(st),
           kind[x].phase <= st.m.phase, NEW ok \in SUBSET Apps
    PROVE  LET t == disconnected(st, x, ok)
           IN  Good(t) /\ kind[x].phase <= t.m.phase
<1> DEFINE once == _disconnect_client(st, x, client[x].condition, ok)
           again == IF client[x].condition = 2 THEN 1 ELSE 0
<1>1. Good(once) /\ kind[x].phase <= once.m.phase
  BY DisconnectGood
<1>2. disconnected(st, x, ok) =
        IF client[x].type = "xsmp" THEN _disconnect_client(once, x, again, ok)
        ELSE once
  BY DEF disconnected
<1> HIDE DEF once, again
<1>3. LET t == _disconnect_client(once, x, again, ok)
      IN  Good(t) /\ kind[x].phase <= t.m.phase
  BY <1>1, DisconnectGood
<1>4. QED
  BY <1>1, <1>2, <1>3

-----------------------------------------------------------------------------
(* The invariant.                                                          *)

IInv == Settings /\ client \in [Apps -> Client] /\ Good(Now)

LEMMA NowIs ==
    ASSUME Good(Now)
    PROVE  /\ m \in Manager /\ app \in [Apps -> AppState]
           /\ m.phase \in 1 .. 10
           /\ Now.m = m /\ Now.app = app
BY DEF Good, GoodBut, State, Now, Manager, EARLY_INITIALIZATION, QUERY_END_SESSION

\* A handler that leads to a good state, with the clients it leaves.
LEMMA Handled ==
    ASSUME IInv, kind' = kind, wayland' = wayland,
           NEW st, Good(st), Handle(st),
           client' \in [Apps -> Client],
           \A x \in Apps : kind[x].phase <= st.m.phase \/ client'[x] = NoClient
    PROVE  IInv'
<1>1. st \in State /\ Dormant(st) /\ Waits(st) /\ PresentBut(st, {})
  BY DEF Good, GoodBut
<1>2. m' = st.m /\ app' = st.app
  BY DEF Handle
<1>3. Now'.m = st.m /\ Now'.app = st.app
  BY <1>2 DEF Now
<1>4. Now' \in State
  BY <1>1, <1>2 DEF Now, State
<1>5. Dormant(Now)'
  BY <1>1, <1>3 DEF Dormant
<1>6. Waits(Now)'
  BY <1>1, <1>3 DEF Waits
<1>7. PresentBut(Now, {})'
  BY <1>1, <1>3 DEF PresentBut
<1>8. Settings'
  BY DEF IInv, Settings
<1>9. Good(Now)'
  BY <1>4, <1>5, <1>6, <1>7 DEF Good, GoodBut, State
<1>10. QED
  BY <1>8, <1>9 DEF IInv

\* The same when the clients stay as they are.
LEMMA HandledAlone ==
    ASSUME IInv, kind' = kind, wayland' = wayland, client' = client,
           NEW st, Good(st), Handle(st)
    PROVE  IInv'
<1>1. \A x \in Apps : kind[x].phase <= st.m.phase \/ client'[x] = NoClient
  BY DEF Good, GoodBut, Dormant
<1>2. client' \in [Apps -> Client]
  BY DEF IInv
<1>3. QED
  BY <1>1, <1>2, Handled

\* Somebody with a process, a timer or a client is not dormant.
LEMMA Awake ==
    ASSUME IInv, NEW x \in Apps,
           ~Asleep(app[x]) \/ client[x] # NoClient
    PROVE  kind[x].phase <= m.phase
BY NowIs DEF IInv, Good, GoodBut, Dormant

\* Somebody who is waited for is followed.
LEMMA PendingFollowed ==
    ASSUME IInv, ~m.quit, NEW x \in m.pending
    PROVE  app[x].followed
BY NowIs DEF IInv, Good, GoodBut, Waits

LEMMA ChildExitedStep ==
    ASSUME IInv, ~m.quit, NEW x \in Apps, ChildExited(x)
    PROVE  IInv'
<1>1. PICK s \in Dead(app[x]), ok \in SUBSET Apps :
        LET how == app[x].procs[s]
            st == [Now EXCEPT !.app[x] = app_exited(@, s)]
        IN  /\ Handle(IF ~app[x].followed THEN st
                      ELSE IF how = "signal" THEN app_died(st, x, ok)
                                             ELSE exited(st, x, how, ok))
            /\ UNCHANGED <<kind, wayland, client>>
  BY DEF ChildExited
<1> DEFINE r == app_exited(app[x], s)
           st == [Now EXCEPT !.app[x] = r]
           how == app[x].procs[s]
           t == IF ~app[x].followed THEN st
                ELSE IF how = "signal" THEN app_died(st, x, ok)
                                       ELSE exited(st, x, how, ok)
<1>2. Settings /\ Good(Now) /\ GoodBut(Now, {x}) /\ Now.m = m /\ Now.app = app
      /\ app[x] \in AppState
  BY NowIs DEF IInv, Good, GoodBut, PresentBut
<1>3. s \in Slots /\ app[x].procs[s] # "free"
  BY DEF Dead, Ended
<1>4. kind[x].phase <= m.phase
  BY <1>3, Awake DEF Asleep
<1>5. r \in AppState /\ r.followed = app[x].followed
  BY <1>2, <1>3, ExitTyped
<1>6. st = [Now EXCEPT !.app[x] = app_exited(@, s)]
  BY <1>2 DEF Now
<1>7. Handle(t) /\ kind' = kind /\ wayland' = wayland /\ client' = client
  BY <1>1, <1>6
<1> HIDE DEF r
<1>8. GoodBut(st, {x}) /\ st.m = m
  BY <1>2, <1>4, <1>5, AppChanged
<1> HIDE DEF st, how
<1>9. ~app[x].followed => Good(st)
  <2>1. ~app[x].followed => x \notin st.m.pending
    BY <1>8, PendingFollowed
  <2>2. QED
    BY <1>8, <2>1 DEF Good, GoodBut, PresentBut
<1>10. Good(app_died(st, x, ok))
  BY <1>2, <1>4, <1>8, DiedGood
<1>11. Good(exited(st, x, how, ok))
  BY <1>2, <1>4, <1>8, ExitedGood
<1>12. Good(t)
  BY <1>9, <1>10, <1>11
<1> HIDE DEF t
<1>13. QED
  BY <1>7, <1>12, HandledAlone

LEMMA DelayTimeoutStep ==
    ASSUME IInv, NEW x \in Apps, DelayTimeout(x)
    PROVE  IInv'
<1>1. PICK launched \in BOOLEAN :
        Handle([Now EXCEPT
            !.app[x] = _autostart_delay_timeout(kind[x], @, launched)])
  BY DEF DelayTimeout
<1>2. app[x].delay /\ kind' = kind /\ wayland' = wayland /\ client' = client
  BY DEF DelayTimeout
<1> DEFINE r == _autostart_delay_timeout(kind[x], app[x], launched)
           t == [Now EXCEPT !.app[x] = r]
<1>3. Settings /\ Good(Now) /\ Now.m = m /\ Now.app = app /\ app[x] \in AppState
  BY NowIs DEF IInv
<1>4. kind[x].phase <= m.phase
  BY <1>2, Awake DEF Asleep
<1>5. r \in AppState /\ r.followed = app[x].followed /\ (Lives(app[x]) => Lives(r))
  BY <1>3, DelayTyped
<1>6. Handle(t)
  BY <1>1, <1>3 DEF Now
<1> HIDE DEF r
<1>7. Good(t)
  BY <1>3, <1>4, <1>5, AppKept
<1> HIDE DEF t
<1>8. QED
  BY <1>2, <1>6, <1>7, HandledAlone

LEMMA ConditionChangedStep ==
    ASSUME IInv, NEW x \in Apps, ConditionChanged(x)
    PROVE  IInv'
<1> DEFINE r == condition_cb(kind[x], app[x])
           v(launched) == IF heard(x)
                            THEN app_condition_changed(r, x, r.condition, launched)
                            ELSE r
           t(launched) == [Now EXCEPT !.app[x] = v(launched)]
<1>1. PICK launched \in BOOLEAN : Handle(t(launched))
  BY DEF ConditionChanged
<1>2. app[x].events # << >> /\ kind' = kind /\ wayland' = wayland
  BY DEF ConditionChanged
<1>3. Settings /\ Good(Now) /\ Now.m = m /\ Now.app = app /\ app[x] \in AppState
      /\ kind[x] \in DesktopFile
  BY NowIs, Files DEF IInv
<1>4. /\ r \in AppState
      /\ r.procs = app[x].procs /\ r.pid = app[x].pid
      /\ r.followed = app[x].followed
      /\ r.watched = app[x].watched /\ r.delay = app[x].delay
      /\ r.recent = app[x].recent
  BY <1>2, <1>3, ConditionTyped
<1>5. /\ kind[x].phase <= m.phase \/ Asleep(r)
      /\ heard(x) => kind[x].phase <= m.phase
  <2>1. Asleep(r) <=> Asleep(app[x])
    BY <1>4 DEF Asleep
  <2>2. heard(x) => ~Asleep(app[x])
    BY DEF heard, Asleep
  <2>3. QED
    BY <2>1, <2>2, Awake
<1>6. Lives(app[x]) => Lives(r)
  BY <1>4 DEF Lives
<1> DEFINE w == v(launched)
<1>7. /\ w \in AppState /\ w.followed = app[x].followed
      /\ Lives(app[x]) => Lives(w)
      /\ kind[x].phase <= m.phase \/ Asleep(w)
  <2> HIDE DEF r
  <2>1. /\ csm_app_start(kind[x], r) \in AppState
        /\ csm_app_start(kind[x], r).followed = r.followed
        /\ Lives(r) => Lives(csm_app_start(kind[x], r))
    BY <1>3, <1>4, StartTyped
  <2>2. /\ csm_app_stop(kind[x], r) \in AppState
        /\ csm_app_stop(kind[x], r).followed = r.followed
        /\ Lives(r) => Lives(csm_app_stop(kind[x], r))
    BY <1>3, <1>4, StopTyped
  <2>3. w \in {r, csm_app_start(kind[x], r), csm_app_stop(kind[x], r)}
    BY DEF app_condition_changed
  <2>4. ~heard(x) => w = r
    OBVIOUS
  <2> HIDE DEF w
  <2>5. QED
    BY <1>4, <1>5, <1>6, <2>1, <2>2, <2>3, <2>4
<1>8. Handle([Now EXCEPT !.app[x] = w])
  BY <1>1
<1> HIDE DEF w
<1>9. Good([Now EXCEPT !.app[x] = w])
  BY <1>3, <1>7, AppKept
<1>10. CASE client' = client
  BY <1>2, <1>8, <1>9, <1>10, HandledAlone
<1>11. CASE client' # client
  <2>1. /\ heard(x) /\ client[x] # NoClient /\ client[x].condition < 2
        /\ client' = [client EXCEPT ![x].condition = @ + 1]
    BY <1>11 DEF ConditionChanged, Registered
  <2>2. client \in [Apps -> Client]
    BY DEF IInv
  <2>3. [client[x] EXCEPT !.condition = @ + 1] \in Client
    BY <2>1, <2>2 DEF Client
  <2>4. client' \in [Apps -> Client]
    BY <2>1, <2>2, <2>3
  <2>5. [Now EXCEPT !.app[x] = w].m = m
    BY DEF Now
  <2>6. \A y \in Apps : kind[y].phase <= m.phase \/ client'[y] = NoClient
    BY <1>5, <2>1, <2>2, Awake
  <2>7. QED
    BY <1>2, <1>8, <1>9, <2>4, <2>5, <2>6, Handled
<1>12. QED
  BY <1>10, <1>11

LEMMA RegisterClientStep ==
    ASSUME IInv, NEW x \in Apps, RegisterClient(x)
    PROVE  IInv'
<1>1. PICK ok \in SUBSET Apps : Handle(app_registered(Now, x, ok))
  BY DEF RegisterClient
<1>2. PICK s \in Slots, immediately \in BOOLEAN :
        /\ app[x].procs[s] = "running"
        /\ client' = [client EXCEPT ![x] =
             [proc |-> s, type |-> kind[x].client, immediately |-> immediately,
              left |-> FALSE, condition |-> 0]]
  BY DEF RegisterClient
<1>3. kind[x].client # "none" /\ kind' = kind /\ wayland' = wayland
  BY DEF RegisterClient
<1>4. Settings /\ Good(Now) /\ GoodBut(Now, {x}) /\ Now.m = m
      /\ client \in [Apps -> Client]
  BY NowIs DEF IInv, Good, GoodBut, PresentBut
<1>5. kind[x].phase <= m.phase
  BY <1>2, Awake DEF Asleep
<1>6. kind[x].client \in {"dbus", "xsmp"} /\ kind[x].phase \in Int /\ m.phase \in Int
  BY <1>3, <1>4, Files, NowIs
<1> DEFINE t == app_registered(Now, x, ok)
<1>7. Good(t) /\ m.phase <= t.m.phase
  BY <1>4, <1>6, EventGood DEF app_registered
<1>8. t.m.phase \in Int
  BY <1>7 DEF Good, GoodBut, State, Manager, EARLY_INITIALIZATION, QUERY_END_SESSION
<1>9. client' \in [Apps -> Client]
  BY <1>2, <1>4, <1>6 DEF Client
<1> HIDE DEF t
<1>10. \A y \in Apps : kind[y].phase <= t.m.phase \/ client'[y] = NoClient
  <2>1. \A y \in Apps : y # x => client'[y] = client[y]
    BY <1>2, <1>4
  <2>2. \A y \in Apps : kind[y].phase <= t.m.phase \/ client[y] = NoClient
    BY <1>7 DEF Good, GoodBut, Dormant
  <2>3. kind[x].phase <= t.m.phase
    BY <1>5, <1>6, <1>7, <1>8
  <2>4. QED
    BY <2>1, <2>2, <2>3
<1>11. QED
  BY <1>1, <1>3, <1>7, <1>9, <1>10, Handled DEF t

LEMMA ClientDisconnectedStep ==
    ASSUME IInv, NEW x \in Apps, ClientDisconnected(x)
    PROVE  IInv'
<1>1. PICK ok \in SUBSET Apps : Handle(disconnected(Now, x, ok))
  BY DEF ClientDisconnected
<1>2. client[x] # NoClient /\ client' = [client EXCEPT ![x] = NoClient]
      /\ kind' = kind /\ wayland' = wayland
  BY DEF ClientDisconnected, Registered
<1>3. Settings /\ Good(Now) /\ Now.m = m /\ client \in [Apps -> Client]
  BY NowIs DEF IInv
<1>4. kind[x].phase <= m.phase
  BY <1>2, Awake
<1> DEFINE t == disconnected(Now, x, ok)
<1>5. Good(t)
  BY <1>3, <1>4, DisconnectedGood
<1>6. client' \in [Apps -> Client]
  BY <1>2, <1>3 DEF Client
<1> HIDE DEF t
<1>7. \A y \in Apps : kind[y].phase <= t.m.phase \/ client'[y] = NoClient
  BY <1>2, <1>3, <1>5 DEF Good, GoodBut, Dormant
<1>8. QED
  BY <1>1, <1>2, <1>5, <1>6, <1>7, Handled DEF t

\* What an application that changed by itself leaves of the invariant.
LEMMA AppAlone ==
    ASSUME IInv, NEW x \in Apps, kind' = kind, wayland' = wayland, m' = m,
           NEW r \in AppState, app' = [app EXCEPT ![x] = r],
           r.followed = app[x].followed,
           kind[x].phase <= m.phase \/ Asleep(r),
           Lives(app[x]) => Lives(r),
           client' \in [Apps -> Client],
           \A y \in Apps : kind[y].phase <= m.phase \/ client'[y] = NoClient
    PROVE  IInv'
<1> DEFINE t == [Now EXCEPT !.app[x] = r]
<1>1. Settings /\ Good(Now) /\ Now.m = m /\ Now.app = app
  BY NowIs DEF IInv
<1>2. Good(t) /\ t.m = m
  BY <1>1, AppKept
<1>3. Handle(t)
  BY <1>1 DEF Handle, Now
<1> HIDE DEF t
<1>4. QED
  BY <1>2, <1>3, Handled

LEMMA ProcessEndsStep ==
    ASSUME IInv, NEW x \in Apps, ProcessEnds(x)
    PROVE  IInv'
<1>1. PICK s \in Live(app[x]), how \in IF app[x].followed THEN Ended ELSE {"exit0"} :
        /\ app' = [app EXCEPT ![x].procs[s] = how]
        /\ client' = [client EXCEPT ![x].left = @ \/ client[x].proc = s]
        /\ UNCHANGED <<kind, wayland, m>>
  BY DEF ProcessEnds
<1> DEFINE r == [app[x] EXCEPT !.procs[s] = how]
           b == client[x].left \/ client[x].proc = s
           c == [client[x] EXCEPT !.left = b]
<1>2. /\ m \in Manager /\ app \in [Apps -> AppState] /\ client \in [Apps -> Client]
      /\ app[x] \in AppState /\ client[x] \in Client
  BY NowIs DEF IInv
<1>3. how \in Ended /\ s \in Slots /\ app[x].procs[s] # "free"
  BY DEF Live, Ended
<1>4. kind[x].phase <= m.phase
  BY <1>3, Awake DEF Asleep
<1>5. r \in AppState /\ r.followed = app[x].followed /\ Lives(r)
  <2>1. app[x] \in AppFields
    BY <1>2 DEF AppState
  <2>2. /\ r \in AppFields /\ r.pid = app[x].pid /\ r.followed = app[x].followed
        /\ r.procs = [app[x].procs EXCEPT ![s] = how]
    BY <1>3, <2>1 DEF AppFields, ProcStates
  <2>3. r.procs[s] # "free"
    BY <1>3, <2>1, <2>2 DEF AppFields, Ended
  <2>4. r.pid # NoPid => r.procs[r.pid] # "free"
    BY <1>2, <1>3, <2>1, <2>2 DEF AppState, AppFields, Ended
  <2>5. QED
    BY <1>3, <2>2, <2>3, <2>4 DEF AppState, Lives
<1>6. c \in Client /\ (client[x] = NoClient => c = NoClient)
  <2>1. b \in BOOLEAN
    OBVIOUS
  <2>2. s # NoPid
    BY <1>3 DEF Slots, NoPid
  <2>3. CASE client[x] = NoClient
    <3>1. b = FALSE
      BY <2>2, <2>3 DEF NoClient
    <3>2. c = [NoClient EXCEPT !.left = FALSE]
      <4> HIDE DEF b
      <4>1. QED
        BY <2>3, <3>1
    <3>3. [NoClient EXCEPT !.left = FALSE] = NoClient
      <4> DEFINE K == [ proc : {NoPid}, type : {"none"},
                        immediately : BOOLEAN, left : BOOLEAN, condition : 0 .. 2 ]
      <4>1. NoClient \in K /\ NoClient.left = FALSE
        BY DEF NoClient
      <4> HIDE DEF NoClient
      <4>2. QED
        BY <4>1
    <3>4. QED
      BY <3>2, <3>3 DEF Client
  <2>4. CASE client[x] # NoClient
    <3> HIDE DEF b
    <3>1. c \in Client
      BY <1>2, <2>1, <2>4 DEF Client
    <3>2. QED
      BY <2>4, <3>1
  <2>5. QED
    BY <2>3, <2>4
<1>7. app' = [app EXCEPT ![x] = r]
  BY <1>1, <1>2
<1>8. client' = [client EXCEPT ![x] = c]
  BY <1>1, <1>2
<1> HIDE DEF r, c
<1>9. client' \in [Apps -> Client]
  BY <1>2, <1>6, <1>8
<1>10. \A y \in Apps : kind[y].phase <= m.phase \/ client[y] = NoClient
  BY Awake
<1>11. \A y \in Apps : kind[y].phase <= m.phase \/ client'[y] = NoClient
  BY <1>2, <1>6, <1>8, <1>10
<1>12. QED
  BY <1>1, <1>4, <1>5, <1>7, <1>9, <1>11, AppAlone

LEMMA ClientLeavesStep ==
    ASSUME IInv, NEW x \in Apps, ClientLeaves(x)
    PROVE  IInv'
<1>1. /\ client[x] # NoClient
      /\ client' = [client EXCEPT ![x].left = TRUE]
      /\ kind' = kind /\ wayland' = wayland /\ m' = m /\ app' = app
  BY DEF ClientLeaves, Registered
<1>2. client \in [Apps -> Client] /\ Good(Now) /\ Now.m = m /\ Now.app = app
  BY NowIs DEF IInv
<1>3. [client[x] EXCEPT !.left = TRUE] \in Client
  BY <1>1, <1>2 DEF Client
<1>4. client' \in [Apps -> Client]
  BY <1>1, <1>2, <1>3
<1>5. \A y \in Apps : kind[y].phase <= m.phase \/ client'[y] = NoClient
  BY <1>1, <1>2, Awake
<1>6. QED
  BY <1>1, <1>2, <1>4, <1>5, Handled DEF Handle

LEMMA WorldChangesStep ==
    ASSUME IInv, NEW x \in Apps, WorldChanges(x)
    PROVE  IInv'
<1> DEFINE w == ~app[x].world
           r == [app[x] EXCEPT !.world = w, !.events = Append(@, w)]
<1>1. /\ app' = [app EXCEPT ![x].world = ~@, ![x].events = Append(@, ~app[x].world)]
      /\ kind' = kind /\ wayland' = wayland /\ m' = m /\ client' = client
  BY DEF WorldChanges
<1>2. app \in [Apps -> AppState] /\ client \in [Apps -> Client] /\ app[x] \in AppState
  BY NowIs DEF IInv
<1>3. /\ r \in AppState /\ r.followed = app[x].followed
      /\ Lives(app[x]) => Lives(r)
      /\ Asleep(app[x]) => Asleep(r)
  <2>1. app[x] \in AppFields /\ w \in BOOLEAN
    BY <1>2 DEF AppState
  <2>2. Append(app[x].events, w) \in Seq(BOOLEAN)
    BY <2>1 DEF AppFields
  <2> HIDE DEF w
  <2>3. /\ r \in AppFields /\ r.procs = app[x].procs /\ r.pid = app[x].pid
        /\ r.followed = app[x].followed
        /\ r.watched = app[x].watched /\ r.delay = app[x].delay
        /\ r.recent = app[x].recent
    BY <2>1, <2>2 DEF AppFields
  <2>4. QED
    BY <1>2, <2>3 DEF AppState, Lives, Asleep
<1>4. app' = [app EXCEPT ![x] = r]
  BY <1>1, <1>2
<1> HIDE DEF r
<1>5. \A y \in Apps : kind[y].phase <= m.phase \/ client[y] = NoClient
  BY Awake
<1>6. kind[x].phase <= m.phase \/ Asleep(r)
  BY <1>3, Awake
<1>7. QED
  BY <1>1, <1>2, <1>3, <1>4, <1>5, <1>6, AppAlone

LEMMA MinutePassesStep ==
    ASSUME IInv, NEW x \in Apps, MinutePasses(x)
    PROVE  IInv'
<1> DEFINE r == [app[x] EXCEPT !.recent = FALSE]
<1>1. /\ app' = [app EXCEPT ![x].recent = FALSE]
      /\ kind' = kind /\ wayland' = wayland /\ m' = m /\ client' = client
  BY DEF MinutePasses
<1>2. app \in [Apps -> AppState] /\ client \in [Apps -> Client] /\ app[x] \in AppState
  BY NowIs DEF IInv
<1>3. /\ r \in AppState /\ r.followed = app[x].followed
      /\ Lives(app[x]) => Lives(r)
      /\ Asleep(app[x]) => Asleep(r)
  <2>1. app[x] \in AppFields
    BY <1>2 DEF AppState
  <2>2. /\ r \in AppFields /\ r.procs = app[x].procs /\ r.pid = app[x].pid
        /\ r.followed = app[x].followed
        /\ r.watched = app[x].watched /\ r.delay = app[x].delay
        /\ ~r.recent
    BY <2>1 DEF AppFields
  <2>3. QED
    BY <1>2, <2>2 DEF AppState, Lives, Asleep
<1>4. app' = [app EXCEPT ![x] = r]
  BY <1>1, <1>2
<1> HIDE DEF r
<1>5. \A y \in Apps : kind[y].phase <= m.phase \/ client[y] = NoClient
  BY Awake
<1>6. kind[x].phase <= m.phase \/ Asleep(r)
  BY <1>3, Awake
<1>7. QED
  BY <1>1, <1>2, <1>3, <1>4, <1>5, <1>6, AppAlone

LEMMA PhaseTimeoutStep ==
    ASSUME IInv, ~m.quit, PhaseTimeout
    PROVE  IInv'
<1>1. PICK ok \in SUBSET Apps : Handle(on_phase_timeout(Now, ok))
  BY DEF PhaseTimeout
<1>2. m.timer /\ kind' = kind /\ wayland' = wayland /\ client' = client
  BY DEF PhaseTimeout
<1>3. Settings /\ Good(Now) /\ Now.m = m /\ m \in Manager
  BY NowIs DEF IInv
<1>4. m.phase < APPLICATION
  BY <1>2, <1>3 DEF Good, GoodBut, Waits
<1> DEFINE lost == {x \in Now.m.pending : kind[x].required}
           q == Now.m.quit \/ \E x \in lost : wayland /\ kind[x].wm
           t == [Now EXCEPT !.m.timer = FALSE, !.m.quit = q]
<1>5. on_phase_timeout(Now, ok) = end_phase(t, ok)
  BY <1>3 DEF on_phase_timeout, Now
<1>6. q \in BOOLEAN
  BY <1>3 DEF Manager
<1> HIDE DEF q
<1>7. /\ t \in State /\ t.app = Now.app
      /\ t.m.phase = m.phase /\ t.m.relaunch = m.relaunch
  BY <1>3, <1>6 DEF Good, GoodBut, State, Manager
<1> HIDE DEF t
<1>8. Dormant(t)
  BY <1>3, <1>7 DEF Good, GoodBut, Dormant
<1>9. Good(end_phase(t, ok))
  BY <1>3, <1>4, <1>7, <1>8, EndPhase
<1>10. QED
  BY <1>1, <1>2, <1>5, <1>9, HandledAlone

\* The steps that only change a field of the manager once the session runs.
LEMMA ManagerAlone ==
    ASSUME IInv, NEW n \in Manager,
           m.phase > APPLICATION, n.phase > APPLICATION,
           ~m.quit, n.pending = m.pending, n.timer = m.timer,
           kind' = kind, wayland' = wayland, client' = client,
           Handle([m |-> n, app |-> app])
    PROVE  IInv'
<1> DEFINE t == [m |-> n, app |-> app]
<1>1. Settings /\ Good(Now) /\ Now.m = m /\ Now.app = app /\ m.phase \in 1 .. 10
      /\ app \in [Apps -> AppState] /\ \A x \in Apps : kind[x].phase \in 1 .. 8
  BY NowIs, Files DEF IInv
<1>2. n.phase \in 1 .. 10
  BY DEF Manager, EARLY_INITIALIZATION, QUERY_END_SESSION
<1>3. ~m.timer /\ m.pending = {}
  BY <1>1 DEF Good, GoodBut, Waits, APPLICATION
<1>4. t \in State
  BY <1>1 DEF State
<1>5. Dormant(t)
  BY <1>1, <1>2 DEF Dormant, APPLICATION
<1>6. Waits(t) /\ PresentBut(t, {})
  BY <1>3 DEF Waits, PresentBut
<1>7. QED
  BY <1>4, <1>5, <1>6, HandledAlone DEF Good, GoodBut

LEMMA RelaunchStep ==
    ASSUME IInv, ~m.quit, restart_cinnamon_launcher
    PROVE  IInv'
<1>1. PICK launched \in BOOLEAN :
         Handle([ m |-> [m EXCEPT !.relaunch = FALSE],
                  app |-> [x \in Apps |->
                      IF kind[x].launcher
                        THEN csm_app_restart(kind[x], app[x], launched)
                        ELSE app[x]] ])
  BY DEF restart_cinnamon_launcher
<1> DEFINE n == [m EXCEPT !.relaunch = FALSE]
           a == [x \in Apps |->
                   IF kind[x].launcher
                     THEN csm_app_restart(kind[x], app[x], launched)
                     ELSE app[x]]
           t == [m |-> n, app |-> a]
<1>2. m.relaunch /\ kind' = kind /\ wayland' = wayland /\ client' = client
  BY DEF restart_cinnamon_launcher
<1>3. Settings /\ Good(Now) /\ Now.m = m /\ m.phase \in 1 .. 10 /\ m \in Manager
      /\ app \in [Apps -> AppState]
      /\ \A x \in Apps : kind[x].phase \in 1 .. 8 /\ kind[x] \in DesktopFile
  BY NowIs, Files DEF IInv
<1>4. m.phase > 8 /\ ~m.timer /\ m.pending = {}
  BY <1>2, <1>3 DEF Good, GoodBut, Waits, Dormant, APPLICATION
<1>5. /\ n \in Manager /\ n.phase = m.phase /\ n.timer = m.timer
      /\ n.pending = m.pending
  BY <1>3 DEF Manager
<1>6. a \in [Apps -> AppState]
  <2>1. \A x \in Apps : csm_app_restart(kind[x], app[x], launched) \in AppState
    BY <1>3, RestartTyped
  <2>2. QED
    BY <1>3, <2>1
<1> HIDE DEF n, a
<1>7. t \in State
  BY <1>5, <1>6 DEF State
<1>8. Dormant(t)
  BY <1>3, <1>4, <1>5 DEF Dormant, APPLICATION
<1>9. Waits(t) /\ PresentBut(t, {})
  BY <1>3, <1>4, <1>5 DEF Waits, PresentBut, APPLICATION
<1>10. Handle(t)
  BY <1>1 DEF n, a
<1>11. QED
  BY <1>2, <1>7, <1>8, <1>9, <1>10, HandledAlone DEF Good, GoodBut

-----------------------------------------------------------------------------
(* The theorems.                                                           *)

LEMMA InitGood ==
    Init => IInv
<1> SUFFICES ASSUME Init PROVE IInv
  OBVIOUS
<1>1. Settings /\ client = [x \in Apps |-> NoClient]
  BY DEF Init, Settings
<1> DEFINE n == [ phase |-> EARLY_INITIALIZATION, pending |-> {},
                  timer |-> FALSE, relaunch |-> FALSE, quit |-> FALSE ]
           a(world) == [x \in Apps |-> NewApp(world[x])]
<1>2. PICK world \in [Apps -> BOOLEAN], ok \in SUBSET Apps :
        LET st == start_phase([m |-> n, app |-> a(world)], EARLY_INITIALIZATION, ok)
        IN  m = st.m /\ app = st.app
  BY DEF Init
<1> DEFINE st == [m |-> n, app |-> a(world)]
<1>3. \A x \in Apps : NewApp(world[x]) \in AppState /\ Asleep(NewApp(world[x]))
  <2> SUFFICES ASSUME NEW x \in Apps
               PROVE  NewApp(world[x]) \in AppState /\ Asleep(NewApp(world[x]))
    OBVIOUS
  <2> DEFINE w == world[x]
  <2>1. w \in BOOLEAN /\ << >> \in Seq(BOOLEAN)
    OBVIOUS
  <2> HIDE DEF w
  <2>2. NewApp(w) \in AppFields
    BY <2>1 DEF NewApp, AppFields, NoPid, ProcStates
  <2>3. NewApp(w).pid = NoPid /\ Asleep(NewApp(w))
    BY DEF NewApp, Asleep
  <2>4. QED
    BY <2>2, <2>3 DEF AppState, w
<1>4. n \in Manager
  BY DEF Manager, EARLY_INITIALIZATION, QUERY_END_SESSION
<1>5. st \in State
  BY <1>3, <1>4 DEF State
<1>6. Dormant(st)
  BY <1>1, <1>3 DEF Dormant
<1>7. EARLY_INITIALIZATION \in StartupPhases
      /\ st.m.phase <= EARLY_INITIALIZATION
  BY DEF StartupPhases, EARLY_INITIALIZATION, APPLICATION
<1> DEFINE t == start_phase(st, EARLY_INITIALIZATION, ok)
<1>8. Good(t)
  <2> HIDE DEF st
  <2>1. QED
    BY <1>1, <1>5, <1>6, <1>7, StartPhase
<1>9. m = t.m /\ app = t.app
  BY <1>2
<1> HIDE DEF t
<1>10. Now.m = t.m /\ Now.app = t.app /\ Now \in State
  BY <1>8, <1>9 DEF Now, Good, GoodBut, State
<1>11. Good(Now)
  BY <1>8, <1>10 DEF Good, GoodBut, Dormant, Waits, PresentBut
<1>12. client \in [Apps -> Client]
  BY <1>1 DEF Client
<1>13. QED
  BY <1>1, <1>11, <1>12 DEF IInv

LEMMA StepGood ==
    IInv /\ [Next]_vars => IInv'
<1> SUFFICES ASSUME IInv, [Next]_vars PROVE IInv'
  OBVIOUS
<1>1. CASE UNCHANGED vars
  <2>1. Good(Now) /\ Handle(Now)
    BY <1>1 DEF IInv, vars, Handle, Now
  <2>2. QED
    BY <1>1, <2>1, HandledAlone DEF vars
<1>2. ASSUME ~m.quit, NEW x \in Apps,
             \/ ChildExited(x) \/ DelayTimeout(x) \/ ConditionChanged(x)
             \/ RegisterClient(x) \/ ClientDisconnected(x)
             \/ ProcessEnds(x) \/ ClientLeaves(x) \/ WorldChanges(x)
             \/ MinutePasses(x)
      PROVE  IInv'
  BY <1>2, ChildExitedStep, DelayTimeoutStep, ConditionChangedStep,
     RegisterClientStep, ClientDisconnectedStep, ProcessEndsStep,
     ClientLeavesStep, WorldChangesStep, MinutePassesStep
<1>3. CASE ~m.quit /\ PhaseTimeout
  BY <1>3, PhaseTimeoutStep
<1>4. CASE ~m.quit /\ restart_cinnamon_launcher
  BY <1>4, RelaunchStep
<1>5. m \in Manager
  BY NowIs DEF IInv
<1>6. CASE ~m.quit /\ RestartCinnamonLauncher
  <2> DEFINE n == [m EXCEPT !.relaunch = TRUE]
  <2>1. n \in Manager /\ n.phase = m.phase /\ n.pending = m.pending
        /\ n.timer = m.timer
    BY <1>5 DEF Manager
  <2>2. Handle([m |-> n, app |-> app]) /\ m.phase = RUNNING
        /\ kind' = kind /\ wayland' = wayland /\ client' = client
    BY <1>6 DEF RestartCinnamonLauncher, Now, Handle
  <2> HIDE DEF n
  <2>3. QED
    BY <1>6, <2>1, <2>2, ManagerAlone DEF RUNNING, APPLICATION
<1>7. CASE ~m.quit /\ EndSession
  <2> DEFINE n == [m EXCEPT !.phase = QUERY_END_SESSION]
  <2>1. n \in Manager /\ n.phase = QUERY_END_SESSION /\ n.pending = m.pending
        /\ n.timer = m.timer
    BY <1>5 DEF Manager, EARLY_INITIALIZATION, QUERY_END_SESSION
  <2>2. Handle([m |-> n, app |-> app]) /\ m.phase = RUNNING
        /\ kind' = kind /\ wayland' = wayland /\ client' = client
    BY <1>7 DEF EndSession, Now, Handle
  <2> HIDE DEF n
  <2>3. QED
    BY <1>7, <2>1, <2>2, ManagerAlone DEF RUNNING, APPLICATION, QUERY_END_SESSION
<1>8. CASE ~m.quit /\ CancelEndSession
  <2> DEFINE n == [m EXCEPT !.phase = RUNNING]
  <2>1. n \in Manager /\ n.phase = RUNNING /\ n.pending = m.pending
        /\ n.timer = m.timer
    BY <1>5 DEF Manager, EARLY_INITIALIZATION, QUERY_END_SESSION, RUNNING
  <2>2. Handle([m |-> n, app |-> app]) /\ m.phase = QUERY_END_SESSION
        /\ kind' = kind /\ wayland' = wayland /\ client' = client
    BY <1>8 DEF CancelEndSession, Now, Handle
  <2> HIDE DEF n
  <2>3. QED
    BY <1>8, <2>1, <2>2, ManagerAlone DEF RUNNING, APPLICATION, QUERY_END_SESSION
<1>9. CASE ~m.quit /\ Quit
  <2> DEFINE n == [m EXCEPT !.quit = TRUE]
  <2>1. n \in Manager /\ n.phase = m.phase /\ n.pending = m.pending
        /\ n.timer = m.timer
    BY <1>5 DEF Manager
  <2>2. Handle([m |-> n, app |-> app]) /\ m.phase = QUERY_END_SESSION
        /\ kind' = kind /\ wayland' = wayland /\ client' = client
    BY <1>9 DEF Quit, Now, Handle
  <2> HIDE DEF n
  <2>3. QED
    BY <1>9, <2>1, <2>2, ManagerAlone DEF APPLICATION, QUERY_END_SESSION
<1>10. QED
  BY <1>1, <1>2, <1>3, <1>4, <1>6, <1>7, <1>8, <1>9 DEF Next, Terminated

\* The inductive invariant: types, what the startup waits for, and that the
\* applications of later phases are asleep.
THEOREM InvHolds == Spec => []IInv
  BY InitGood, StepGood, PTL DEF Spec

\* The records of the manager, the applications and their clients keep their
\* types through all nested handlers; an application's pid is never that of a
\* process that was reaped.
THEOREM TypeCorrect == Spec => []TypeOK
<1>1. IInv => TypeOK
  BY NowIs DEF IInv, TypeOK, Settings
<1>2. QED
  BY <1>1, InvHolds, PTL

\* While the session starts, the timer runs and somebody is waited for who was
\* started in this very phase and is followed; nothing is left of it later.
THEOREM StartupAlwaysWaits == Spec => []StartupWaits
<1>1. IInv => StartupWaits
  BY NowIs DEF IInv, Good, GoodBut, Waits, StartupWaits
<1>2. QED
  BY <1>1, InvHolds, PTL

\* Nobody is waited for who was spawned, is not restarted by others and has
\* neither a process nor an end that is still to be noticed.
THEOREM NeverWaitsForTheDead == Spec => []WaitsForTheLiving
<1>1. IInv => WaitsForTheLiving
  <2> SUFFICES ASSUME IInv, NEW x \in m.pending
               PROVE  \/ m.quit \/ kind[x].activated \/ kind[x].autorestart
                      \/ Live(app[x]) \cup Dead(app[x]) # {}
    BY DEF WaitsForTheLiving
  <2>1. x \in Apps /\ app[x] \in AppState
    BY NowIs DEF IInv, Manager
  <2>2. m.quit \/ kind[x].activated \/ kind[x].autorestart \/ Lives(app[x])
    BY NowIs DEF IInv, Good, GoodBut, PresentBut
  <2>3. Lives(app[x]) => Live(app[x]) \cup Dead(app[x]) # {}
    BY <2>1 DEF Lives, Live, Dead, AppState, AppFields, ProcStates
  <2>4. QED
    BY <2>2, <2>3
<1>2. QED
  BY <1>1, InvHolds, PTL

\* However conditions, launchers and clients behave, no application has a
\* process before its phase.
THEOREM NobodyBeforeItsPhase == Spec => []NotBeforeItsPhase
<1>1. IInv => NotBeforeItsPhase
  <2> SUFFICES ASSUME IInv, NEW x \in Apps, Live(app[x]) # {}
               PROVE  kind[x].phase <= m.phase
    BY DEF NotBeforeItsPhase
  <2>1. ~Asleep(app[x])
    BY DEF Live, Asleep
  <2>2. QED
    BY <2>1, Awake
<1>2. QED
  BY <1>1, InvHolds, PTL

-----------------------------------------------------------------------------
(* What no step of the startup does: leave a phase while somebody else is  *)
(* waited for, start an application again that has just been restarted, or *)
(* start one that its condition stopped.                                   *)
(*                                                                         *)
(* A handler is about one application x.  About(st, x, t) is what all of   *)
(* them have in common, whatever they nest: x is the only one to be taken  *)
(* off pending_apps, and the others change only if their phase has come.   *)

\* The phase is left only if nobody else is waited for.
Advances(st, x, t) ==
    \/ st.m.pending \subseteq {x}
    \/ t.m.phase = st.m.phase /\ st.m.pending \ {x} \subseteq t.m.pending

\* An application that is left alone, or whose phase has come.
Others(st, X, t) ==
    \A y \in Apps \ X :
        \/ t.app[y] = st.app[y]
        \/ /\ st.m.phase < kind[y].phase /\ kind[y].phase <= t.m.phase
           /\ \E launched \in BOOLEAN :
                t.app[y] = _start_app(kind[y], st.app[y], launched)

\* What becomes of the application of a handler: no process dies in it, and
\* one that was restarted less than a minute ago is left alone.
Restarts(k, r, t) ==
    /\ t.events = r.events /\ t.delay = r.delay
    /\ Dead(t) \subseteq Dead(r)
    /\ r.recent /\ ~k.launcher => t = r

About(st, x, t) ==
    /\ st.m.phase \in Int /\ t.m.phase \in Int /\ st.m.phase <= t.m.phase
    /\ Advances(st, x, t)
    /\ Others(st, {x}, t)
    /\ Restarts(kind[x], st.app[x], t.app[x])

LEMMA AboutItself ==
    ASSUME NEW x, NEW st, st.m.phase \in Int
    PROVE  About(st, x, st)
  BY DEF About, Advances, Others, Restarts

\* Two handlers about x, one after the other.
LEMMA AboutTwice ==
    ASSUME Settings, NEW x \in Apps, NEW st, NEW t, NEW u, About(st, x, t), About(t, x, u)
    PROVE  About(st, x, u)
<1>1. Advances(st, x, u)
  BY DEF About, Advances
<1>3. Others(st, {x}, u)
  <2> SUFFICES ASSUME NEW y \in Apps \ {x}
               PROVE  \/ u.app[y] = st.app[y]
                      \/ /\ st.m.phase < kind[y].phase /\ kind[y].phase <= u.m.phase
                         /\ \E launched \in BOOLEAN :
                              u.app[y] = _start_app(kind[y], st.app[y], launched)
    BY DEF Others
  <2>1. kind[y].phase \in Int
    BY Files
  <2> QED
    BY <2>1 DEF About, Others
<1>4. Restarts(kind[x], st.app[x], u.app[x])
  BY DEF About, Restarts
<1>5. QED
  BY <1>1, <1>3, <1>4 DEF About

-----------------------------------------------------------------------------
(* The operators.                                                          *)

LEMMA StartSlots ==
    ASSUME NEW k \in DesktopFile, NEW r \in AppState
    PROVE  LET t == csm_app_start(k, r)
           IN  /\ t.events = r.events /\ t.delay = r.delay /\ t.recent = r.recent
               /\ Dead(t) \subseteq Dead(r)
<1> DEFINE s == CHOOSE f \in Free(r) : TRUE
           t == [r EXCEPT !.pid = s, !.procs[s] = "running"]
<1>1. CASE k.activated \/ Free(r) = {}
  BY <1>1 DEF csm_app_start
<1>2. CASE ~(k.activated \/ Free(r) = {})
  <2>1. csm_app_start(k, r) = t
    BY <1>2 DEF csm_app_start
  <2>2. s \in Slots
    BY <1>2 DEF Free
  <2> HIDE DEF s
  <2>3. r \in AppFields
    BY DEF AppState
  <2>4. /\ t.events = r.events /\ t.delay = r.delay /\ t.recent = r.recent
        /\ t.procs = [r.procs EXCEPT ![s] = "running"]
    BY <2>3 DEF AppFields
  <2>5. Dead(t) \subseteq Dead(r)
    BY <2>2, <2>3, <2>4 DEF Dead, Ended, AppFields
  <2>6. QED
    BY <2>1, <2>4, <2>5
<1>3. QED
  BY <1>1, <1>2

LEMMA StopSlots ==
    ASSUME NEW k \in DesktopFile, NEW r \in AppState
    PROVE  LET t == csm_app_stop(k, r)
           IN  /\ t.events = r.events /\ t.delay = r.delay /\ t.recent = r.recent
               /\ Dead(t) \subseteq Dead(r)
<1> DEFINE t == [r EXCEPT !.procs[r.pid] = "terminating"]
<1>1. CASE k.activated \/ r.pid = NoPid \/ r.procs[r.pid] # "running"
  BY <1>1 DEF csm_app_stop
<1>2. CASE ~(k.activated \/ r.pid = NoPid \/ r.procs[r.pid] # "running")
  <2>1. csm_app_stop(k, r) = t
    BY <1>2 DEF csm_app_stop
  <2>2. r \in AppFields /\ r.pid \in Slots
    BY <1>2 DEF AppState, AppFields
  <2>3. /\ t.events = r.events /\ t.delay = r.delay /\ t.recent = r.recent
        /\ t.procs = [r.procs EXCEPT ![r.pid] = "terminating"]
    BY <2>2 DEF AppFields
  <2>4. Dead(t) \subseteq Dead(r)
    BY <2>2, <2>3 DEF Dead, Ended, AppFields
  <2>5. QED
    BY <2>1, <2>3, <2>4
<1>3. QED
  BY <1>1, <1>2

LEMMA RestartSlots ==
    ASSUME NEW k \in DesktopFile, NEW r \in AppState, NEW launches \in BOOLEAN
    PROVE  Restarts(k, r, csm_app_restart(k, r, launches))
<1> DEFINE u == [r EXCEPT !.recent = @ \/ ~k.launcher]
           v == csm_app_stop(k, u)
           w == csm_app_start(k, v)
<1>1. CASE restart_limit(k, r)
  BY <1>1 DEF csm_app_restart, Restarts
<1>2. CASE ~restart_limit(k, r)
  <2>1. r \in AppFields /\ k.launcher \in BOOLEAN
    BY DEF AppState, DesktopFile
  <2>2. (r.recent \/ ~k.launcher) \in BOOLEAN
    OBVIOUS
  <2>3. /\ u \in AppFields /\ u.pid = r.pid /\ u.procs = r.procs
        /\ u.events = r.events /\ u.delay = r.delay
    BY <2>1, <2>2 DEF AppFields
  <2>4. u \in AppState /\ Dead(u) = Dead(r)
    BY <2>3 DEF AppState, Dead
  <2>5. csm_app_restart(k, r, launches) = IF launches \/ k.activated THEN w ELSE v
    BY <1>2 DEF csm_app_restart, csm_autostart_app_restart
  <2>6. ~(r.recent /\ ~k.launcher)
    BY <1>2 DEF restart_limit
  <2> HIDE DEF u
  <2>7. v \in AppState
    BY <2>4, StopTyped
  <2>8. v.events = u.events /\ v.delay = u.delay /\ Dead(v) \subseteq Dead(u)
    BY <2>4, StopSlots
  <2> HIDE DEF v
  <2>9. w.events = v.events /\ w.delay = v.delay /\ Dead(w) \subseteq Dead(v)
    BY <2>7, StartSlots
  <2> HIDE DEF w
  <2>10. QED
    BY <2>3, <2>4, <2>5, <2>6, <2>8, <2>9 DEF Restarts
<1>3. QED
  BY <1>1, <1>2

\* A phase that starts finds an application asleep, and a delayed one stays so.
LEMMA StartAppIdle ==
    ASSUME NEW k \in DesktopFile, NEW r \in AppState, Asleep(r), NEW launched
    PROVE  LET t == _start_app(k, r, launched)
           IN  /\ t.events = r.events
               /\ t.delay => ~t.recent /\ \A s \in Slots : t.procs[s] = "free"
<1> DEFINE p == peek_is_conditionally_disabled(k, r)
           c == [p EXCEPT !.watched = TRUE]
           d == [c EXCEPT !.delay = TRUE]
           s == csm_app_start(k, c)
           f == [s EXCEPT !.followed = (k.phase < APPLICATION)]
<1>1. p \in AppState
  BY PeekTyped
<1>2. p.events = r.events /\ p.delay = r.delay /\ p.recent = r.recent
      /\ p.procs = r.procs /\ p.pid = r.pid
  BY DEF peek_is_conditionally_disabled, AppState, AppFields
<1> HIDE DEF p
<1>3. /\ c \in AppState
      /\ c.events = r.events /\ c.delay = r.delay /\ c.recent = r.recent
      /\ c.procs = r.procs
  <2>1. p \in AppFields
    BY <1>1 DEF AppState
  <2>2. c \in AppFields /\ c.pid = p.pid /\ c.procs = p.procs
        /\ c.events = p.events /\ c.delay = p.delay /\ c.recent = p.recent
    BY <2>1 DEF AppFields
  <2>3. QED
    BY <1>1, <1>2, <2>2 DEF AppState
<1> HIDE DEF c
<1>4. d.events = r.events /\ d.recent = r.recent /\ d.procs = r.procs
  BY <1>3 DEF AppState, AppFields
<1>5. s \in AppState /\ s.events = r.events /\ s.delay = r.delay
  BY <1>3, StartTyped, StartSlots
<1> HIDE DEF s
<1>6. f.events = r.events /\ f.delay = r.delay
  BY <1>5 DEF AppState, AppFields
<1>7. _start_app(k, r, launched) \in {c, d, f}
  BY DEF _start_app, c, p, s
<1> HIDE DEF d, f
<1>8. QED
  BY <1>3, <1>4, <1>6, <1>7 DEF Asleep

\* Only applications of the phases that start are touched.
LEMMA StartPhaseOthers ==
    ASSUME NEW st \in State, NEW p, NEW ok \in SUBSET Apps, NEW y \in Apps
    PROVE  LET t == start_phase(st, p, ok)
           IN  \/ t.app[y] = st.app[y]
               \/ /\ kind[y].phase \in p .. t.m.phase
                  /\ \E launched \in BOOLEAN :
                       t.app[y] = _start_app(kind[y], st.app[y], launched)
<1> DEFINE waits == {q \in p .. APPLICATION : awaited(st, q, ok) # {}}
           now == IF waits = {} THEN RUNNING
                  ELSE CHOOSE q \in waits : \A r \in waits : q <= r
           t == start_phase(st, p, ok)
<1> HIDE DEF now
<1>1. t = [ m |-> [ st.m EXCEPT !.phase = now,
                              !.pending = awaited(st, now, ok),
                              !.timer = (now < RUNNING) ],
            app |-> [ x \in Apps |->
                      IF kind[x].phase \in p .. now
                        THEN _start_app(kind[x], st.app[x], x \in ok)
                        ELSE st.app[x] ] ]
  BY DEF start_phase, now
<1>2. t.m.phase = now
  <2> DEFINE mm == [ st.m EXCEPT !.phase = now,
                                 !.pending = awaited(st, now, ok),
                                 !.timer = (now < RUNNING) ]
  <2>1. mm.phase = now
    BY DEF State, Manager
  <2>2. t.m = mm
    BY <1>1
  <2> HIDE DEF mm
  <2>3. QED
    BY <2>1, <2>2
<1>3. t.app[y] = IF kind[y].phase \in p .. now
                   THEN _start_app(kind[y], st.app[y], y \in ok)
                   ELSE st.app[y]
  BY <1>1
<1> DEFINE b == y \in ok
<1>4. b \in BOOLEAN
  OBVIOUS
<1> HIDE DEF t
<1>5. CASE kind[y].phase \in p .. now
  <2>1. t.app[y] = _start_app(kind[y], st.app[y], b)
    BY <1>3, <1>5
  <2> HIDE DEF b
  <2>2. QED
    BY <1>2, <1>4, <1>5, <2>1 DEF t
<1>6. CASE kind[y].phase \notin p .. now
  BY <1>3, <1>6 DEF t
<1>7. QED
  BY <1>5, <1>6

LEMMA EventAbout ==
    ASSUME Settings, NEW x \in Apps, NEW st, GoodBut(st, {x}),
           kind[x].phase <= st.m.phase, NEW ok \in SUBSET Apps
    PROVE  About(st, x, app_event_during_startup(st, x, ok))
<1> DEFINE rest == st.m.pending \ {x}
           u == [st EXCEPT !.m.pending = rest]
           t == app_event_during_startup(st, x, ok)
<1>1. /\ st \in State /\ Dormant(st) /\ st.m.phase \in 1 .. 10
      /\ kind[x].phase \in 1 .. 8
  BY Files DEF GoodBut, State, Manager, EARLY_INITIALIZATION, QUERY_END_SESSION
<1>2. CASE st.m.phase >= APPLICATION
  BY <1>1, <1>2, AboutItself DEF app_event_during_startup
<1>3. CASE ~(st.m.phase >= APPLICATION) /\ rest = {}
  <2>1. t = start_phase(st, st.m.phase + 1, ok)
    BY <1>3 DEF app_event_during_startup, end_phase
  <2>2. Good(t) /\ st.m.phase < t.m.phase
    BY <1>1, <1>3, <2>1, EndPhase DEF end_phase, APPLICATION
  <2>3. t.m.phase \in 1 .. 10
    BY <2>2 DEF Good, GoodBut, State, Manager, EARLY_INITIALIZATION, QUERY_END_SESSION
  <2>4. \A y \in Apps :
           \/ t.app[y] = st.app[y]
           \/ /\ kind[y].phase \in st.m.phase + 1 .. t.m.phase
              /\ \E launched \in BOOLEAN :
                   t.app[y] = _start_app(kind[y], st.app[y], launched)
    BY <1>1, <2>1, StartPhaseOthers
  <2>5. \A y \in Apps : kind[y].phase \in 1 .. 8
    BY Files
  <2> HIDE DEF t
  <2>6. t.app[x] = st.app[x]
    BY <1>1, <2>3, <2>4
  <2>7. Others(st, {x}, t)
    BY <1>1, <2>3, <2>4, <2>5 DEF Others
  <2>8. QED
    BY <1>1, <1>3, <2>2, <2>3, <2>6, <2>7 DEF About, Advances, Restarts, t
<1>4. CASE ~(st.m.phase >= APPLICATION) /\ rest # {}
  <2>1. t = u
    BY <1>4 DEF app_event_during_startup
  <2>2. u.m.phase = st.m.phase /\ u.m.pending = rest /\ u.app = st.app
    BY <1>1 DEF State, Manager
  <2> HIDE DEF u, t
  <2>3. QED
    BY <1>1, <2>1, <2>2 DEF About, Advances, Others, Restarts, t
<1>5. QED
  BY <1>2, <1>3, <1>4

\* A change of x alone, or of quit.
LEMMA ChangeAbout ==
    ASSUME NEW x \in Apps, NEW st \in State, NEW t,
           t.m.phase = st.m.phase, t.m.pending = st.m.pending,
           \A y \in Apps \ {x} : t.app[y] = st.app[y],
           Restarts(kind[x], st.app[x], t.app[x])
    PROVE  About(st, x, t)
<1>1. st.m.phase \in Int
  BY DEF State, Manager, EARLY_INITIALIZATION, QUERY_END_SESSION
<1>2. QED
  BY <1>1 DEF About, Advances, Others

LEMMA QuitAbout ==
    ASSUME NEW x \in Apps, NEW st \in State, NEW q
    PROVE  About(st, x, [st EXCEPT !.m.quit = q])
<1> DEFINE t == [st EXCEPT !.m.quit = q]
<1>1. t.m.phase = st.m.phase /\ t.m.pending = st.m.pending /\ t.app = st.app
  BY DEF State, Manager
<1>2. Restarts(kind[x], st.app[x], t.app[x])
  BY <1>1 DEF Restarts
<1> HIDE DEF t
<1>3. QED
  BY <1>1, <1>2, ChangeAbout DEF t

LEMMA RestartAbout ==
    ASSUME Settings, NEW x \in Apps, NEW st, GoodBut(st, {x}),
           kind[x].phase <= st.m.phase, NEW ok \in SUBSET Apps
    PROVE  About(st, x, _restart_app(st, x, ok))
<1> DEFINE r == csm_app_restart(kind[x], st.app[x], x \in ok)
           t == [st EXCEPT !.app[x] = r]
           q == t.m.quit \/ (wayland /\ kind[x].wm)
           f == IF kind[x].required THEN on_required_app_failure(t, x) ELSE t
           e == app_event_during_startup(f, x, ok)
<1>1. st \in State /\ st.app[x] \in AppState /\ kind[x] \in DesktopFile
      /\ st.m.phase \in Int
  BY Files DEF GoodBut, State, Manager, EARLY_INITIALIZATION, QUERY_END_SESSION
<1>2. /\ r \in AppState /\ r.followed = st.app[x].followed
      /\ Restarts(kind[x], st.app[x], r)
  <2> DEFINE b == x \in ok
  <2>1. b \in BOOLEAN
    OBVIOUS
  <2> HIDE DEF b
  <2>2. LET v == csm_app_restart(kind[x], st.app[x], b)
        IN  /\ v \in AppState /\ v.followed = st.app[x].followed
            /\ Restarts(kind[x], st.app[x], v)
    BY <1>1, <2>1, RestartTyped, RestartSlots
  <2>3. QED
    BY <2>2 DEF b
<1>3. t = [st EXCEPT !.app[x] = csm_app_restart(kind[x], @, x \in ok)]
  BY <1>1 DEF State
<1> HIDE DEF r
<1>4. GoodBut(t, {x}) /\ t.m = st.m /\ t.app[x] = r
  BY <1>2, AppChanged
<1>5. \A y \in Apps \ {x} : t.app[y] = st.app[y]
  BY <1>1 DEF State
<1>6. _restart_app(st, x, ok) =
        IF wayland /\ kind[x].wm THEN [st EXCEPT !.m.quit = TRUE]
        ELSE IF restarted(kind[x], st.app[x], x \in ok) THEN t
        ELSE e
  BY <1>3 DEF _restart_app, csm_app_restart_failed
<1> HIDE DEF t
<1>7. About(st, x, t) /\ t \in State
  BY <1>1, <1>2, <1>4, <1>5, ChangeAbout DEF GoodBut
<1>8. About(st, x, [st EXCEPT !.m.quit = TRUE])
  BY <1>1, QuitAbout
<1>9. GoodBut(f, {x}) /\ f.m.phase = st.m.phase
  BY <1>4, RequiredFailureGood
<1>10. About(t, x, f)
  <2>1. t.m.phase \in Int
    BY <1>1, <1>4
  <2>2. About(t, x, on_required_app_failure(t, x))
    BY <1>7, QuitAbout DEF on_required_app_failure
  <2>3. QED
    BY <2>1, <2>2, AboutItself
<1> HIDE DEF f
<1>11. About(f, x, e)
  BY <1>9, EventAbout
<1> HIDE DEF e
<1>12. About(st, x, e)
  BY <1>7, <1>10, <1>11, AboutTwice
<1>13. QED
  BY <1>6, <1>7, <1>8, <1>12

LEMMA DiedAbout ==
    ASSUME Settings, NEW x \in Apps, NEW st, GoodBut(st, {x}),
           kind[x].phase <= st.m.phase, NEW ok \in SUBSET Apps
    PROVE  About(st, x, app_died(st, x, ok))
<1>1. st.m.phase \in Int
  BY DEF GoodBut, State, Manager, EARLY_INITIALIZATION, QUERY_END_SESSION
<1>2. QED
  BY <1>1, RestartAbout, AboutItself DEF app_died

LEMMA ExitedAbout ==
    ASSUME Settings, NEW x \in Apps, NEW st, GoodBut(st, {x}),
           kind[x].phase <= st.m.phase, NEW ok \in SUBSET Apps, NEW how
    PROVE  About(st, x, exited(st, x, how, ok))
<1>1. st.m.phase \in Int
  BY DEF GoodBut, State, Manager, EARLY_INITIALIZATION, QUERY_END_SESSION
<1>2. QED
  BY <1>1, RestartAbout, EventAbout, AboutItself DEF exited

LEMMA DisconnectedAbout ==
    ASSUME Settings, NEW x \in Apps, NEW st, Good(st),
           kind[x].phase <= st.m.phase, NEW ok \in SUBSET Apps
    PROVE  About(st, x, disconnected(st, x, ok))
<1>1. ASSUME NEW t, Good(t), kind[x].phase <= t.m.phase, NEW c
      PROVE  About(t, x, _disconnect_client(t, x, c, ok))
  <2>1. GoodBut(t, {x}) /\ t.m.phase \in Int
    BY <1>1 DEF Good, GoodBut, PresentBut, State, Manager, EARLY_INITIALIZATION,
         QUERY_END_SESSION
  <2>2. QED
    BY <1>1, <2>1, RestartAbout, AboutItself DEF _disconnect_client
<1> DEFINE once == _disconnect_client(st, x, client[x].condition, ok)
           again == IF client[x].condition = 2 THEN 1 ELSE 0
           twice == _disconnect_client(once, x, again, ok)
<1>2. Good(once) /\ kind[x].phase <= once.m.phase
  BY DisconnectGood
<1>3. About(st, x, once)
  BY <1>1
<1>4. disconnected(st, x, ok) = IF client[x].type = "xsmp" THEN twice ELSE once
  BY DEF disconnected
<1> HIDE DEF once
<1>5. About(once, x, twice)
  BY <1>1, <1>2
<1> HIDE DEF twice
<1>6. About(st, x, twice)
  BY <1>3, <1>5, AboutTwice
<1>7. QED
  BY <1>3, <1>4, <1>6

-----------------------------------------------------------------------------
(* The steps.                                                              *)

\* What a handler finds: x may have lost a process or got a client.
Found(st, x) ==
    /\ st.m = m
    /\ \A y \in Apps \ {x} : st.app[y] = app[y]
    /\ st.app[x].events = app[x].events
    /\ st.app[x].delay = app[x].delay
    /\ st.app[x].recent = app[x].recent
    /\ Live(st.app[x]) \subseteq Live(app[x])

\* The step is about x, which has or had a process or a client.
HandledFor(x) ==
    /\ kind' = kind
    /\ \A y \in Apps \ {x} : client'[y] = client[y]
    /\ <<app[x], client[x]>>' # <<app[x], client[x]>>
    /\ Lives(app[x]) \/ client[x] # NoClient
    /\ \E st \in State, t \in State : Found(st, x) /\ About(st, x, t) /\ Handle(t)

LEMMA NowFound ==
    ASSUME Good(Now), NEW x
    PROVE  Now \in State /\ Found(Now, x)
  BY NowIs DEF Found, Good, GoodBut

LEMMA ChildExitedHandled ==
    ASSUME IInv, NEW x \in Apps, ChildExited(x)
    PROVE  HandledFor(x)
<1>1. PICK s \in Dead(app[x]), ok \in SUBSET Apps :
        LET how == app[x].procs[s]
            st == [Now EXCEPT !.app[x] = app_exited(@, s)]
        IN  /\ Handle(IF ~app[x].followed THEN st
                      ELSE IF how = "signal" THEN app_died(st, x, ok)
                                             ELSE exited(st, x, how, ok))
            /\ UNCHANGED <<kind, wayland, client>>
  BY DEF ChildExited
<1> DEFINE how == app[x].procs[s]
           r == app_exited(app[x], s)
           st == [Now EXCEPT !.app[x] = r]
           t == IF ~app[x].followed THEN st
                ELSE IF how = "signal" THEN app_died(st, x, ok)
                                       ELSE exited(st, x, how, ok)
<1>2. Settings /\ Good(Now) /\ GoodBut(Now, {x}) /\ Now.m = m /\ Now.app = app
      /\ app \in [Apps -> AppState] /\ app[x] \in AppState
  BY NowIs DEF IInv, Good, GoodBut, PresentBut
<1>3. s \in Slots /\ app[x].procs[s] \in Ended
  BY DEF Dead
<1>4. kind[x].phase <= m.phase
  BY <1>3, Awake DEF Asleep, Ended
<1>5. /\ r \in AppState /\ r.followed = app[x].followed
      /\ r.events = app[x].events /\ r.delay = app[x].delay
      /\ r.recent = app[x].recent
      /\ Live(r) \subseteq Live(app[x])
      /\ s \notin Dead(r)
  <2>1. app[x] \in AppFields
    BY <1>2 DEF AppState
  <2>2. /\ r.events = app[x].events /\ r.delay = app[x].delay
        /\ r.recent = app[x].recent
        /\ r.procs = [app[x].procs EXCEPT ![s] = "free"]
    BY <2>1 DEF app_exited, AppFields
  <2>3. Live(r) \subseteq Live(app[x]) /\ s \notin Dead(r)
    BY <1>3, <2>1, <2>2 DEF Live, Dead, AppFields, Ended
  <2>4. QED
    BY <1>2, <1>3, <2>2, <2>3, ExitTyped
<1> HIDE DEF r
<1>6. GoodBut(st, {x}) /\ st.m = m /\ st.app[x] = r
  BY <1>2, <1>4, <1>5, AppChanged
<1>7. \A y \in Apps \ {x} : st.app[y] = app[y]
  BY <1>2
<1>8. Handle(t) /\ kind' = kind /\ client' = client
  <2>1. st = [Now EXCEPT !.app[x] = app_exited(@, s)]
    BY <1>2 DEF r, Now
  <2>2. QED
    BY <1>1, <2>1
<1> HIDE DEF st
<1>9. About(st, x, t)
  <2>1. st.m.phase \in Int /\ kind[x].phase <= st.m.phase
    BY <1>4, <1>6 DEF GoodBut, State, Manager, EARLY_INITIALIZATION, QUERY_END_SESSION
  <2>2. QED
    BY <1>2, <1>6, <2>1, AboutItself, DiedAbout, ExitedAbout
<1>10. t \in State
  <2>1. st \in State /\ kind[x].phase <= st.m.phase
    BY <1>4, <1>6 DEF GoodBut
  <2>2. QED
    BY <1>2, <1>6, <2>1, DiedGood, ExitedGood DEF Good, GoodBut
<1> HIDE DEF t
<1>11. app'[x] # app[x]
  <2>1. s \in Dead(app[x])
    OBVIOUS
  <2>2. s \notin Dead(t.app[x])
    BY <1>5, <1>6, <1>9 DEF About, Restarts
  <2>3. app' = t.app
    BY <1>8 DEF Handle
  <2>4. QED
    BY <2>1, <2>2, <2>3
<1>12. Lives(app[x])
  BY <1>3 DEF Lives, Ended
<1>13. st \in State /\ Found(st, x)
  BY <1>5, <1>6, <1>7 DEF Found, GoodBut
<1>14. <<app[x], client[x]>>' # <<app[x], client[x]>>
  BY <1>11
<1>15. QED
  BY <1>8, <1>9, <1>10, <1>12, <1>13, <1>14 DEF HandledFor

LEMMA RegisterClientHandled ==
    ASSUME IInv, NEW x \in Apps, RegisterClient(x)
    PROVE  HandledFor(x)
<1>1. PICK ok \in SUBSET Apps : Handle(app_registered(Now, x, ok))
  BY DEF RegisterClient
<1>2. PICK s \in Slots, immediately \in BOOLEAN :
        /\ app[x].procs[s] = "running"
        /\ client' = [client EXCEPT ![x] =
             [proc |-> s, type |-> kind[x].client, immediately |-> immediately,
              left |-> FALSE, condition |-> 0]]
  BY DEF RegisterClient
<1>3. client[x] = NoClient /\ kind' = kind
  BY DEF RegisterClient, Registered
<1>4. Settings /\ Good(Now) /\ GoodBut(Now, {x}) /\ Now.m = m
      /\ client \in [Apps -> Client] /\ m.phase \in Int
  BY NowIs DEF IInv, Good, GoodBut, PresentBut
<1>5. kind[x].phase <= m.phase /\ Lives(app[x])
  BY <1>2, Awake DEF Asleep, Lives
<1> DEFINE t == app_registered(Now, x, ok)
<1>6. About(Now, x, t)
  BY <1>4, <1>5, EventAbout, AboutItself DEF app_registered
<1>7. t \in State
  BY <1>4, <1>5, EventGood DEF app_registered, Good, GoodBut
<1> HIDE DEF t
<1>8. client'[x] # client[x]
  <2>1. client'[x].proc = s /\ client[x].proc = NoPid
    BY <1>2, <1>3, <1>4 DEF NoClient
  <2>2. s # NoPid
    BY DEF Slots, NoPid
  <2>3. QED
    BY <2>1, <2>2
<1>9. <<app[x], client[x]>>' # <<app[x], client[x]>>
  BY <1>8
<1>10. Now \in State /\ Found(Now, x)
  BY <1>4, NowFound
<1>11. Handle(t)
  BY <1>1 DEF t
<1>12. \A y \in Apps \ {x} : client'[y] = client[y]
  BY <1>2, <1>4
<1>13. QED
  BY <1>3, <1>5, <1>6, <1>7, <1>9, <1>10, <1>11, <1>12 DEF HandledFor

LEMMA ClientDisconnectedHandled ==
    ASSUME IInv, NEW x \in Apps, ClientDisconnected(x)
    PROVE  HandledFor(x)
<1>1. PICK ok \in SUBSET Apps : Handle(disconnected(Now, x, ok))
  BY DEF ClientDisconnected
<1>2. client[x] # NoClient /\ client' = [client EXCEPT ![x] = NoClient]
      /\ kind' = kind
  BY DEF ClientDisconnected, Registered
<1>3. Settings /\ Good(Now) /\ Now.m = m /\ client \in [Apps -> Client]
  BY NowIs DEF IInv
<1>4. kind[x].phase <= m.phase
  BY <1>2, Awake
<1> DEFINE t == disconnected(Now, x, ok)
<1>5. About(Now, x, t) /\ t \in State
  BY <1>3, <1>4, DisconnectedAbout, DisconnectedGood DEF Good, GoodBut
<1> HIDE DEF t
<1>6. client'[x] # client[x] /\ \A y \in Apps \ {x} : client'[y] = client[y]
  BY <1>2, <1>3
<1>7. <<app[x], client[x]>>' # <<app[x], client[x]>>
  BY <1>6
<1>8. Now \in State /\ Found(Now, x)
  BY <1>3, NowFound
<1>9. Handle(t)
  BY <1>1 DEF t
<1>10. QED
  BY <1>2, <1>5, <1>6, <1>7, <1>8, <1>9 DEF HandledFor

\* The other steps are about one application at most, and change no phase of
\* the startup.
LEMMA OneApp ==
    ASSUME IInv, NEW x \in Apps,
           \/ DelayTimeout(x) \/ ConditionChanged(x) \/ ProcessEnds(x)
           \/ ClientLeaves(x) \/ WorldChanges(x) \/ MinutePasses(x)
    PROVE  /\ kind' = kind /\ m' = m
           /\ \A y \in Apps \ {x} : app'[y] = app[y] /\ client'[y] = client[y]
<1>1. Now.m = m /\ Now.app = app /\ app \in [Apps -> AppState]
      /\ client \in [Apps -> Client]
  BY NowIs DEF IInv
<1>2. CASE DelayTimeout(x)
  BY <1>1, <1>2 DEF DelayTimeout, Handle, Now
<1>3. CASE ConditionChanged(x)
  BY <1>1, <1>3 DEF ConditionChanged, Handle, Now
<1>4. CASE ProcessEnds(x)
  BY <1>1, <1>4 DEF ProcessEnds
<1>5. CASE ClientLeaves(x)
  BY <1>1, <1>5 DEF ClientLeaves
<1>6. CASE WorldChanges(x) \/ MinutePasses(x)
  BY <1>1, <1>6 DEF WorldChanges, MinutePasses
<1>7. QED
  BY <1>2, <1>3, <1>4, <1>5, <1>6

\* What every step is.
LEMMA Steps ==
    ASSUME IInv, [Next]_vars
    PROVE  \/ UNCHANGED vars
           \/ ~m.quit /\ \E x \in Apps : HandledFor(x)
           \/ ~m.quit /\ \E x \in Apps :
                \/ DelayTimeout(x) \/ ConditionChanged(x) \/ ProcessEnds(x)
                \/ ClientLeaves(x) \/ WorldChanges(x) \/ MinutePasses(x)
           \/ ~m.quit /\ PhaseTimeout
           \/ ~m.quit /\ restart_cinnamon_launcher
           \/ /\ m.phase >= RUNNING
              /\ kind' = kind /\ app' = app /\ client' = client
<1>1. CASE Terminated \/ UNCHANGED vars
  BY <1>1 DEF Terminated
<1>2. CASE ~m.quit /\ \E x \in Apps :
             ChildExited(x) \/ RegisterClient(x) \/ ClientDisconnected(x)
  BY <1>2, ChildExitedHandled, RegisterClientHandled, ClientDisconnectedHandled
<1>3. CASE RestartCinnamonLauncher \/ EndSession \/ CancelEndSession \/ Quit
  BY <1>3 DEF RestartCinnamonLauncher, EndSession, CancelEndSession, Quit, Handle,
     Now, RUNNING, QUERY_END_SESSION
<1>4. QED
  BY <1>1, <1>2, <1>3 DEF Next

-----------------------------------------------------------------------------
(* Leaving a phase.                                                        *)

LEMMA PhaseLeft ==
    ASSUME IInv, ~m.quit, m.phase < APPLICATION, m'.phase # m.phase,
           NEW x \in Apps, HandledFor(x)
    PROVE  m.pending = {x}
<1>1. PICK st \in State, t \in State : Found(st, x) /\ About(st, x, t) /\ Handle(t)
  BY DEF HandledFor
<1>2. m.pending \subseteq {x}
  BY <1>1 DEF Found, About, Advances, Handle
<1>3. m.phase \in 1 .. 10 /\ m.pending # {}
  BY NowIs DEF IInv, Good, GoodBut, Waits, APPLICATION
<1>4. QED
  BY <1>2, <1>3

\* A phase of the startup is left when its time is up, or when the only
\* application still waited for ends, registers, leaves or is given up.
THEOREM NobodyEverOvertaken == Spec => NobodyIsOvertaken
<1>1. ASSUME IInv, [Next]_vars, m.phase < APPLICATION, m'.phase # m.phase
      PROVE  \/ PhaseTimeout
             \/ \E x \in Apps : /\ m.pending = {x}
                               /\ <<app[x], client[x]>>' # <<app[x], client[x]>>
  <2>1. m.phase \in 1 .. 10
    BY <1>1, NowIs DEF IInv
  <2>2. CASE ~m.quit /\ \E x \in Apps : HandledFor(x)
    BY <1>1, <2>2, PhaseLeft DEF HandledFor
  <2>3. CASE \E x \in Apps :
               \/ DelayTimeout(x) \/ ConditionChanged(x) \/ ProcessEnds(x)
               \/ ClientLeaves(x) \/ WorldChanges(x) \/ MinutePasses(x)
    BY <1>1, <2>3, OneApp
  <2>4. CASE restart_cinnamon_launcher
    <3>1. m.relaunch
      BY <2>4 DEF restart_cinnamon_launcher
    <3>2. m.phase > APPLICATION
      BY <1>1, <3>1, NowIs DEF IInv, Good, GoodBut, Dormant
    <3>3. QED
      BY <1>1, <2>1, <3>2 DEF APPLICATION
  <2>5. CASE m.phase >= RUNNING
    BY <1>1, <2>1, <2>5 DEF APPLICATION, RUNNING
  <2>6. CASE UNCHANGED vars
    BY <1>1, <2>6 DEF vars
  <2>7. QED
    BY <1>1, <2>2, <2>3, <2>4, <2>5, <2>6, Steps
<1>2. IInv /\ [Next]_vars =>
        [ m.phase < APPLICATION /\ m'.phase # m.phase =>
            \/ PhaseTimeout
            \/ \E x \in Apps : m.pending = {x} /\ <<app[x], client[x]>>' # <<app[x], client[x]>>
        ]_vars
  BY <1>1
<1>3. QED
  BY <1>2, InvHolds, PTL DEF Spec, NobodyIsOvertaken

-----------------------------------------------------------------------------
(* A client that its condition stopped.                                    *)

\* Only the departure of a client makes an application be without one.
LEMMA OnlyDeparture ==
    ASSUME IInv, [Next]_vars, NEW x \in Apps,
           client[x].condition > 0, client'[x] = NoClient
    PROVE  ~m.quit /\ ClientDisconnected(x)
<1>1. client \in [Apps -> Client] /\ client[x] \in Client
  BY DEF IInv
<1>2. client[x] # NoClient /\ client[x].proc # NoPid
  <2>1. client[x] # NoClient
    BY <1>1 DEF NoClient
  <2>2. QED
    BY <1>1, <2>1 DEF Client, Slots, NoPid
<1>3. NoClient.proc = NoPid
  BY DEF NoClient
<1>4. ASSUME client' = client PROVE FALSE
  BY <1>2, <1>4
<1>5. ASSUME NEW y \in Apps, ConditionChanged(y) PROVE FALSE
  <2>1. CASE client' = client
    BY <1>4, <2>1
  <2>2. CASE client' = [client EXCEPT ![y].condition = @ + 1]
    <3>1. client'[x].proc = client[x].proc
      BY <1>1, <1>2, <2>2 DEF Client
    <3>2. QED
      BY <1>2, <1>3, <3>1
  <2>3. QED
    BY <1>5, <2>1, <2>2 DEF ConditionChanged
<1>6. ASSUME NEW y \in Apps, RegisterClient(y) PROVE FALSE
  <2>1. PICK s \in Slots, immediately \in BOOLEAN :
          client' = [client EXCEPT ![y] =
            [proc |-> s, type |-> kind[y].client, immediately |-> immediately,
             left |-> FALSE, condition |-> 0]]
    BY <1>6 DEF RegisterClient
  <2>2. y # x
    BY <1>2, <1>6 DEF RegisterClient, Registered
  <2>3. QED
    BY <1>1, <1>2, <2>1, <2>2
<1>7. ASSUME NEW y \in Apps, ClientDisconnected(y), y # x PROVE FALSE
  BY <1>1, <1>2, <1>7 DEF ClientDisconnected
<1>8. ASSUME NEW y \in Apps, ProcessEnds(y) \/ ClientLeaves(y) PROVE FALSE
  <2>1. PICK b : client' = [client EXCEPT ![y].left = b]
    BY <1>1, <1>8 DEF ProcessEnds, ClientLeaves
  <2>2. client'[x].proc = client[x].proc
    BY <1>1, <1>2, <2>1 DEF Client
  <2>3. QED
    BY <1>2, <1>3, <2>2
<1>9. ASSUME NEW y \in Apps,
             ChildExited(y) \/ DelayTimeout(y) \/ WorldChanges(y) \/ MinutePasses(y)
      PROVE  FALSE
  BY <1>4, <1>9 DEF ChildExited, DelayTimeout, WorldChanges, MinutePasses
<1>10. ASSUME \/ PhaseTimeout \/ RestartCinnamonLauncher \/ restart_cinnamon_launcher
              \/ EndSession \/ CancelEndSession \/ Quit \/ Terminated \/ UNCHANGED vars
       PROVE  FALSE
  BY <1>4, <1>10 DEF PhaseTimeout, RestartCinnamonLauncher, restart_cinnamon_launcher,
     EndSession, CancelEndSession, Quit, Terminated, vars
<1>11. QED
  BY <1>5, <1>6, <1>7, <1>8, <1>9, <1>10 DEF Next

\* A D-Bus client that its condition told to stop, and that stops, is not
\* started again by its own departure.
THEOREM StoppedAlwaysStays == Spec => StoppedStaysStopped
<1>1. ASSUME IInv, [Next]_vars, NEW x \in Apps,
             client[x].condition > 0, client[x].type = "dbus", client'[x] = NoClient
      PROVE  Live(app'[x]) \subseteq Live(app[x])
  <2>1. PICK ok \in SUBSET Apps : Handle(disconnected(Now, x, ok))
    BY <1>1, OnlyDeparture DEF ClientDisconnected
  <2>2. disconnected(Now, x, ok) = Now
    BY <1>1 DEF disconnected, _disconnect_client
  <2>3. QED
    BY <2>1, <2>2 DEF Handle, Now
<1>2. IInv /\ [Next]_vars =>
        [ \A x \in Apps :
            /\ client[x].condition > 0 /\ client[x].type = "dbus"
            /\ client'[x] = NoClient
          => Live(app'[x]) \subseteq Live(app[x]) ]_vars
  BY <1>1
<1>3. QED
  BY <1>2, InvHolds, PTL DEF Spec, StoppedStaysStopped

-----------------------------------------------------------------------------
(* Restarts.  The timer of a delayed start does not ask whether the        *)
(* application runs or was restarted: what keeps it from being another     *)
(* route around the limit is that an application without a condition was   *)
(* never started while its timer runs.                                     *)

Unstarted(k, r, c) ==
    k.condition = "none" =>
        /\ r.events = << >>
        /\ r.delay /\ ~k.launcher =>
             ~r.recent /\ c = NoClient /\ \A s \in Slots : r.procs[s] = "free"

DelayedAreUnstarted == \A x \in Apps : Unstarted(kind[x], app[x], client[x])

\* What a handler about one application does to the others.
LEMMA OtherApp ==
    ASSUME IInv, NEW x \in Apps, NEW y \in Apps \ {x}, HandledFor(x)
    PROVE  \/ app'[y] = app[y]
           \/ /\ Asleep(app[y]) /\ client[y] = NoClient
              /\ \E launched \in BOOLEAN :
                   app'[y] = _start_app(kind[y], app[y], launched)
<1>1. PICK st \in State, t \in State : Found(st, x) /\ About(st, x, t) /\ Handle(t)
  BY DEF HandledFor
<1>2. app' = t.app /\ st.app[y] = app[y] /\ st.m = m
  BY <1>1 DEF Handle, Found
<1>3. kind[y].phase \in Int /\ m.phase \in Int
  BY Files, NowIs DEF IInv
<1>4. \/ app'[y] = app[y]
      \/ /\ m.phase < kind[y].phase
         /\ \E launched \in BOOLEAN :
              app'[y] = _start_app(kind[y], app[y], launched)
  BY <1>1, <1>2 DEF About, Others
<1>5. m.phase < kind[y].phase => Asleep(app[y]) /\ client[y] = NoClient
  BY <1>3, Awake
<1>6. QED
  BY <1>4, <1>5

\* The same of the timer of a phase.
LEMMA TimeoutApp ==
    ASSUME IInv, ~m.quit, PhaseTimeout, NEW y \in Apps
    PROVE  \/ app'[y] = app[y]
           \/ /\ Asleep(app[y]) /\ client[y] = NoClient
              /\ \E launched \in BOOLEAN :
                   app'[y] = _start_app(kind[y], app[y], launched)
<1>1. PICK ok \in SUBSET Apps : Handle(on_phase_timeout(Now, ok))
  BY DEF PhaseTimeout
<1>2. Now.m = m /\ Now.app = app /\ m \in Manager /\ app \in [Apps -> AppState]
      /\ m.phase \in Int /\ kind[y].phase \in Int
  BY NowIs, Files DEF IInv
<1> DEFINE lost == {z \in Now.m.pending : kind[z].required}
           q == Now.m.quit \/ \E z \in lost : wayland /\ kind[z].wm
           u == [Now EXCEPT !.m.timer = FALSE, !.m.quit = q]
           t == start_phase(u, m.phase + 1, ok)
<1>3. q \in BOOLEAN
  BY <1>2 DEF Manager
<1> HIDE DEF q
<1>4. u \in State /\ u.app = app /\ u.m.phase = m.phase
  BY <1>2, <1>3 DEF Now, State, Manager
<1>5. on_phase_timeout(Now, ok) = t
  BY <1>4 DEF on_phase_timeout, end_phase, q
<1> HIDE DEF u
<1>6. \/ t.app[y] = app[y]
      \/ /\ kind[y].phase \in m.phase + 1 .. t.m.phase
         /\ \E launched \in BOOLEAN :
              t.app[y] = _start_app(kind[y], app[y], launched)
  BY <1>4, StartPhaseOthers
<1>7. app' = t.app
  BY <1>1, <1>5 DEF Handle
<1> HIDE DEF t
<1>8. kind[y].phase \in m.phase + 1 .. t.m.phase => Asleep(app[y]) /\ client[y] = NoClient
  <2>1. kind[y].phase \in m.phase + 1 .. t.m.phase => kind[y].phase > m.phase
    BY <1>2
  <2>2. QED
    BY <1>2, <2>1, Awake
<1>9. QED
  BY <1>6, <1>7, <1>8

\* An application that is asleep and whose phase starts.
LEMMA StartedUnstarted ==
    ASSUME IInv, DelayedAreUnstarted, NEW y \in Apps, Asleep(app[y]),
           client[y] = NoClient, NEW launched
    PROVE  Unstarted(kind[y], _start_app(kind[y], app[y], launched), NoClient)
<1>1. app[y] \in AppState /\ kind[y] \in DesktopFile
  BY NowIs, Files DEF IInv
<1>2. QED
  BY <1>1, StartAppIdle DEF DelayedAreUnstarted, Unstarted

LEMMA HandledUnstarted ==
    ASSUME IInv, DelayedAreUnstarted, NEW x \in Apps, HandledFor(x)
    PROVE  DelayedAreUnstarted'
<1>1. ASSUME NEW y \in Apps \ {x}
      PROVE  Unstarted(kind[y], app'[y], client'[y])
  <2>1. client'[y] = client[y]
    BY DEF HandledFor
  <2>2. QED
    BY <1>1, <2>1, OtherApp, StartedUnstarted DEF DelayedAreUnstarted
<1>2. Unstarted(kind[x], app'[x], client'[x])
  <2>1. PICK st \in State, t \in State : Found(st, x) /\ About(st, x, t) /\ Handle(t)
    BY DEF HandledFor
  <2>2. app'[x].events = app[x].events /\ app'[x].delay = app[x].delay
    BY <2>1 DEF Found, About, Restarts, Handle
  <2>3. Lives(app[x]) \/ client[x] # NoClient
    BY DEF HandledFor
  <2>4. QED
    BY <2>2, <2>3 DEF DelayedAreUnstarted, Unstarted, Lives
<1>3. kind' = kind
  BY DEF HandledFor
<1>4. QED
  BY <1>1, <1>2, <1>3 DEF DelayedAreUnstarted

\* One application alone changes.
LEMMA AloneUnstarted ==
    ASSUME IInv, DelayedAreUnstarted, NEW x \in Apps,
           \/ DelayTimeout(x) \/ ConditionChanged(x) \/ ProcessEnds(x)
           \/ ClientLeaves(x) \/ WorldChanges(x) \/ MinutePasses(x)
    PROVE  DelayedAreUnstarted'
<1>1. /\ kind' = kind
      /\ \A y \in Apps \ {x} : app'[y] = app[y] /\ client'[y] = client[y]
  BY OneApp
<1>2. /\ app \in [Apps -> AppState] /\ app[x] \in AppState /\ app[x] \in AppFields
      /\ client \in [Apps -> Client] /\ Now.app = app /\ kind[x] \in DesktopFile
  BY NowIs, Files DEF IInv, AppState
<1>3. Unstarted(kind[x], app[x], client[x])
  BY DEF DelayedAreUnstarted
<1>4. ASSUME kind[x].condition = "none" PROVE Unstarted(kind[x], app'[x], client'[x])
  <2>1. CASE DelayTimeout(x)
    <3>1. PICK launched \in BOOLEAN :
            Handle([Now EXCEPT !.app[x] = _autostart_delay_timeout(kind[x], @, launched)])
      BY <2>1 DEF DelayTimeout
    <3> DEFINE c == [app[x] EXCEPT !.delay = FALSE]
               s == csm_app_start(kind[x], c)
    <3>2. /\ c \in AppFields /\ c.pid = app[x].pid /\ c.procs = app[x].procs
          /\ c.events = app[x].events /\ c.delay = FALSE
      BY <1>2 DEF AppFields
    <3>3. c \in AppState
      BY <1>2, <3>2 DEF AppState
    <3>4. _autostart_delay_timeout(kind[x], app[x], launched) \in {c, s}
      BY <1>4 DEF _autostart_delay_timeout, peek_is_conditionally_disabled
    <3> HIDE DEF c
    <3>5. s.events = c.events /\ s.delay = c.delay
      BY <1>2, <3>3, StartSlots
    <3> HIDE DEF s
    <3>6. app'[x] \in {c, s}
      BY <1>2, <3>1, <3>4 DEF Handle, Now
    <3>7. QED
      BY <1>3, <1>4, <3>2, <3>5, <3>6 DEF Unstarted
  <2>2. CASE ConditionChanged(x)
    BY <1>3, <1>4, <2>2 DEF ConditionChanged, Unstarted
  <2>3. CASE ProcessEnds(x)
    <3>1. PICK s \in Live(app[x]), how \in Ended \cup {"exit0"} :
            app' = [app EXCEPT ![x].procs[s] = how]
      BY <2>3 DEF ProcessEnds
    <3>2. app[x].procs[s] # "free" /\ s \in Slots
      BY DEF Live
    <3>3. app'[x].events = app[x].events /\ app'[x].delay = app[x].delay
      BY <1>2, <3>1 DEF AppFields
    <3>4. QED
      BY <1>3, <3>2, <3>3 DEF Unstarted
  <2>4. CASE ClientLeaves(x)
    BY <1>3, <2>4 DEF ClientLeaves, Registered, Unstarted
  <2>5. CASE WorldChanges(x)
    BY <1>4, <2>5 DEF WorldChanges
  <2>6. CASE MinutePasses(x)
    <3>1. /\ app'[x].events = app[x].events /\ app'[x].delay = app[x].delay
          /\ app'[x].procs = app[x].procs /\ ~app'[x].recent
          /\ client' = client
      BY <1>2, <2>6 DEF MinutePasses, AppFields
    <3>2. QED
      BY <1>3, <3>1 DEF Unstarted
  <2>7. QED
    BY <2>1, <2>2, <2>3, <2>4, <2>5, <2>6
<1>5. QED
  BY <1>1, <1>4 DEF DelayedAreUnstarted, Unstarted

LEMMA RelaunchUnstarted ==
    ASSUME IInv, DelayedAreUnstarted, restart_cinnamon_launcher
    PROVE  /\ DelayedAreUnstarted'
           /\ \A x \in Apps : ~kind[x].launcher => app'[x] = app[x]
<1>1. PICK launched \in BOOLEAN :
        /\ kind' = kind /\ client' = client
        /\ app' = [x \in Apps |->
                     IF kind[x].launcher
                       THEN csm_app_restart(kind[x], app[x], launched)
                       ELSE app[x]]
  BY DEF restart_cinnamon_launcher, Handle
<1>2. ASSUME NEW x \in Apps PROVE app'[x].events = app[x].events
  <2>1. app[x] \in AppState /\ kind[x] \in DesktopFile
    BY NowIs, Files DEF IInv
  <2>2. csm_app_restart(kind[x], app[x], launched).events = app[x].events
    BY <2>1, RestartSlots DEF Restarts
  <2>3. QED
    BY <1>1, <2>2
<1>3. \A x \in Apps : ~kind[x].launcher => app'[x] = app[x]
  BY <1>1
<1>4. QED
  BY <1>1, <1>2, <1>3 DEF DelayedAreUnstarted, Unstarted

LEMMA StepUnstarted ==
    ASSUME IInv, DelayedAreUnstarted, [Next]_vars
    PROVE  DelayedAreUnstarted'
<1>1. CASE ~m.quit /\ PhaseTimeout
  <2>1. kind' = kind /\ client' = client
    BY <1>1 DEF PhaseTimeout
  <2>2. ASSUME NEW y \in Apps PROVE Unstarted(kind[y], app'[y], client[y])
    BY <1>1, TimeoutApp, StartedUnstarted DEF DelayedAreUnstarted
  <2>3. QED
    BY <2>1, <2>2 DEF DelayedAreUnstarted
<1>2. CASE /\ kind' = kind /\ app' = app /\ client' = client
  BY <1>2 DEF DelayedAreUnstarted
<1>3. CASE UNCHANGED vars
  BY <1>3 DEF vars, DelayedAreUnstarted
<1>4. QED
  BY <1>1, <1>2, <1>3, Steps, HandledUnstarted, AloneUnstarted, RelaunchUnstarted

LEMMA InitUnstarted ==
    Init => DelayedAreUnstarted
<1> SUFFICES ASSUME Init, NEW y \in Apps
             PROVE  Unstarted(kind[y], app[y], client[y])
  BY DEF DelayedAreUnstarted
<1> DEFINE n == [ phase |-> EARLY_INITIALIZATION, pending |-> {},
                  timer |-> FALSE, relaunch |-> FALSE, quit |-> FALSE ]
           a(world) == [x \in Apps |-> NewApp(world[x])]
<1>1. PICK world \in [Apps -> BOOLEAN], ok \in SUBSET Apps :
        app = start_phase([m |-> n, app |-> a(world)], EARLY_INITIALIZATION, ok).app
  BY DEF Init
<1> DEFINE r == NewApp(world[y])
           st == [m |-> n, app |-> a(world)]
<1>2. \A x \in Apps : NewApp(world[x]) \in AppState
  <2> SUFFICES ASSUME NEW x \in Apps PROVE NewApp(world[x]) \in AppState
    OBVIOUS
  <2> DEFINE w == world[x]
  <2>1. w \in BOOLEAN /\ << >> \in Seq(BOOLEAN)
    OBVIOUS
  <2> HIDE DEF w
  <2>2. NewApp(w) \in AppFields /\ NewApp(w).pid = NoPid
    BY <2>1 DEF NewApp, AppFields, NoPid, ProcStates
  <2>3. QED
    BY <2>2 DEF AppState, w
<1>3. n \in Manager
  BY DEF Manager, EARLY_INITIALIZATION, QUERY_END_SESSION
<1>4. st \in State /\ st.app[y] = r
  BY <1>2, <1>3 DEF State
<1>5. kind[y] \in DesktopFile /\ client[y] = NoClient
  BY Files DEF Init, Settings
<1>6. Asleep(r) /\ r.events = << >> /\ r \in AppState
  BY <1>2 DEF NewApp, Asleep
<1> HIDE DEF st, r
<1>7. \/ app[y] = r
      \/ \E launched \in BOOLEAN : app[y] = _start_app(kind[y], r, launched)
  <2>1. app = start_phase(st, EARLY_INITIALIZATION, ok).app
    BY <1>1 DEF st
  <2>2. QED
    BY <1>4, <2>1, StartPhaseOthers
<1>8. QED
  BY <1>5, <1>6, <1>7, StartAppIdle DEF Unstarted, Asleep

\* An application without a condition was never started while the timer of
\* its delayed start runs.
THEOREM DelayedNeverStarted == Spec => []DelayedAreUnstarted
  BY InvHolds, InitUnstarted, StepUnstarted, PTL DEF Spec

LEMMA HandledLimited ==
    ASSUME IInv, NEW x \in Apps, HandledFor(x),
           NEW z \in Apps, app[z].recent, ~kind[z].launcher
    PROVE  Live(app'[z]) \subseteq Live(app[z])
<1>1. CASE z = x
  <2>1. PICK st \in State, t \in State : Found(st, x) /\ About(st, x, t) /\ Handle(t)
    BY DEF HandledFor
  <2>2. st.app[x].recent /\ Live(st.app[x]) \subseteq Live(app[x])
    BY <1>1, <2>1 DEF Found
  <2>3. t.app[x] = st.app[x]
    BY <1>1, <2>1, <2>2 DEF About, Restarts
  <2>4. QED
    BY <1>1, <2>1, <2>2, <2>3 DEF Handle
<1>2. CASE z # x
  <2>1. app'[z] = app[z]
    BY <1>2, OtherApp DEF Asleep
  <2>2. QED
    BY <2>1
<1>3. QED
  BY <1>1, <1>2

LEMMA AloneLimited ==
    ASSUME IInv, DelayedAreUnstarted, NEW x \in Apps,
           \/ DelayTimeout(x) \/ ConditionChanged(x) \/ ProcessEnds(x)
           \/ ClientLeaves(x) \/ WorldChanges(x) \/ MinutePasses(x),
           NEW z \in Apps, app[z].recent, ~kind[z].launcher,
           kind[z].condition = "none"
    PROVE  Live(app'[z]) \subseteq Live(app[z])
<1>1. CASE z # x
  BY <1>1, OneApp
<1>2. CASE z = x
  <2>1. app \in [Apps -> AppState] /\ app[x] \in AppFields
    BY NowIs DEF IInv, AppState
  <2>2. app[x].events = << >> /\ ~app[x].delay
    BY <1>2 DEF DelayedAreUnstarted, Unstarted
  <2>3. CASE ProcessEnds(x)
    <3>1. PICK s \in Live(app[x]), how \in Ended \cup {"exit0"} :
            app' = [app EXCEPT ![x].procs[s] = how]
      BY <2>3 DEF ProcessEnds
    <3>2. how \notin {"running", "terminating"}
      BY DEF Ended
    <3>3. app'[x].procs = [app[x].procs EXCEPT ![s] = how]
      BY <2>1, <3>1 DEF AppFields
    <3>4. QED
      BY <1>2, <2>1, <3>2, <3>3 DEF Live, AppFields
  <2>4. CASE ClientLeaves(x)
    BY <2>4 DEF ClientLeaves
  <2>5. CASE MinutePasses(x)
    <3>1. app'[x].procs = app[x].procs
      BY <2>1, <2>5 DEF MinutePasses, AppFields
    <3>2. QED
      BY <1>2, <3>1 DEF Live
  <2>6. QED
    BY <1>2, <2>2, <2>3, <2>4, <2>5 DEF DelayTimeout, ConditionChanged, WorldChanges
<1>3. QED
  BY <1>1, <1>2

\* Restarts are limited over all routes to one: the failure of a component, a
\* client that leaves, and the timer of a delayed start.
THEOREM RestartsAlwaysLimited == Spec => RestartsAreLimited
<1>1. ASSUME IInv, DelayedAreUnstarted, [Next]_vars, NEW z \in Apps,
             app[z].recent, ~kind[z].launcher, kind[z].condition = "none"
      PROVE  Live(app'[z]) \subseteq Live(app[z])
  <2>1. CASE ~m.quit /\ PhaseTimeout
    <3>1. app'[z] = app[z]
      BY <1>1, <2>1, TimeoutApp DEF Asleep
    <3>2. QED
      BY <3>1
  <2>2. CASE restart_cinnamon_launcher
    <3>1. app'[z] = app[z]
      BY <1>1, <2>2, RelaunchUnstarted
    <3>2. QED
      BY <3>1
  <2>3. CASE app' = app \/ UNCHANGED vars
    BY <2>3 DEF vars
  <2>4. QED
    BY <1>1, <2>1, <2>2, <2>3, Steps, HandledLimited, AloneLimited
<1>2. IInv /\ DelayedAreUnstarted /\ [Next]_vars =>
        [ \A x \in Apps :
            /\ app[x].recent /\ app'[x].recent /\ ~kind[x].launcher
            /\ kind[x].condition = "none"
          => Live(app'[x]) \subseteq Live(app[x]) ]_vars
  BY <1>1
<1>3. QED
  BY <1>2, InvHolds, DelayedNeverStarted, PTL DEF Spec, RestartsAreLimited
=============================================================================
