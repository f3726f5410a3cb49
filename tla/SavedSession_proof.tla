------------------------- MODULE SavedSession_proof -------------------------
(***************************************************************************)
(* Proofs about SavedSession, for every set of installed files, session    *)
(* files and programs, and every number of logins.                         *)
(***************************************************************************)
EXTENDS SavedSession, FiniteSetTheorems, WellFoundedInduction, TLAPS

-----------------------------------------------------------------------------
(* The inductive invariant.                                                *)

Item == [kind : {"required"}, name : STRING, provides : SUBSET Services]
          \cup [kind : {"dir"}, left : SUBSET Names, files : Installed \cup {saved}]

Job == [session : DOMAIN Sessions \cup {None}, todo : Seq(Item),
        keyfile : Keyfile \cup {NoKeyfile}, failsafe : BOOLEAN, restored : BOOLEAN,
        left : SUBSET Client, hash : SUBSET (0..MaxState), open : Names \cup {None},
        then : {"none", "whole", "cleared", "error"}]

Apps == a = [apps |-> a.apps, required |-> a.required]

Types ==
    /\ Directory(saved) /\ Directory(tmp) /\ Directory(a.apps) /\ Apps
    /\ \A n \in DOMAIN a.apps : a.apps[n].startup # None
    /\ a.required \subseteq DOMAIN a.apps
    /\ states \subseteq 1..MaxState
    /\ phase \in {"off", "asking", "loading", "running", "saving", "clearing"}
    /\ clients \subseteq Client /\ IsFiniteSet(clients) /\ Cardinality(clients) <= MaxClients
    /\ job \in Job
    /\ ended \in {"never", "whole", "cleared", "error", "crash", "abort"}
    /\ logins \in 0..MaxLogins

\* Where the session is, and what its job holds.
Stages ==
    /\ phase \in {"off", "asking"} => a.apps = Empty
    /\ phase = "asking" => job.session \in DOMAIN Sessions /\ logins < MaxLogins
    /\ phase # "loading" => job.todo = << >>
    /\ phase \in {"loading", "running"} =>
         job.keyfile \in Keyfile /\ check_required(job.keyfile)
    /\ job.restored => ~job.failsafe
    /\ job.left \subseteq clients
    /\ phase # "saving" => job.left = {}
    /\ phase = "clearing" => job.then # "none"
    /\ \A i \in 1..Len(job.todo) :
          job.todo[i].kind = "dir" => job.todo[i].left \subseteq DOMAIN job.todo[i].files

\* A file that is named by a startup id is that client's, from the directory
\* to the app and to the client that the app becomes, and back to the file.
OwnName(d) == \A n \in DOMAIN d : n \in Ids => d[n].startup = n
Named ==
    /\ OwnName(saved) /\ OwnName(tmp) /\ OwnName(a.apps)
    /\ \A n \in DOMAIN saved : saved[n].startup # None
    /\ \A n \in DOMAIN tmp : tmp[n].startup # None
    /\ \A c \in clients : c.app \in Ids => c.startup = c.app
    /\ \A c, e \in clients : c.startup = e.startup => c = e

\* d has the file of each of these clients, and no other, and their states are
\* not to be discarded.
FileOf(d, n, c) ==
    /\ d[n].startup = c.startup /\ d[n].state = c.state
    /\ n \in {c.app, c.startup}
HasAll(d, cs, hash) ==
    /\ IsFiniteSet(DOMAIN d)
    /\ \A n \in DOMAIN d : \E c \in cs : c.restart /\ FileOf(d, n, c)
    /\ \A c \in cs : c.restart =>
         c.state \in hash /\ \E n \in DOMAIN d : d[n].startup = c.startup
    /\ \A n, m \in DOMAIN d : d[n].startup = d[m].startup => n = m

Exists(s) == s = 0 \/ s \in states

Saves ==
    /\ phase \in {"loading", "running", "saving"} => \A c \in clients : Exists(c.state)
    /\ phase = "saving" \/ (phase = "clearing" /\ job.then = "whole") =>
         /\ HasAll(tmp, clients \ job.left, job.hash)
         /\ \A s \in job.hash : Exists(s)

Whole == /\ StartupIds(saved) = {c.startup : c \in {e \in clients : e.restart}}
         /\ Cardinality(DOMAIN saved) = Cardinality(StartupIds(saved))
         /\ \A n \in DOMAIN saved : saved[n].state = 0 \/ saved[n].state \in states
Saved == phase \in {"off", "asking"} /\ ended = "whole" => Whole

\* A file of the saved session is still to be added, and the apps that were
\* added by their names before, were found in the saved session.
Waiting(n) ==
    /\ \E i \in 1..Len(job.todo) :
         /\ job.todo[i].kind = "dir" /\ job.todo[i].files = saved /\ n \in job.todo[i].left
         /\ \A j \in 1..i-1 : job.todo[j].kind = "required"
    /\ n \in DOMAIN a.apps => a.apps[n].startup = saved[n].startup
Back(n) ==
    \/ saved[n].startup \in StartupIds(a.apps)
    \/ csm_manager_get_app_is_blacklisted(n)
    \/ \E s \in saved[n].provides : Provide(a, s) # {}
Restored ==
    phase \in {"loading", "running"} /\ job.restored =>
        \A n \in DOMAIN saved : Waiting(n) \/ Back(n)

Todo(name, provides) ==
    \E i \in 1..Len(job.todo) :
        /\ job.todo[i].kind = "required" /\ job.todo[i].name = name
        /\ job.todo[i].provides = provides
Required ==
    phase \in {"loading", "running"} =>
        /\ \A n \in ToSet(job.keyfile.components) : Todo(n, {}) \/ IsRequiredByName(n)
        /\ \A p \in ToSet(job.keyfile.providers) :
             Todo(p[2], {p[1]}) \/ IsRequired({p[1]}) \/ IsRequiredByName(p[2])

IInv == Types /\ Stages /\ Named /\ Saves /\ Saved /\ Restored /\ Required

-----------------------------------------------------------------------------
(* What is found in a list of directories.                                 *)

\* A set of numbers has a least one: the least element of a well-founded order.
LEMMA LeastOfSet ==
    ASSUME NEW T \in SUBSET Nat, T # {}
    PROVE  Min(T) \in T /\ \A y \in T : Min(T) <= y
<1> DEFINE R == {ss \in Nat \X Nat : ss[1] < ss[2]}
<1>1. IsWellFoundedOn(R, Nat)
  <2>1. OpToRel(<, Nat) = R
    BY Zenon DEF OpToRel
  <2> QED
    BY <2>1, NatLessThanWellFounded, Zenon
<1>2. PICK x \in T : \A y \in T : ~(<<y, x>> \in R)
  <2> HIDE DEF R
  <2> QED
    BY <1>1, WFMin
<1>3. ASSUME NEW y \in T PROVE x <= y
  <2>1. x \in Nat /\ y \in Nat
    OBVIOUS
  <2>2. <<y, x>> \in Nat \X Nat
    BY <2>1
  <2>3. ~(y < x)
    BY <1>2, <2>2
  <2> QED
    BY <2>1, <2>3
<1> QED
  BY <1>3 DEF Min

\* What is found is a file of one of the directories, under its own name.
LEMMA FindInFinds ==
    ASSUME NEW dirs \in Seq(Installed \cup {saved}), NEW name,
           FindIn(dirs, name).name # None
    PROVE  LET f == FindIn(dirs, name)
           IN  \E i \in 1..Len(dirs) : /\ f.name \in DOMAIN dirs[i]
                                       /\ f.file = dirs[i][f.name]
                                       /\ \A j \in 1..i-1 : f.name \notin DOMAIN dirs[j]
<1> DEFINE having(n) == {i \in DOMAIN dirs : n \in DOMAIN dirs[i]}
           file(n) == [name |-> n, file |-> dirs[Min(having(n))][n]]
           vendor == "gnome-" \o name
           f == FindIn(dirs, name)
<1>1. f = IF having(name) # {} THEN file(name)
          ELSE IF having(vendor) # {} THEN file(vendor)
          ELSE [name |-> None]
  BY Zenon DEF FindIn
<1> HIDE DEF vendor
<1>2. PICK n : having(n) # {} /\ f = file(n)
  <2> HIDE DEF having
  <2> QED
    BY <1>1
<1>3. having(n) \in SUBSET Nat /\ DOMAIN dirs = 1..Len(dirs)
  OBVIOUS
<1>4. Min(having(n)) \in having(n) /\ \A j \in having(n) : Min(having(n)) <= j
  <2> HIDE DEF having
  <2> QED
    BY <1>2, <1>3, LeastOfSet
<1> DEFINE i == Min(having(n))
<1>5. i \in 1..Len(dirs) /\ n \in DOMAIN dirs[i]
  BY <1>3, <1>4
<1>6. \A j \in 1..i-1 : n \notin DOMAIN dirs[j]
  <2> SUFFICES ASSUME NEW j \in 1..i-1, n \in DOMAIN dirs[j] PROVE FALSE
    OBVIOUS
  <2>1. j \in having(n)
    BY <1>3, <1>5
  <2>2. i <= j
    <3> HIDE DEF having
    <3> QED
      BY <1>4, <2>1
  <2> HIDE DEF i
  <2> QED
    BY <1>5, <2>2
<1>7. f.name = n /\ f.file = dirs[i][n]
  <2> HIDE DEF having
  <2> QED
    BY <1>2
<1> QED
  <2> HIDE DEF having, i, f
  <2> QED
    BY <1>5, <1>6, <1>7 DEF f

\* A list of directories that begins with more of them finds what it found.
LEMMA FoundInMore ==
    ASSUME NEW name, FindIn(desktop_dirs(<< >>, TRUE), name).name # None, Directory(saved)
    PROVE  FindIn(desktop_dirs(<<saved>>, TRUE), name).name # None
<1> DEFINE few == desktop_dirs(<< >>, TRUE)
           more == desktop_dirs(<<saved>>, TRUE)
           having(dirs, n) == {i \in DOMAIN dirs : n \in DOMAIN dirs[i]}
           file(dirs, n) == [name |-> n, file |-> dirs[Min(having(dirs, n))][n]]
           vendor == "gnome-" \o name
           found(dirs) == IF having(dirs, name) # {} THEN file(dirs, name)
                          ELSE IF having(dirs, vendor) # {} THEN file(dirs, vendor)
                          ELSE [name |-> None]
<1>1. FindIn(few, name) = found(few) /\ FindIn(more, name) = found(more)
  BY Zenon DEF FindIn
<1>2. \A i \in DOMAIN few : i + 1 \in DOMAIN more /\ more[i+1] = few[i]
  BY InstalledAssumption DEF desktop_dirs
<1>3. DOMAIN more = 1..Len(more)
  BY InstalledAssumption DEF desktop_dirs
<1>4. \A i \in DOMAIN more : i # 1 => i - 1 \in DOMAIN few /\ more[i] = few[i-1]
  BY InstalledAssumption DEF desktop_dirs
<1>5. more[1] = saved
  BY InstalledAssumption DEF desktop_dirs
<1>6. None \notin DOMAIN saved
  BY InstalledAssumption DEF Directory
<1>0. FindIn(few, name).name # None
  OBVIOUS
<1> SUFFICES FindIn(more, name).name # None
  OBVIOUS
<1> HIDE DEF few, more
<1>7. \A n : having(few, n) # {} => having(more, n) # {}
  BY <1>2
<1>8. ASSUME having(more, None) # {} PROVE having(few, None) # {}
  BY <1>4, <1>5, <1>6, <1>8
<1> HIDE DEF vendor, having
<1>9. having(few, name) # {} => name # None
  BY <1>0, <1>1
<1>10. CASE having(few, name) # {}
  BY <1>1, <1>7, <1>9, <1>10
<1>11. CASE having(few, name) = {}
  <2>1. having(few, vendor) # {} /\ vendor # None
    BY <1>0, <1>1, <1>11
  <2>2. having(more, name) # {} => name # None
    BY <1>8, <1>11
  <2> QED
    BY <1>1, <1>7, <2>1, <2>2
<1> QED
  BY <1>10, <1>11

-----------------------------------------------------------------------------
(* An app is added.                                                        *)

IsApps(e) ==
    /\ e = [apps |-> e.apps, required |-> e.required] /\ Directory(e.apps)
    /\ e.required \subseteq DOMAIN e.apps
    /\ \A m \in DOMAIN e.apps : e.apps[m].startup # None

\* e is b with the app under the name n, or with what does its service.
Added(e, b, n, app, provides, required) ==
    /\ IsApps(e)
    /\ b.required \subseteq e.required
    /\ DOMAIN b.apps \subseteq DOMAIN e.apps
    /\ DOMAIN e.apps \subseteq DOMAIN b.apps \cup {n}
    /\ \A m \in DOMAIN b.apps : /\ e.apps[m].startup = b.apps[m].startup
                               /\ b.apps[m].provides \subseteq e.apps[m].provides
    /\ n \notin DOMAIN b.apps /\ n \in DOMAIN e.apps => e.apps[n].startup = app.startup
    /\ \/ n \in DOMAIN e.apps
       \/ \E s \in provides \cup app.provides : Provide(b, s) # {}
    /\ required => \/ n \in e.required
                   \/ \E s \in provides \cup app.provides : Provide(e, s) \cap e.required # {}

\* What is there already is as good as what would have been added.
LEMMA RequireAdds ==
    ASSUME NEW b, NEW n, NEW app, NEW provides, NEW required \in BOOLEAN, NEW m,
           NEW s \in provides \cup app.provides, m \in Provide(b, s), IsApps(b)
    PROVE  Added(Require(b, m, required), b, n, app, provides, required)
<1>1. m \in DOMAIN b.apps
  BY DEF Provide
<1>2. CASE ~required
  <2>1. Require(b, m, required) = b
    BY <1>2 DEF Require
  <2> QED
    BY <1>2, <2>1 DEF Added, IsApps
<1>3. CASE required
  <2> DEFINE e == Require(b, m, required)
  <2>1. e = [b EXCEPT !.required = @ \cup {m}]
    BY <1>3 DEF Require
  <2>2. e = [apps |-> b.apps, required |-> b.required \cup {m}]
    BY <2>1 DEF IsApps
  <2>3. Provide(e, s) = Provide(b, s) /\ m \in e.required
    BY <2>2 DEF Provide
  <2>4. e.apps = b.apps /\ e.required = b.required \cup {m}
    BY <2>2
  <2> HIDE DEF e
  <2>5. IsApps(e)
    BY <1>1, <2>2, <2>4 DEF IsApps
  <2>6. Added(e, b, n, app, provides, required)
    BY <2>3, <2>4, <2>5 DEF Added
  <2> QED
    BY <2>6 DEF e
<1> QED
  BY <1>2, <1>3

\* The app is put into the list, or an old one gets what it provides.
LEMMA AppendAdds ==
    ASSUME NEW b, IsApps(b), NEW n \in Names, NEW app \in File, app.startup # None,
           NEW provides \in SUBSET Services, NEW required \in BOOLEAN
    PROVE  Added(append_app(b, n, app, provides, required), b, n, app, provides, required)
<1> DEFINE new == IF n \in DOMAIN b.apps
                  THEN [b.apps[n] EXCEPT !.provides = @ \cup provides] ELSE app
           apps == Put(b.apps, n, new)
           e == append_app(b, n, app, provides, required)
<1>1. \A m \in DOMAIN b.apps : b.apps[m] \in File /\ b.apps[m].startup # None
  BY DEF IsApps, Directory
<1>3. /\ new \in File /\ new.startup # None
      /\ n \notin DOMAIN b.apps => new.startup = app.startup
      /\ n \in DOMAIN b.apps => /\ new.startup = b.apps[n].startup
                                /\ b.apps[n].provides \subseteq new.provides
  <2>1. CASE n \in DOMAIN b.apps
    <3>1. new = [b.apps[n] EXCEPT !.provides = @ \cup provides] /\ b.apps[n] \in File
      BY <1>1, <2>1
    <3> HIDE DEF new
    <3> QED
      BY <1>1, <2>1, <3>1 DEF File
  <2>2. CASE n \notin DOMAIN b.apps
    BY <2>2
  <2> QED
    BY <2>1, <2>2
<1> HIDE DEF new
<1>4. /\ DOMAIN apps = DOMAIN b.apps \cup {n} /\ apps = [m \in DOMAIN apps |-> apps[m]]
      /\ \A m \in DOMAIN b.apps : m # n => apps[m] = b.apps[m]
      /\ apps[n] = new
  BY DEF Put
<1>5. e = [apps |-> apps, required |-> IF required THEN b.required \cup {n} ELSE b.required]
  <2>1. e = Require([b EXCEPT !.apps = Put(@, n, new)], n, required)
    BY Zenon DEF append_app, new
  <2>2. [b EXCEPT !.apps = Put(@, n, new)] = [apps |-> apps, required |-> b.required]
    BY DEF IsApps
  <2> HIDE DEF e, apps
  <2>3. e = Require([apps |-> apps, required |-> b.required], n, required)
    BY <2>1, <2>2
  <2> QED
    BY <2>3 DEF Require
<1> HIDE DEF apps, e
<1>6. e.apps = apps /\ e = [apps |-> e.apps, required |-> e.required]
  BY <1>5
<1>7. b.required \subseteq e.required /\ e.required \subseteq DOMAIN apps
  BY <1>4, <1>5 DEF IsApps
<1>8. required => n \in e.required
  BY <1>5
<1>9. Directory(apps) /\ \A m \in DOMAIN apps : apps[m].startup # None
  BY <1>1, <1>3, <1>4 DEF Directory, IsApps
<1>10. IsApps(e)
  BY <1>6, <1>7, <1>9 DEF IsApps
<1>11. \A m \in DOMAIN b.apps : /\ apps[m].startup = b.apps[m].startup
                               /\ b.apps[m].provides \subseteq apps[m].provides
  BY <1>3, <1>4
<1>12. Added(e, b, n, app, provides, required)
  BY <1>3, <1>4, <1>6, <1>7, <1>8, <1>10, <1>11 DEF Added
<1> QED
  BY <1>12 DEF e

\* The old apps stay, with at least what they provided; the new one is there
\* unless one of its services is; and it is required, or what has its place is.
LEMMA AddAdds ==
    ASSUME NEW b, IsApps(b), NEW n \in Names, NEW app \in File, app.startup # None,
           NEW provides \in SUBSET Services, NEW required \in BOOLEAN
    PROVE  Added(add_autostart_app_internal(b, n, app, provides, required),
                 b, n, app, provides, required)
<1> DEFINE already(services) == UNION {Provide(b, s) : s \in services}
           dup(services) == CHOOSE m \in already(services) : TRUE
           e == add_autostart_app_internal(b, n, app, provides, required)
<1>1. ASSUME NEW services, already(services) # {}, services \subseteq provides \cup app.provides
      PROVE  Added(Require(b, dup(services), required), b, n, app, provides, required)
  <2>1. dup(services) \in already(services)
    <3> HIDE DEF already
    <3> QED
      BY <1>1
  <2>2. PICK s \in services : dup(services) \in Provide(b, s)
    <3> HIDE DEF dup
    <3> QED
      BY <2>1
  <2> HIDE DEF dup
  <2> QED
    BY <1>1, <2>2, RequireAdds
<1>2. CASE already(provides) # {}
  <2>1. e = Require(b, dup(provides), required)
    BY <1>2, Zenon DEF add_autostart_app_internal
  <2> HIDE DEF already, dup
  <2> QED
    BY <1>1, <1>2, <2>1, Zenon
<1>3. CASE already(provides) = {} /\ already(app.provides) # {}
  <2>1. e = Require(b, dup(app.provides), required)
    BY <1>3, Zenon DEF add_autostart_app_internal
  <2>2. app.provides \subseteq provides \cup app.provides
    OBVIOUS
  <2> HIDE DEF already, dup
  <2> QED
    BY <1>1, <1>3, <2>1, <2>2, Zenon
<1>4. CASE already(provides) = {} /\ already(app.provides) = {}
  <2> DEFINE new == [app EXCEPT !.provides = @ \cup provides]
  <2>1. e = append_app(b, n, new, provides, required)
    BY <1>4, Zenon DEF add_autostart_app_internal
  <2>2. new \in File /\ new.startup = app.startup /\ new.provides = provides \cup app.provides
    BY DEF File
  <2> HIDE DEF new
  <2>3. Added(e, b, n, new, provides, required)
    BY <2>1, <2>2, AppendAdds
  <2> HIDE DEF e
  <2>4. provides \cup new.provides = provides \cup app.provides
    BY <2>2
  <2> QED
    BY <2>2, <2>3, <2>4, Zenon DEF Added, e
<1> QED
  <2> HIDE DEF already, dup, e
  <2>1. CASE already(provides) # {} \/ already(app.provides) # {}
    BY <1>2, <1>3, <2>1
  <2> QED
    BY <1>4, <2>1

-----------------------------------------------------------------------------
(* The steps of a login.                                                   *)

LEMMA EmptyFacts ==
    /\ Directory(Empty) /\ DOMAIN Empty = {} /\ OwnName(Empty)
    /\ IsApps([apps |-> Empty, required |-> {}])
<1>1. DOMAIN Empty = {} /\ Empty = [n \in DOMAIN Empty |-> Empty[n]]
  BY DEF Empty
<1>2. Directory(Empty)
  BY <1>1, Zenon DEF Directory
<1> HIDE DEF Empty
<1> QED
  BY <1>1, <1>2 DEF OwnName, IsApps

LEMMA IdleFacts ==
    /\ Idle \in Job /\ Idle.todo = << >> /\ Idle.left = {} /\ Idle.hash = {}
    /\ Idle.restored = FALSE /\ Idle.failsafe = FALSE /\ Idle.then = "none"
    /\ Idle.keyfile = NoKeyfile
BY DEF Idle, Job

LEMMA InitHolds == Init => IInv
<1> SUFFICES ASSUME Init PROVE IInv
  OBVIOUS
<1>1. Types
  <2>1. IsFiniteSet(clients) /\ Cardinality(clients) = 0
    BY FS_EmptySet DEF Init
  <2> QED
    BY <2>1, EmptyFacts, IdleFacts, SavedSessionAssumption DEF Init, Types, IsApps, Apps
<1>2. Stages
  BY IdleFacts DEF Init, Stages
<1>3. Named
  BY EmptyFacts DEF Init, Named
<1>4. Saves /\ Saved /\ Restored /\ Required
  BY DEF Init, Saves, Saved, Restored, Required
<1> QED
  BY <1>1, <1>2, <1>3, <1>4 DEF IInv

\* What the clauses about the filling say only depends on these.
LEMMA FillingStays ==
    ASSUME Restored, Required, UNCHANGED <<saved, a, job, phase>>
    PROVE  Restored' /\ Required'
BY DEF Restored, Required, Waiting, Back, Todo, IsRequired, IsRequiredByName, StartupIds,
       csm_util_find_desktop_file_for_app_name

LEMMA NotFilling ==
    ASSUME phase' \notin {"loading", "running"}
    PROVE  Restored' /\ Required'
BY DEF Restored, Required

LEMMA FillStep ==
    ASSUME IInv, csm_session_fill
    PROVE  IInv'
<1> DEFINE new == [Idle EXCEPT !.session = Session]
<1>1. new \in Job /\ new.todo = << >> /\ new.left = {} /\ new.restored = FALSE /\ new.session = Session
  BY IdleFacts, InstalledAssumption DEF Job, Idle
<1>2. job' = new /\ phase' = "asking" /\ phase = "off"
  BY DEF csm_session_fill
<1> HIDE DEF new
<1> USE DEF csm_session_fill
<1>3. Types'
  BY <1>1, <1>2 DEF IInv, Types, Apps, Job, Item
<1>4. Stages'
  BY <1>1, <1>2, InstalledAssumption DEF IInv, Stages
<1>5. Named'
  BY DEF IInv, Named, OwnName
<1>6. Saves' /\ Saved'
  BY <1>2 DEF IInv, Saves, Saved, Whole, StartupIds
<1>7. Restored' /\ Required'
  BY <1>2, NotFilling
<1> QED
  BY <1>3, <1>4, <1>5, <1>6, <1>7 DEF IInv

\* A session file that is found is one that is there.
LEMMA ValidKeyfile ==
    ASSUME NEW s \in DOMAIN Sessions, find_valid_session_keyfile(s).valid
    PROVE  /\ find_valid_session_keyfile(s) \in Keyfile
           /\ find_valid_session_keyfile(s) \in ToSet(Sessions[s])
<1> DEFINE valid == {i \in DOMAIN Sessions[s] : IsValid(Sessions[s][i])}
           k == find_valid_session_keyfile(s)
<1>1. k = IF valid = {} THEN NoKeyfile ELSE Sessions[s][Min(valid)]
  BY Zenon DEF find_valid_session_keyfile
<1>2. Sessions[s] \in Seq(Keyfile \cup {NoKeyfile})
  BY InstalledAssumption
<1>3. valid \in SUBSET Nat /\ valid \subseteq DOMAIN Sessions[s]
  BY <1>2
<1>4. k.valid
  OBVIOUS
<1> HIDE DEF valid, k
<1>5. NoKeyfile.valid = FALSE
  BY DEF NoKeyfile
<1>6. valid # {} /\ k = Sessions[s][Min(valid)]
  BY <1>1, <1>4, <1>5
<1>7. Min(valid) \in DOMAIN Sessions[s]
  BY <1>3, <1>6, LeastOfSet
<1>8. k \in Keyfile \cup {NoKeyfile}
  BY <1>2, <1>6, <1>7
<1>9. k \in ToSet(Sessions[s])
  BY <1>6, <1>7 DEF ToSet
<1> QED
  BY <1>4, <1>5, <1>8, <1>9 DEF k

\* What the parts of a list hold, the list holds.
Joined2(t, u, v) ==
    /\ Len(t) = Len(u) + Len(v)
    /\ \A i \in 1..Len(u) : t[i] = u[i]
    /\ \A i \in 1..Len(v) : t[Len(u) + i] = v[i]
Joined3(t, u, v, w) ==
    /\ Len(t) = Len(u) + Len(v) + Len(w)
    /\ \A i \in 1..Len(u) : t[i] = u[i]
    /\ \A i \in 1..Len(v) : t[Len(u) + i] = v[i]
    /\ \A i \in 1..Len(w) : t[Len(u) + Len(v) + i] = w[i]

LEMMA TwoParts ==
    ASSUME NEW S, NEW u \in Seq(S), NEW v \in Seq(S)
    PROVE  u \o v \in Seq(S) /\ Joined2(u \o v, u, v)
BY DEF Joined2

LEMMA ThreeParts ==
    ASSUME NEW S, NEW u \in Seq(S), NEW v \in Seq(S), NEW w \in Seq(S)
    PROVE  u \o v \o w \in Seq(S) /\ Joined3(u \o v \o w, u, v, w)
<1> DEFINE x == u \o v
           t == x \o w
<1>1. x \in Seq(S) /\ Joined2(x, u, v)
  BY TwoParts
<1> HIDE DEF x
<1>2. t \in Seq(S) /\ Joined2(t, x, w)
  BY <1>1, TwoParts
<1> HIDE DEF t
<1>4. Len(u) \in Nat /\ Len(v) \in Nat /\ Len(w) \in Nat
  OBVIOUS
<1>5. \A i \in 1..Len(u) : t[i] = u[i]
  BY <1>1, <1>2, <1>4 DEF Joined2
<1>6. \A i \in 1..Len(v) : t[Len(u) + i] = v[i]
  <2> TAKE i \in 1..Len(v)
  <2>1. Len(u) + i \in 1..Len(x)
    BY <1>1, <1>4 DEF Joined2
  <2> QED
    BY <1>1, <1>2, <2>1 DEF Joined2
<1>7. Joined3(t, u, v, w)
  BY <1>1, <1>2, <1>4, <1>5, <1>6 DEF Joined2, Joined3
<1> QED
  BY <1>2, <1>7 DEF t, x

LEMMA ListOfDirs ==
    ASSUME Directory(saved), NEW ds, ds \in Seq(Installed \cup {saved})
    PROVE  /\ Dirs(ds) \in Seq(Item) /\ Len(Dirs(ds)) = Len(ds)
           /\ \A i \in 1..Len(ds) :
                Dirs(ds)[i] = [kind |-> "dir", left |-> DOMAIN ds[i], files |-> ds[i]]
<1>1. \A d \in Installed \cup {saved} : DOMAIN d \subseteq Names
  BY DEF Names, Directory
<1>2. \A i \in 1..Len(ds) : [kind |-> "dir", left |-> DOMAIN ds[i], files |-> ds[i]] \in Item
  BY <1>1 DEF Item
<1>3. Dirs(ds) \in [1..Len(ds) -> Item]
  BY <1>2 DEF Dirs
<1>4. Len(ds) \in Nat
  OBVIOUS
<1> QED
  BY <1>3, <1>4 DEF Dirs

\* t is what is to be added for the key file k: all its required components
\* and services, and the saved session before any other directory.
DirsInside(t) == \A i \in 1..Len(t) : t[i].kind = "dir" => t[i].left \subseteq DOMAIN t[i].files
HasComponents(t, k) ==
    \A n \in ToSet(k.components) :
        \E i \in 1..Len(t) : /\ t[i].kind = "required" /\ t[i].name = n /\ t[i].provides = {}
HasProviders(t, k) ==
    \A p \in ToSet(k.providers) :
        \E i \in 1..Len(t) : /\ t[i].kind = "required" /\ t[i].name = p[2]
                             /\ t[i].provides = {p[1]}
HasSaved(t) ==
    \E i \in 1..Len(t) :
        /\ t[i].kind = "dir" /\ t[i].left = DOMAIN saved /\ t[i].files = saved
        /\ \A j \in 1..i-1 : t[j].kind = "required"

LEMMA LoadList ==
    ASSUME Directory(saved), NEW s \in DOMAIN Sessions,
           NEW k \in Keyfile, k \in ToSet(Sessions[s]),
           NEW failsafe \in BOOLEAN, NEW autosave \in BOOLEAN
    PROVE  LET t == load_standard_apps(k, saved, failsafe, autosave)
           IN  /\ t \in Seq(Item) /\ DirsInside(t) /\ HasComponents(t, k) /\ HasProviders(t, k)
               /\ autosave /\ ~failsafe => HasSaved(t)
<1> DEFINE cs == Components(k)
           ps == Providers(k)
           ds == IF failsafe THEN << >>
                 ELSE IF autosave THEN <<saved>> \o AutostartDirs ELSE AutostartDirs
           t == load_standard_apps(k, saved, failsafe, autosave)
<1>1. cs \in Seq(Item) /\ Len(cs) = Len(k.components)
      /\ \A i \in 1..Len(cs) :
            cs[i] = [kind |-> "required", name |-> k.components[i], provides |-> {}]
  <2>1. k.components \in Seq(STRING)
    BY DEF Keyfile
  <2>2. cs \in [1..Len(k.components) -> Item]
    BY <2>1 DEF Components, Item
  <2>3. Len(k.components) \in Nat
    BY <2>1
  <2>4. cs \in Seq(Item) /\ Len(cs) = Len(k.components)
    <3> HIDE DEF cs
    <3> QED
      BY <2>2, <2>3
  <2>5. \A i \in 1..Len(k.components) :
           cs[i] = [kind |-> "required", name |-> k.components[i], provides |-> {}]
    BY <2>1 DEF Components
  <2> QED
    BY <2>4, <2>5, Zenon
<1>2. ps \in Seq(Item) /\ Len(ps) = Len(k.providers)
      /\ \A i \in 1..Len(ps) :
            ps[i] = [kind |-> "required", name |-> k.providers[i][2],
                     provides |-> {k.providers[i][1]}]
  <2>1. k.providers \in Seq(STRING \X STRING)
    BY DEF Keyfile
  <2>2. \A i \in 1..Len(k.providers) : k.providers[i][1] \in Services
    <3> TAKE i \in 1..Len(k.providers)
    <3>1. k \in UNION {ToSet(Sessions[r]) : r \in DOMAIN Sessions}
      OBVIOUS
    <3>2. i \in DOMAIN k.providers
      BY <2>1
    <3>3. k.providers[i][1] \in UNION {{m.providers[j][1] : j \in DOMAIN m.providers} :
                                        m \in UNION {ToSet(Sessions[r]) : r \in DOMAIN Sessions}}
      BY <3>1, <3>2
    <3> QED
      BY <3>3 DEF Services
  <2>3. ps \in [1..Len(k.providers) -> Item]
    BY <2>1, <2>2 DEF Providers, Item
  <2>4. Len(k.providers) \in Nat
    BY <2>1
  <2>5. ps \in Seq(Item) /\ Len(ps) = Len(k.providers)
    <3> HIDE DEF ps
    <3> QED
      BY <2>3, <2>4
  <2>6. \A i \in 1..Len(k.providers) :
           ps[i] = [kind |-> "required", name |-> k.providers[i][2],
                    provides |-> {k.providers[i][1]}]
    BY <2>1 DEF Providers
  <2> QED
    BY <2>5, <2>6, Zenon
<1>3. ds \in Seq(Installed \cup {saved})
  <2>1. AutostartDirs \in Seq(Installed \cup {saved})
    BY InstalledAssumption DEF Installed
  <2>2. <<saved>> \o AutostartDirs \in Seq(Installed \cup {saved})
    BY <2>1
  <2>3. << >> \in Seq(Installed \cup {saved})
    OBVIOUS
  <2> QED
    BY <2>1, <2>2, <2>3
<1>4. Dirs(ds) \in Seq(Item) /\ Len(Dirs(ds)) = Len(ds)
      /\ \A i \in 1..Len(ds) :
            Dirs(ds)[i] = [kind |-> "dir", left |-> DOMAIN ds[i], files |-> ds[i]]
  BY <1>3, ListOfDirs
<1>5. t = cs \o Dirs(ds) \o ps
  <2>1. CASE failsafe
    BY <2>1 DEF load_standard_apps, Dirs
  <2>2. CASE ~failsafe /\ autosave
    <3>1. t = cs \o (Dirs(<<saved>>) \o Dirs(AutostartDirs)) \o ps
      BY <2>2 DEF load_standard_apps
    <3>2. Dirs(ds) = Dirs(<<saved>>) \o Dirs(AutostartDirs)
      BY <2>2, InstalledAssumption DEF Dirs
    <3> QED
      BY <3>1, <3>2
  <2>3. CASE ~failsafe /\ ~autosave
    <3>1. Dirs(AutostartDirs) \in Seq(Item)
      BY <1>4, <2>3
    <3>2. t = cs \o (<< >> \o Dirs(AutostartDirs)) \o ps
      BY <2>3 DEF load_standard_apps
    <3> QED
      BY <2>3, <3>1, <3>2
  <2> QED
    BY <2>1, <2>2, <2>3
<1>6. autosave /\ ~failsafe => Len(ds) > 0 /\ ds[1] = saved
  BY InstalledAssumption
<1> DEFINE l == Dirs(ds)
<1> HIDE DEF cs, ps, ds, t, l
<1>7. /\ t \in Seq(Item) /\ Len(t) = Len(cs) + Len(l) + Len(ps)
      /\ \A i \in 1..Len(cs) : t[i] = cs[i]
      /\ \A i \in 1..Len(l) : t[Len(cs) + i] = l[i]
      /\ \A i \in 1..Len(ps) : t[Len(cs) + Len(l) + i] = ps[i]
  <2>1. cs \in Seq(Item) /\ l \in Seq(Item) /\ ps \in Seq(Item) /\ t = cs \o l \o ps
    BY <1>1, <1>2, <1>4, <1>5 DEF l
  <2>2. cs \o l \o ps \in Seq(Item) /\ Joined3(cs \o l \o ps, cs, l, ps)
    BY <2>1, ThreeParts
  <2> QED
    BY <2>1, <2>2 DEF Joined3
<1>8. Len(cs) \in Nat /\ Len(l) \in Nat /\ Len(ps) \in Nat
  BY <1>1, <1>2, <1>4 DEF l
<1>13. \A i \in 1..Len(cs) : cs[i].kind = "required"
  <2> TAKE i \in 1..Len(cs)
  <2>1. cs[i] = [kind |-> "required", name |-> k.components[i], provides |-> {}]
    BY <1>1, Zenon
  <2> QED
    BY <2>1
<1>14. \A i \in 1..Len(ps) : ps[i].kind = "required"
  <2> TAKE i \in 1..Len(ps)
  <2>1. ps[i] = [kind |-> "required", name |-> k.providers[i][2],
                 provides |-> {k.providers[i][1]}]
    BY <1>2, Zenon
  <2> QED
    BY <2>1
<1>15. \A i \in 1..Len(l) : l[i].left = DOMAIN l[i].files
  <2> TAKE i \in 1..Len(l)
  <2>1. l[i] = [kind |-> "dir", left |-> DOMAIN ds[i], files |-> ds[i]]
    BY <1>4, Zenon DEF l
  <2> QED
    BY <2>1
<1>9. ASSUME NEW i \in 1..Len(t), t[i].kind = "dir"
      PROVE  t[i].left \subseteq DOMAIN t[i].files
  <2>1. CASE i <= Len(cs)
    <3>1. t[i] = cs[i] /\ i \in 1..Len(cs)
      BY <1>7, <2>1
    <3> QED
      BY <1>13, <1>9, <3>1
  <2>2. CASE i > Len(cs) + Len(l)
    <3> DEFINE j == i - Len(cs) - Len(l)
    <3>1. j \in 1..Len(ps) /\ i = Len(cs) + Len(l) + j
      BY <1>7, <1>8, <2>2
    <3>2. t[i] = ps[j]
      BY <1>7, <3>1
    <3> QED
      BY <1>14, <1>9, <3>1, <3>2
  <2>3. CASE i > Len(cs) /\ i <= Len(cs) + Len(l)
    <3> DEFINE j == i - Len(cs)
    <3>1. j \in 1..Len(l) /\ i = Len(cs) + j
      BY <1>7, <1>8, <2>3
    <3>2. t[i] = l[j]
      BY <1>7, <3>1
    <3> QED
      BY <1>15, <1>9, <3>1, <3>2
  <2> QED
    BY <1>7, <1>8, <2>1, <2>2, <2>3
<1>10. ASSUME NEW n \in ToSet(k.components)
       PROVE  \E i \in 1..Len(t) : /\ t[i].kind = "required" /\ t[i].name = n
                                   /\ t[i].provides = {}
  <2>1. k.components \in Seq(STRING)
    BY DEF Keyfile
  <2>2. PICK i \in 1..Len(cs) : k.components[i] = n
    BY <1>1, <2>1 DEF ToSet
  <2>3. i \in 1..Len(t) /\ t[i] = cs[i]
    BY <1>7, <1>8
  <2>4. cs[i] = [kind |-> "required", name |-> k.components[i], provides |-> {}]
    BY <1>1, Zenon
  <2> QED
    BY <2>2, <2>3, <2>4
<1>11. ASSUME NEW p \in ToSet(k.providers)
       PROVE  \E i \in 1..Len(t) : /\ t[i].kind = "required" /\ t[i].name = p[2]
                                   /\ t[i].provides = {p[1]}
  <2>1. k.providers \in Seq(STRING \X STRING)
    BY DEF Keyfile
  <2>2. PICK i \in 1..Len(ps) : k.providers[i] = p
    BY <1>2, <2>1 DEF ToSet
  <2>3. Len(cs) + Len(l) + i \in 1..Len(t)
    BY <1>7, <1>8
  <2>4. ps[i] = [kind |-> "required", name |-> k.providers[i][2],
                 provides |-> {k.providers[i][1]}]
    BY <1>2, Zenon
  <2>5. t[Len(cs) + Len(l) + i] = ps[i]
    BY <1>7
  <2> QED
    BY <2>2, <2>3, <2>4, <2>5
<1>12. ASSUME autosave, ~failsafe PROVE HasSaved(t)
  <2> DEFINE i == Len(cs) + 1
  <2>1. 1 \in 1..Len(ds) /\ 1 \in 1..Len(l) /\ i \in 1..Len(t)
    BY <1>3, <1>4, <1>6, <1>7, <1>8, <1>12 DEF l
  <2>2. l[1] = [kind |-> "dir", left |-> DOMAIN ds[1], files |-> ds[1]]
    BY <1>4, <2>1, Zenon DEF l
  <2>3. t[i] = l[1] /\ ds[1] = saved
    BY <1>6, <1>7, <1>12, <2>1
  <2>4. \A j \in 1..i-1 : t[j].kind = "required"
    <3> TAKE j \in 1..i-1
    <3>1. j \in 1..Len(cs)
      BY <1>8
    <3> QED
      BY <1>13, <1>7, <3>1
  <2>5. t[i].kind = "dir" /\ t[i].left = DOMAIN saved /\ t[i].files = saved
    BY <2>2, <2>3
  <2> HIDE DEF i
  <2> QED
    BY <2>1, <2>4, <2>5 DEF HasSaved
<1> QED
  BY <1>7, <1>9, <1>10, <1>11, <1>12 DEF t, DirsInside, HasComponents, HasProviders

LEMMA KeyfileStep ==
    ASSUME IInv, NEW runnable \in BOOLEAN, NEW failsafe \in BOOLEAN, NEW autosave \in BOOLEAN,
           get_session_keyfile(runnable, failsafe, autosave)
    PROVE  IInv'
<1> DEFINE k == find_valid_session_keyfile(job.session)
           fallback == IF k.valid THEN k.fallback ELSE None
           list == load_standard_apps(k, saved, failsafe, autosave)
           found == k.valid /\ runnable /\ check_required(k)
<1>1. phase = "asking" /\ UNCHANGED <<saved, tmp, states, a, ended>> /\ job.session \in DOMAIN Sessions
  BY DEF get_session_keyfile, IInv, Stages
<1>2. k.valid => k \in Keyfile /\ k \in ToSet(Sessions[job.session])
  BY <1>1, ValidKeyfile
<1>3. a.apps = Empty /\ DOMAIN a.apps = {}
  BY <1>1, EmptyFacts DEF IInv, Stages
<1>4. CASE found
  <2>1. /\ phase' = "loading" /\ logins' = logins + 1 /\ clients' = {}
        /\ job' = [Idle EXCEPT !.keyfile = k, !.failsafe = failsafe,
                               !.restored = autosave /\ ~failsafe, !.todo = list]
    BY <1>4, Zenon DEF get_session_keyfile
  <2>2. k \in Keyfile /\ k \in ToSet(Sessions[job.session]) /\ check_required(k)
    BY <1>2, <1>4
  <2>3. Directory(saved)
    BY DEF IInv, Types
  <2> HIDE DEF k
  <2>4. /\ list \in Seq(Item) /\ DirsInside(list) /\ HasComponents(list, k) /\ HasProviders(list, k)
        /\ autosave /\ ~failsafe => HasSaved(list)
    BY <1>1, <2>2, <2>3, LoadList
  <2> HIDE DEF list
  <2>5. (autosave /\ ~failsafe) \in BOOLEAN
    OBVIOUS
  <2> DEFINE new == [Idle EXCEPT !.keyfile = k, !.failsafe = failsafe,
                                 !.restored = autosave /\ ~failsafe, !.todo = list]
  <2>6. /\ new \in Job /\ new.todo = list /\ new.left = {} /\ new.keyfile = k
        /\ new.restored = (autosave /\ ~failsafe) /\ new.failsafe = failsafe
    BY <2>2, <2>4, <2>5 DEF Idle, Job
  <2> HIDE DEF new
  <2>7. job' = new
    BY <2>1 DEF new
  <2>8. /\ job' \in Job /\ job'.todo = list /\ job'.left = {} /\ job'.keyfile = k
        /\ job'.restored = (autosave /\ ~failsafe) /\ job'.failsafe = failsafe
    BY <2>6, <2>7
  <2>9. Types'
    <3>1. IsFiniteSet({}) /\ Cardinality({}) = 0
      BY FS_EmptySet
    <3>2. logins' \in 0..MaxLogins
      BY <1>1, <2>1, SavedSessionAssumption DEF IInv, Types, Stages
    <3>3. Job' = Job
      BY <1>1 DEF Job, Item
    <3>4. clients' \subseteq Client /\ IsFiniteSet(clients') /\ Cardinality(clients') <= MaxClients
      BY <2>1, <3>1, SavedSessionAssumption
    <3> QED
      BY <1>1, <2>1, <2>8, <3>2, <3>3, <3>4 DEF IInv, Types, Apps
  <2>10. Stages'
    <3>1. DirsInside(job'.todo)
      BY <2>4, <2>8
    <3>2. job'.restored => ~job'.failsafe
      BY <2>8
    <3> QED
      BY <2>1, <2>2, <2>8, <3>1, <3>2 DEF Stages, DirsInside
  <2>11. Named'
    BY <1>1, <2>1 DEF IInv, Named, OwnName
  <2>12. Saves' /\ Saved'
    BY <2>1 DEF Saves, Saved
  <2>13. Restored'
    <3> SUFFICES ASSUME job'.restored, NEW n \in DOMAIN saved
                 PROVE  Waiting(n)'
      BY <1>1 DEF Restored
    <3>1. HasSaved(list)
      BY <2>4, <2>8
    <3> QED
      BY <1>1, <1>3, <2>8, <3>1 DEF Waiting, HasSaved
  <2>14. Required'
    BY <2>4, <2>8 DEF Required, Todo, HasComponents, HasProviders
  <2> QED
    BY <2>9, <2>10, <2>11, <2>12, <2>13, <2>14 DEF IInv
<1>5. CASE ~found /\ fallback # None
  <2>1. /\ phase' = "asking" /\ job' = [job EXCEPT !.session = fallback] /\ UNCHANGED <<clients, logins>>
    BY <1>5, Zenon DEF get_session_keyfile
  <2>2. fallback \in DOMAIN Sessions
    <3>1. k.valid /\ fallback = k.fallback /\ k \in Keyfile
      BY <1>2, <1>5
    <3> HIDE DEF k
    <3> QED
      BY <1>5, <3>1 DEF Keyfile
  <2> HIDE DEF fallback
  <2>3. /\ job' \in Job /\ job'.session = fallback /\ job'.todo = job.todo /\ job'.left = job.left
        /\ job'.restored = job.restored /\ job'.failsafe = job.failsafe
    BY <2>1, <2>2 DEF IInv, Types, Job
  <2>4. Types'
    BY <1>1, <2>1, <2>3 DEF IInv, Types, Apps, Job, Item
  <2>5. Stages'
    BY <1>1, <2>1, <2>2, <2>3 DEF IInv, Stages
  <2>6. Named'
    BY <1>1, <2>1 DEF IInv, Named, OwnName
  <2>7. Saves' /\ Saved'
    BY <1>1, <2>1 DEF IInv, Saves, Saved, Whole, StartupIds
  <2>8. Restored' /\ Required'
    BY <2>1, NotFilling
  <2> QED
    BY <2>4, <2>5, <2>6, <2>7, <2>8 DEF IInv
<1>6. CASE ~found /\ fallback = None
  <2>1. phase' = "off" /\ job' = Idle /\ UNCHANGED <<clients, logins>>
    BY <1>6, Zenon DEF get_session_keyfile
  <2>4. Types'
    BY <1>1, <2>1, IdleFacts DEF IInv, Types, Apps, Job, Item
  <2>5. Stages'
    BY <1>1, <2>1, IdleFacts DEF IInv, Stages
  <2>6. Named'
    BY <1>1, <2>1 DEF IInv, Named, OwnName
  <2>7. Saves' /\ Saved'
    BY <1>1, <2>1 DEF IInv, Saves, Saved, Whole, StartupIds
  <2>8. Restored' /\ Required'
    BY <2>1, NotFilling
  <2> QED
    BY <2>4, <2>5, <2>6, <2>7, <2>8 DEF IInv
<1> QED
  BY <1>4, <1>5, <1>6

-----------------------------------------------------------------------------
(* The apps are loaded.                                                    *)

LEMMA NewApp ==
    ASSUME NEW file \in File, IdIsLeft
    PROVE  LET app == csm_autostart_app_new(file)
           IN  /\ app \in File /\ app.startup # None /\ app.provides = file.provides
               /\ file.startup # None => app.startup = file.startup
<1>1. csm_util_generate_startup_id \in Ids
  BY DEF csm_util_generate_startup_id, IdIsLeft
<1>2. None \notin Ids
  BY InstalledAssumption DEF Names
<1> QED
  BY <1>1, <1>2 DEF csm_autostart_app_new, File

\* What is found by its name, in the saved session first.
LEMMA FoundFile ==
    ASSUME IInv, phase = "loading", NEW name,
           csm_util_find_desktop_file_for_app_name(name).name # None
    PROVE  LET f == csm_util_find_desktop_file_for_app_name(name)
           IN  /\ f.name \in Names /\ f.file \in File
               /\ f.name \in Ids => f.file.startup = f.name
               /\ ~job.failsafe /\ f.name \in DOMAIN saved => f.file = saved[f.name]
<1> DEFINE first == IF job.failsafe THEN << >> ELSE <<saved>>
           dirs == desktop_dirs(first, TRUE)
           f == csm_util_find_desktop_file_for_app_name(name)
<1>1. dirs = first \o AutostartDirs \o Applications
  BY DEF desktop_dirs
<1>2. first \in Seq(Installed \cup {saved})
  OBVIOUS
<1>3. AutostartDirs \in Seq(Installed \cup {saved}) /\ Applications \in Seq(Installed \cup {saved})
  BY InstalledAssumption DEF Installed
<1>4. ~job.failsafe => Len(first) = 1 /\ first[1] = saved
  OBVIOUS
<1>5. f = FindIn(dirs, name)
  BY DEF csm_util_find_desktop_file_for_app_name
<1>6. f.name # None
  OBVIOUS
<1> HIDE DEF first, dirs, f
<1>7. dirs \in Seq(Installed \cup {saved}) /\ Joined3(dirs, first, AutostartDirs, Applications)
  BY <1>1, <1>2, <1>3, ThreeParts
<1>8. PICK i \in 1..Len(dirs) : /\ f.name \in DOMAIN dirs[i] /\ f.file = dirs[i][f.name]
                               /\ \A j \in 1..i-1 : f.name \notin DOMAIN dirs[j]
  BY <1>5, <1>6, <1>7, FindInFinds
<1>9. dirs[i] \in Installed \cup {saved}
  BY <1>7
<1>10. Directory(dirs[i])
  BY <1>9, InstalledAssumption DEF IInv, Types
<1>11. f.name \in Names /\ f.file \in File
  BY <1>8, <1>10 DEF Directory
<1>12. f.name \in Ids => f.file.startup = f.name
  <2>1. CASE dirs[i] \in Installed
    BY <1>8, <2>1, InstalledAssumption
  <2>2. CASE dirs[i] = saved
    BY <1>8, <2>2 DEF IInv, Named, OwnName
  <2> QED
    BY <1>9, <2>1, <2>2
<1>13. ASSUME ~job.failsafe, f.name \in DOMAIN saved PROVE f.file = saved[f.name]
  <2>1. dirs[1] = saved
    BY <1>4, <1>7, <1>13 DEF Joined3
  <2>2. i = 1
    BY <1>8, <1>13, <2>1
  <2> QED
    BY <1>8, <2>1, <2>2
<1> QED
  BY <1>11, <1>12, <1>13 DEF f

\* The list of apps only grows.
Grows(e, b) ==
    /\ DOMAIN b.apps \subseteq DOMAIN e.apps /\ b.required \subseteq e.required
    /\ \A m \in DOMAIN b.apps : /\ e.apps[m].startup = b.apps[m].startup
                               /\ b.apps[m].provides \subseteq e.apps[m].provides

LEMMA GrowingKeeps ==
    ASSUME Grows(a', a), saved' = saved, job'.failsafe = job.failsafe
    PROVE  /\ \A ss : IsRequired(ss) => IsRequired(ss)'
           /\ \A n : IsRequiredByName(n) => IsRequiredByName(n)'
           /\ \A n : Back(n) => Back(n)'
<1>1. \A s : Provide(a, s) \subseteq Provide(a', s)
  BY DEF Grows, Provide
<1>2. a.required \subseteq a'.required
  BY DEF Grows
<1>3. \A ss : IsRequired(ss) => IsRequired(ss)'
  BY <1>1, <1>2 DEF IsRequired
<1>4. \A n : IsRequiredByName(n) => IsRequiredByName(n)'
  BY <1>2, <1>3 DEF IsRequiredByName, csm_util_find_desktop_file_for_app_name
<1>5. StartupIds(a.apps) \subseteq StartupIds(a'.apps)
  BY DEF Grows, StartupIds
<1>6. \A n : Back(n) => Back(n)'
  BY <1>1, <1>5 DEF Back, csm_manager_get_app_is_blacklisted
<1> QED
  BY <1>3, <1>4, <1>6

LEMMA LoadingKeeps ==
    ASSUME IInv, phase = "loading", UNCHANGED <<saved, tmp, states, phase, clients, ended, logins>>,
           IsApps(a'), OwnName((a').apps), NEW t \in Seq(Item), DirsInside(t),
           job' = [job EXCEPT !.todo = t]
    PROVE  /\ Types' /\ Stages' /\ Named' /\ Saves' /\ Saved'
           /\ job'.todo = t /\ job'.failsafe = job.failsafe /\ job'.restored = job.restored
           /\ job'.keyfile = job.keyfile
<1>1. /\ job' \in Job /\ job'.todo = t /\ job'.failsafe = job.failsafe /\ job'.restored = job.restored
      /\ job'.keyfile = job.keyfile /\ job'.left = job.left
  BY DEF IInv, Types, Job
<1>2. Types'
  <2>1. Job' = Job
    BY DEF Job, Item
  <2> QED
    BY <1>1, <2>1 DEF IInv, Types, Apps, IsApps
<1>3. Stages'
  BY <1>1 DEF IInv, Stages, DirsInside
<1>4. Named'
  BY DEF IInv, Named, OwnName
<1>5. Saves' /\ Saved'
  BY DEF IInv, Saves, Saved, Exists
<1> QED
  BY <1>1, <1>2, <1>3, <1>4, <1>5

LEMMA TailFacts ==
    ASSUME NEW S, NEW t \in Seq(S), t # << >>
    PROVE  /\ Tail(t) \in Seq(S) /\ Head(t) = t[1] /\ 1 \in 1..Len(t) /\ t[1] \in S
           /\ \A i \in 1..Len(t) : i # 1 => i - 1 \in 1..Len(Tail(t)) /\ Tail(t)[i-1] = t[i]
           /\ \A i \in 1..Len(Tail(t)) : i + 1 \in 1..Len(t) /\ Tail(t)[i] = t[i+1]
OBVIOUS

\* What is still to be added, once the first item is done.
LEMMA NextItem ==
    ASSUME IInv, job.todo # << >>, job'.todo = Tail(job.todo), UNCHANGED saved
    PROVE  /\ \A n, ps : Todo(n, ps) =>
                \/ Todo(n, ps)'
                \/ LET h == Head(job.todo)
                   IN  h.kind = "required" /\ h.name = n /\ h.provides = ps
           /\ DirsInside(Tail(job.todo)) /\ Tail(job.todo) \in Seq(Item)
<1> DEFINE t == job.todo
           u == Tail(t)
<1>1. t \in Seq(Item) /\ DirsInside(t)
  BY DEF IInv, Types, Stages, Job, DirsInside
<1>2. job'.todo = u /\ t # << >> /\ job.todo = t
  OBVIOUS
<1> HIDE DEF t
<1>3. /\ u \in Seq(Item) /\ Head(t) = t[1] /\ 1 \in 1..Len(t)
      /\ \A i \in 1..Len(t) : i # 1 => i - 1 \in 1..Len(u) /\ u[i-1] = t[i]
      /\ \A i \in 1..Len(u) : i + 1 \in 1..Len(t) /\ u[i] = t[i+1]
  BY <1>1, <1>2, TailFacts
<1> HIDE DEF u
<1>4. ASSUME NEW n, NEW ps, Todo(n, ps), ~(t[1].kind = "required" /\ t[1].name = n /\ t[1].provides = ps)
      PROVE  Todo(n, ps)'
  <2>1. PICK i \in 1..Len(t) : t[i].kind = "required" /\ t[i].name = n /\ t[i].provides = ps
    BY <1>2, <1>4 DEF Todo
  <2>2. i - 1 \in 1..Len(u) /\ u[i-1] = t[i]
    BY <1>3, <1>4, <2>1
  <2> QED
    BY <1>2, <2>1, <2>2 DEF Todo
<1>5. DirsInside(u)
  BY <1>1, <1>3 DEF DirsInside
<1> QED
  BY <1>2, <1>3, <1>4, <1>5 DEF t, u

LEMMA LoadRequiredStep ==
    ASSUME IInv, LoadRequired
    PROVE  IInv'
<1> DEFINE item == Head(job.todo)
           f == csm_util_find_desktop_file_for_app_name(item.name)
           app == csm_autostart_app_new(f.file)
<1>1. /\ phase = "loading" /\ job.todo # << >> /\ item.kind = "required" /\ IdIsLeft
      /\ a' = IF f.name = None THEN a
              ELSE add_autostart_app_internal(a, f.name, app, item.provides, TRUE)
      /\ job' = [job EXCEPT !.todo = Tail(@)]
      /\ UNCHANGED <<saved, tmp, states, phase, clients, ended, logins>>
  BY Zenon DEF LoadRequired
<1>2. item \in Item
  <2>1. job.todo \in Seq(Item)
    BY DEF IInv, Types, Job
  <2> QED
    BY <1>1, <2>1, TailFacts
<1>3. item.provides \in SUBSET Services
  BY <1>1, <1>2 DEF Item
<1>4. IsApps(a) /\ OwnName(a.apps)
  BY DEF IInv, Types, Named, Apps, IsApps
<1>5. f.name # None => /\ f.name \in Names /\ f.file \in File
                       /\ f.name \in Ids => f.file.startup = f.name
                       /\ ~job.failsafe /\ f.name \in DOMAIN saved => f.file = saved[f.name]
  BY <1>1, FoundFile
<1> HIDE DEF f, item
<1>6. f.name # None => /\ app \in File /\ app.startup # None /\ app.provides = f.file.provides
                       /\ f.file.startup # None => app.startup = f.file.startup
  BY <1>1, <1>5, NewApp
<1> HIDE DEF app
<1>7. f.name # None => Added(a', a, f.name, app, item.provides, TRUE)
  BY <1>1, <1>3, <1>4, <1>5, <1>6, AddAdds
<1>8. IsApps(a') /\ Grows(a', a) /\ OwnName((a').apps)
  <2>1. CASE f.name = None
    BY <1>1, <1>4, <2>1 DEF Grows
  <2>2. CASE f.name # None
    <3>1. IsApps(a') /\ Grows(a', a)
      BY <1>7, <2>2 DEF Added, Grows
    <3>2. ASSUME NEW m \in DOMAIN (a').apps, m \in Ids PROVE (a').apps[m].startup = m
      <4>1. CASE m \in DOMAIN a.apps
        BY <1>4, <1>7, <2>2, <3>2, <4>1 DEF Added, OwnName
      <4>2. CASE m \notin DOMAIN a.apps
        <5>1. m = f.name /\ (a').apps[m].startup = app.startup
          BY <1>7, <2>2, <3>2, <4>2 DEF Added
        <5>2. m # None
          BY <3>2, InstalledAssumption DEF Names
        <5> QED
          BY <1>5, <1>6, <2>2, <3>2, <5>1, <5>2
      <4> QED
        BY <4>1, <4>2
    <3> QED
      BY <3>1, <3>2 DEF OwnName
  <2> QED
    BY <2>1, <2>2
<1>10. job'.todo = Tail(job.todo) /\ job' = [job EXCEPT !.todo = Tail(job.todo)]
  BY <1>1 DEF IInv, Types, Job
<1>11. /\ \A n, ps : Todo(n, ps) =>
             \/ Todo(n, ps)'
             \/ item.kind = "required" /\ item.name = n /\ item.provides = ps
       /\ DirsInside(Tail(job.todo)) /\ Tail(job.todo) \in Seq(Item)
  BY <1>1, <1>10, NextItem DEF item
<1>12. /\ Types' /\ Stages' /\ Named' /\ Saves' /\ Saved'
       /\ job'.failsafe = job.failsafe /\ job'.restored = job.restored /\ job'.keyfile = job.keyfile
  BY <1>1, <1>8, <1>10, <1>11, LoadingKeeps
<1>13. /\ \A ss : IsRequired(ss) => IsRequired(ss)'
       /\ \A n : IsRequiredByName(n) => IsRequiredByName(n)'
       /\ \A n : Back(n) => Back(n)'
  BY <1>1, <1>8, <1>12, GrowingKeeps
<1>14. Restored'
  <2> SUFFICES ASSUME job.restored, NEW n \in DOMAIN saved, Waiting(n) PROVE Waiting(n)'
    BY <1>1, <1>12, <1>13 DEF IInv, Restored
  <2> DEFINE t == job.todo
             u == Tail(t)
  <2>1. t \in Seq(Item) /\ t # << >> /\ t[1].kind = "required"
    BY <1>1 DEF IInv, Types, Job, item
  <2>2. PICK i \in 1..Len(t) : /\ t[i].kind = "dir" /\ t[i].files = saved /\ n \in t[i].left
                              /\ \A j \in 1..i-1 : t[j].kind = "required"
    BY DEF Waiting
  <2>3. i # 1
    BY <2>1, <2>2
  <2>4. job'.todo = u
    BY <1>10
  <2> HIDE DEF t
  <2>5. /\ i - 1 \in 1..Len(u) /\ u[i-1] = t[i]
        /\ \A j \in 1..Len(u) : u[j] = t[j+1]
    BY <2>1, <2>3, TailFacts
  <2> HIDE DEF u
  <2>6. \A j \in 1..(i-1)-1 : u[j].kind = "required"
    <3> TAKE j \in 1..(i-1)-1
    <3>1. j \in 1..Len(u) /\ j + 1 \in 1..i-1
      BY <2>2, <2>5
    <3> QED
      BY <2>2, <2>5, <3>1
  <2>7. ASSUME n \in DOMAIN (a').apps PROVE (a').apps[n].startup = saved[n].startup
    <3>1. CASE n \in DOMAIN a.apps
      BY <1>8, <3>1 DEF Waiting, Grows
    <3>2. CASE n \notin DOMAIN a.apps
      <4>1. f.name # None
        BY <1>1, <2>7, <3>2
      <4>2. n = f.name /\ (a').apps[n].startup = app.startup
        BY <1>7, <2>7, <3>2, <4>1 DEF Added
      <4>3. f.file = saved[n] /\ saved[n].startup # None
        BY <1>5, <4>1, <4>2 DEF IInv, Stages, Named
      <4> QED
        BY <1>6, <4>1, <4>2, <4>3
    <3> QED
      BY <3>1, <3>2
  <2>8. u[i-1].kind = "dir" /\ u[i-1].files = saved' /\ n \in u[i-1].left
    BY <1>1, <2>2, <2>5
  <2>9. n \in DOMAIN (a').apps => (a').apps[n].startup = saved'[n].startup
    BY <1>1, <2>7
  <2> QED
    BY <2>4, <2>5, <2>6, <2>8, <2>9 DEF Waiting
<1>15. Required'
  <2>1. job.keyfile \in Keyfile /\ check_required(job.keyfile)
    BY <1>1 DEF IInv, Stages
  <2>2. ASSUME FindIn(desktop_dirs(<< >>, TRUE), item.name).name # None
        PROVE  f.name # None
    BY <2>2, FoundInMore DEF f, csm_util_find_desktop_file_for_app_name, IInv, Types
  <2>3. ASSUME NEW n, NEW ps, item.name = n, item.provides = ps, f.name # None
        PROVE  IsRequired(ps)' \/ IsRequiredByName(n)'
    <3>1. \/ f.name \in (a').required
          \/ \E s \in ps \cup f.file.provides : Provide(a', s) \cap (a').required # {}
      BY <1>6, <1>7, <2>3 DEF Added
    <3>2. csm_util_find_desktop_file_for_app_name(n)' = f
      BY <1>1, <1>12, <2>3 DEF csm_util_find_desktop_file_for_app_name, f
    <3>3. CASE f.name \in (a').required
      BY <3>2, <3>3 DEF IsRequiredByName
    <3>4. CASE \E s \in ps : Provide(a', s) \cap (a').required # {}
      BY <3>4 DEF IsRequired
    <3>5. CASE \E s \in f.file.provides : Provide(a', s) \cap (a').required # {}
      BY <3>2, <3>5 DEF IsRequiredByName, IsRequired
    <3> QED
      BY <3>1, <3>3, <3>4, <3>5
  <2>4. ASSUME NEW n \in ToSet(job.keyfile.components)
        PROVE  Todo(n, {})' \/ IsRequiredByName(n)'
    <3>0. PICK i \in 1..Len(job.keyfile.components) : n = job.keyfile.components[i]
      BY <2>1, <2>4 DEF ToSet, Keyfile
    <3>1. FindIn(desktop_dirs(<< >>, TRUE), n).name # None
      BY <2>1, <3>0, Zenon DEF check_required
    <3>2. ~IsRequired({})'
      BY DEF IsRequired
    <3>3. Todo(n, {}) \/ IsRequiredByName(n)
      BY <1>1, <2>4 DEF IInv, Required
    <3>4. item.name = n => f.name # None
      BY <2>2, <3>1
    <3> QED
      BY <1>11, <1>13, <2>3, <3>2, <3>3, <3>4
  <2>5. ASSUME NEW p \in ToSet(job.keyfile.providers)
        PROVE  Todo(p[2], {p[1]})' \/ IsRequired({p[1]})' \/ IsRequiredByName(p[2])'
    <3>0. PICK i \in 1..Len(job.keyfile.providers) : p = job.keyfile.providers[i]
      BY <2>1, <2>5 DEF ToSet, Keyfile
    <3>1. FindIn(desktop_dirs(<< >>, TRUE), p[2]).name # None
      BY <2>1, <3>0, Zenon DEF check_required
    <3>2. Todo(p[2], {p[1]}) \/ IsRequired({p[1]}) \/ IsRequiredByName(p[2])
      BY <1>1, <2>5 DEF IInv, Required
    <3>4. item.name = p[2] => f.name # None
      BY <2>2, <3>1
    <3> QED
      BY <1>11, <1>13, <2>3, <3>2, <3>4
  <2> QED
    BY <1>12, <2>4, <2>5 DEF Required
<1> QED
  BY <1>12, <1>14, <1>15 DEF IInv

\* An app is added to those that are in order.
LEMMA AddedInOrder ==
    ASSUME IsApps(a), OwnName(a.apps), NEW n, NEW app, NEW provides, NEW required,
           Added(a', a, n, app, provides, required), n \in Ids => app.startup = n
    PROVE  IsApps(a') /\ Grows(a', a) /\ OwnName((a').apps)
<1>1. IsApps(a') /\ Grows(a', a)
  BY DEF Added, Grows
<1>2. ASSUME NEW m \in DOMAIN (a').apps, m \in Ids PROVE (a').apps[m].startup = m
  <2>1. CASE m \in DOMAIN a.apps
    BY <1>2, <2>1 DEF Added, OwnName
  <2>2. CASE m \notin DOMAIN a.apps
    BY <1>2, <2>2 DEF Added
  <2> QED
    BY <2>1, <2>2
<1> QED
  BY <1>1, <1>2 DEF OwnName

LEMMA DirStep ==
    ASSUME IInv, csm_manager_add_autostart_apps_from_dir
    PROVE  IInv'
<1> DEFINE t == job.todo
           item == t[1]
<1>1. /\ phase = "loading" /\ t # << >> /\ item.kind = "dir"
      /\ UNCHANGED <<saved, tmp, states, phase, clients, ended, logins>>
      /\ \/ \E n \in item.left :
              /\ IdIsLeft
              /\ a' = IF csm_manager_get_app_is_blacklisted(n) THEN a
                      ELSE add_autostart_app_internal(a, n, csm_autostart_app_new(item.files[n]),
                                                      {}, FALSE)
              /\ job' = [job EXCEPT !.todo[1] = [item EXCEPT !.left = @ \ {n}]]
         \/ item.left = {} /\ job' = [job EXCEPT !.todo = Tail(@)] /\ a' = a
  <2>1. job.todo \in Seq(Item) /\ job.todo # << >>
    BY DEF IInv, Types, Job, csm_manager_add_autostart_apps_from_dir
  <2>2. Head(job.todo) = item
    BY <2>1, TailFacts
  <2> HIDE DEF item
  <2> QED
    BY <2>2, Zenon DEF csm_manager_add_autostart_apps_from_dir
<1>2. t \in Seq(Item) /\ DirsInside(t) /\ 1 \in 1..Len(t) /\ item \in Item
  <2>1. t \in Seq(Item) /\ DirsInside(t)
    BY DEF IInv, Types, Stages, Job, DirsInside
  <2> QED
    BY <1>1, <2>1, TailFacts
<1>3. IsApps(a) /\ OwnName(a.apps)
  BY DEF IInv, Types, Named, Apps, IsApps
<1>4. /\ item = [kind |-> "dir", left |-> item.left, files |-> item.files]
      /\ item.files \in Installed \cup {saved} /\ item.left \subseteq DOMAIN item.files
  BY <1>1, <1>2 DEF Item, DirsInside
<1>5. ASSUME NEW n, Waiting(n)
      PROVE  /\ item.files = saved /\ n \in item.left
             /\ n \in DOMAIN a.apps => a.apps[n].startup = saved[n].startup
  <2>1. PICK i \in 1..Len(t) : /\ t[i].kind = "dir" /\ t[i].files = saved /\ n \in t[i].left
                              /\ \A j \in 1..i-1 : t[j].kind = "required"
    BY <1>5 DEF Waiting
  <2>2. i = 1
    BY <1>1, <1>2, <2>1
  <2> QED
    BY <1>5, <2>1, <2>2 DEF Waiting
<1>6. CASE item.left = {} /\ job' = [job EXCEPT !.todo = Tail(@)] /\ a' = a
  <2>1. job'.todo = Tail(job.todo) /\ job' = [job EXCEPT !.todo = Tail(job.todo)]
    BY <1>6 DEF IInv, Types, Job
  <2>2. Head(job.todo) = item
    BY <1>1, <1>2, TailFacts
  <2>3. /\ \A n, ps : Todo(n, ps) => Todo(n, ps)'
        /\ DirsInside(Tail(job.todo)) /\ Tail(job.todo) \in Seq(Item)
    BY <1>1, <2>1, <2>2, NextItem
  <2>4. /\ Types' /\ Stages' /\ Named' /\ Saves' /\ Saved'
        /\ job'.failsafe = job.failsafe /\ job'.restored = job.restored /\ job'.keyfile = job.keyfile
    BY <1>1, <1>3, <1>6, <2>1, <2>3, LoadingKeeps
  <2>5. /\ \A ss : IsRequired(ss) => IsRequired(ss)'
        /\ \A n : IsRequiredByName(n) => IsRequiredByName(n)'
        /\ \A n : Back(n) => Back(n)'
    BY <1>1, <1>6, <2>4, GrowingKeeps DEF Grows
  <2>6. Restored'
    <3>1. \A n : ~Waiting(n)
      <4> HIDE DEF item
      <4> QED
        BY <1>5, <1>6
    <3> QED
      BY <1>1, <2>4, <2>5, <3>1 DEF IInv, Restored
  <2>7. Required'
    BY <1>1, <2>3, <2>4, <2>5 DEF IInv, Required
  <2> QED
    BY <2>4, <2>6, <2>7 DEF IInv
<1>7. ASSUME NEW n \in item.left, IdIsLeft,
             a' = IF csm_manager_get_app_is_blacklisted(n) THEN a
                  ELSE add_autostart_app_internal(a, n, csm_autostart_app_new(item.files[n]),
                                                  {}, FALSE),
             job' = [job EXCEPT !.todo[1] = [item EXCEPT !.left = @ \ {n}]]
      PROVE  IInv'
  <2> DEFINE new == [item EXCEPT !.left = @ \ {n}]
             u == [t EXCEPT ![1] = new]
             file == item.files[n]
             app == csm_autostart_app_new(file)
  <2>1. /\ new \in Item /\ new.kind = "dir" /\ new.files = item.files
        /\ new.left = item.left \ {n}
    BY <1>2, <1>4 DEF Item
  <2> HIDE DEF new
  <2>2. /\ u \in Seq(Item) /\ Len(u) = Len(t) /\ u[1] = new
        /\ \A i \in 1..Len(t) : i # 1 => u[i] = t[i]
    BY <1>2, <2>1
  <2>3. job' = [job EXCEPT !.todo = u]
    BY <1>7 DEF IInv, Types, Job, new
  <2> HIDE DEF u
  <2>4. DirsInside(u)
    BY <1>2, <1>4, <2>1, <2>2 DEF DirsInside
  <2>5. n \in Names /\ file \in File /\ n \in DOMAIN item.files
    BY <1>4, <1>7, InstalledAssumption DEF IInv, Types, Directory
  <2>6. n \in Ids => file.startup = n
    BY <1>4, <1>7, InstalledAssumption DEF IInv, Named, OwnName
  <2> HIDE DEF file, item
  <2>7. /\ app \in File /\ app.startup # None /\ app.provides = file.provides
        /\ file.startup # None => app.startup = file.startup
    BY <1>7, <2>5, NewApp
  <2> HIDE DEF app
  <2>8. n \in Ids => app.startup = n
    BY <2>6, <2>7, InstalledAssumption DEF Names
  <2>9. ~csm_manager_get_app_is_blacklisted(n) => Added(a', a, n, app, {}, FALSE)
    <3>1. {} \in SUBSET Services /\ FALSE \in BOOLEAN
      OBVIOUS
    <3>2. ~csm_manager_get_app_is_blacklisted(n) =>
             a' = add_autostart_app_internal(a, n, app, {}, FALSE)
      BY <1>7 DEF app, file
    <3> QED
      BY <1>3, <2>5, <2>7, <3>1, <3>2, AddAdds
  <2>10. IsApps(a') /\ Grows(a', a) /\ OwnName((a').apps)
    <3>1. CASE csm_manager_get_app_is_blacklisted(n)
      BY <1>3, <1>7, <3>1 DEF Grows
    <3>2. CASE ~csm_manager_get_app_is_blacklisted(n)
      BY <1>3, <2>8, <2>9, <3>2, AddedInOrder
    <3> QED
      BY <3>1, <3>2
  <2>11. DOMAIN (a').apps \subseteq DOMAIN a.apps \cup {n}
    BY <1>7, <2>9 DEF Added
  <2>12. /\ Types' /\ Stages' /\ Named' /\ Saves' /\ Saved' /\ job'.todo = u
         /\ job'.failsafe = job.failsafe /\ job'.restored = job.restored /\ job'.keyfile = job.keyfile
    BY <1>1, <2>2, <2>3, <2>4, <2>10, LoadingKeeps
  <2>13. /\ \A ss : IsRequired(ss) => IsRequired(ss)'
         /\ \A m : IsRequiredByName(m) => IsRequiredByName(m)'
         /\ \A m : Back(m) => Back(m)'
    BY <1>1, <2>10, <2>12, GrowingKeeps
  <2>14. Required'
    <3>1. ASSUME NEW m, NEW ps, Todo(m, ps) PROVE Todo(m, ps)'
      <4>1. PICK i \in 1..Len(t) : t[i].kind = "required" /\ t[i].name = m /\ t[i].provides = ps
        BY <3>1 DEF Todo
      <4>2. i \in 1..Len(u) /\ u[i] = t[i]
        BY <1>1, <2>2, <4>1 DEF item
      <4> QED
        BY <2>12, <4>1, <4>2 DEF Todo
    <3> QED
      BY <1>1, <2>12, <2>13, <3>1 DEF IInv, Required
  <2>15. Restored'
    <3> SUFFICES ASSUME job.restored, NEW m \in DOMAIN saved, Waiting(m)
                 PROVE  Waiting(m)' \/ Back(m)'
      BY <1>1, <2>12, <2>13 DEF IInv, Restored
    <3>1. /\ item.files = saved /\ m \in item.left
          /\ m \in DOMAIN a.apps => a.apps[m].startup = saved[m].startup
      BY <1>5
    <3>2. CASE m # n
      <4>1. u[1].kind = "dir" /\ u[1].files = saved' /\ m \in u[1].left /\ 1 \in 1..Len(u)
        BY <1>1, <1>2, <2>1, <2>2, <3>1, <3>2
      <4>2. m \in DOMAIN (a').apps => (a').apps[m].startup = saved'[m].startup
        BY <1>1, <2>10, <2>11, <3>1, <3>2 DEF Grows
      <4>3. \A j \in 1..1-1 : u[j].kind = "required"
        OBVIOUS
      <4> QED
        BY <2>12, <4>1, <4>2, <4>3 DEF Waiting
    <3>3. CASE m = n /\ csm_manager_get_app_is_blacklisted(n)
      BY <3>3 DEF Back, csm_manager_get_app_is_blacklisted
    <3>4. CASE m = n /\ ~csm_manager_get_app_is_blacklisted(n)
      <4>1. file = saved[n] /\ saved[n].startup # None
        BY <3>1, <3>4 DEF file, IInv, Named
      <4>2. CASE n \in DOMAIN (a').apps
        <5>1. (a').apps[n].startup = saved[n].startup
          BY <2>7, <2>9, <3>1, <3>4, <4>1, <4>2 DEF Added
        <5> QED
          BY <1>1, <3>4, <4>2, <5>1 DEF Back, StartupIds
      <4>3. CASE \E s \in saved[n].provides : Provide(a, s) # {}
        <5>1. \A s : Provide(a, s) \subseteq Provide(a', s)
          BY <2>10 DEF Grows, Provide
        <5> QED
          BY <1>1, <3>4, <4>3, <5>1 DEF Back
      <4> QED
        BY <2>7, <2>9, <3>4, <4>1, <4>2, <4>3 DEF Added
    <3> QED
      BY <3>2, <3>3, <3>4
  <2> QED
    BY <2>12, <2>14, <2>15 DEF IInv
<1> QED
  BY <1>1, <1>6, <1>7

LEMMA FillEndsStep ==
    ASSUME IInv, FillEnds
    PROVE  IInv'
<1> USE DEF FillEnds
<1>1. Types' /\ Stages' /\ Named' /\ Saved'
  BY DEF IInv, Types, Apps, Job, Item, Stages, Named, OwnName, Saved
<1>2. Saves'
  BY DEF IInv, Saves, Exists
<1>3. Restored' /\ Required'
  <2>1. job.todo = << >> /\ 1..Len(job.todo) = {}
    OBVIOUS
  <2>2. \A n : ~Waiting(n)
    BY <2>1 DEF Waiting
  <2>3. \A n, ps : ~Todo(n, ps)
    BY <2>1 DEF Todo
  <2>4. \A n : Back(n)' <=> Back(n)
    BY DEF Back, StartupIds
  <2>5. \A ss : IsRequired(ss)' <=> IsRequired(ss)
    BY DEF IsRequired
  <2>6. \A n : IsRequiredByName(n)' <=> IsRequiredByName(n)
    BY <2>5 DEF IsRequiredByName, csm_util_find_desktop_file_for_app_name
  <2> QED
    BY <2>2, <2>3, <2>4, <2>5, <2>6 DEF IInv, Restored, Required
<1> QED
  BY <1>1, <1>2, <1>3 DEF IInv

-----------------------------------------------------------------------------
(* The session runs.                                                       *)

\* Clients come and go and save their states.
LEMMA RunningKeeps ==
    ASSUME IInv, Running, states \subseteq states', states' \subseteq 1..MaxState,
           clients' \subseteq Client, IsFiniteSet(clients'), Cardinality(clients') <= MaxClients,
           \A c \in clients' : c.app \in Ids => c.startup = c.app,
           \A c, e \in clients' : c.startup = e.startup => c = e,
           \A c \in clients' : c.state = 0 \/ c.state \in states',
           job.left = {}
    PROVE  IInv'
<1> USE DEF Running
<1>1. Types'
  BY DEF IInv, Types, Apps, Job, Item
<1>2. Stages'
  BY DEF IInv, Stages
<1>3. Named'
  BY DEF IInv, Named, OwnName
<1>4. Saves' /\ Saved'
  BY DEF Saves, Saved, Exists
<1>5. Restored' /\ Required'
  BY FillingStays DEF IInv
<1> QED
  BY <1>1, <1>2, <1>3, <1>4, <1>5 DEF IInv

\* A client that comes.
LEMMA RegistersStep ==
    ASSUME IInv, NEW client \in Client, Registers(client),
           \A c \in clients : c.startup # client.startup,
           client.app \in Ids => client.startup = client.app, Exists(client.state)
    PROVE  IInv'
<1>1. /\ Running /\ Cardinality(clients) < MaxClients /\ clients' = clients \cup {client}
      /\ states' = states
  BY DEF Registers
<1>2. /\ clients \subseteq Client /\ IsFiniteSet(clients) /\ states \subseteq 1..MaxState
      /\ job.left = {}
  BY <1>1 DEF IInv, Types, Stages, Running
<1>3. IsFiniteSet(clients') /\ Cardinality(clients') <= MaxClients
  <2>1. client \notin clients
    OBVIOUS
  <2>2. /\ IsFiniteSet(clients') /\ Cardinality(clients') = Cardinality(clients) + 1
        /\ Cardinality(clients) \in Nat
    BY <1>1, <1>2, <2>1, FS_AddElement, FS_CardinalityType
  <2> QED
    BY <1>1, <2>2, SavedSessionAssumption
<1>4. \A c \in clients' : c.app \in Ids => c.startup = c.app
  BY <1>1 DEF IInv, Named
<1>5. \A c, e \in clients' : c.startup = e.startup => c = e
  BY <1>1 DEF IInv, Named
<1>6. \A c \in clients' : c.state = 0 \/ c.state \in states'
  BY <1>1 DEF IInv, Saves, Exists, Running
<1> QED
  BY <1>1, <1>2, <1>3, <1>4, <1>5, <1>6, RunningKeeps

LEMMA AppRegistersStep ==
    ASSUME IInv, NEW n \in DOMAIN a.apps, AppRegisters(n)
    PROVE  IInv'
<1>1. PICK restart \in BOOLEAN : Registers(ClientOf(n, restart))
  BY DEF AppRegisters
<1> DEFINE client == ClientOf(n, restart)
<1>2. a.apps[n] \in File /\ a.apps[n].startup # None /\ n \in Names
  BY DEF IInv, Types, Directory
<1>3. client.startup = a.apps[n].startup /\ client.app = n /\ Exists(client.state)
  BY DEF ClientOf, Exists
<1>4. client \in Client
  BY <1>2, SavedSessionAssumption DEF ClientOf, Client, File
<1>5. \A c \in clients : c.startup # client.startup
  BY <1>3 DEF AppRegisters
<1>6. client.app \in Ids => client.startup = client.app
  BY <1>3 DEF IInv, Named, OwnName
<1> HIDE DEF client
<1> QED
  BY <1>1, <1>3, <1>4, <1>5, <1>6, RegistersStep DEF client

LEMMA LaunchStep ==
    ASSUME IInv, NEW p \in Programs, Launch(p)
    PROVE  IInv'
<1> DEFINE client == [startup |-> csm_util_generate_startup_id, app |-> None, program |-> p,
                      restart |-> TRUE, state |-> 0]
<1>1. csm_util_generate_startup_id \in Ids \ UsedIds
  BY DEF Launch, IdIsLeft, csm_util_generate_startup_id
<1>2. Registers(client)
  BY DEF Launch
<1>3. client.startup = csm_util_generate_startup_id /\ client.app = None /\ Exists(client.state)
  BY DEF Exists
<1>4. client \in Client
  BY <1>1, SavedSessionAssumption DEF Client, AllPrograms
<1> HIDE DEF client
<1>5. \A c \in clients : c.startup # client.startup
  BY <1>1, <1>3 DEF UsedIds
<1>6. client.app \notin Ids
  BY <1>3, InstalledAssumption DEF Names
<1> QED
  BY <1>2, <1>3, <1>4, <1>5, <1>6, RegistersStep

LEMMA LeavesStep ==
    ASSUME IInv, NEW c \in clients, Leaves(c)
    PROVE  IInv'
<1>1. Running /\ clients' = clients \ {c} /\ states' = states
  BY DEF Leaves
<1>2. /\ clients \subseteq Client /\ IsFiniteSet(clients) /\ states \subseteq 1..MaxState
      /\ job.left = {} /\ Cardinality(clients) <= MaxClients
  BY <1>1 DEF IInv, Types, Stages, Running
<1>3. IsFiniteSet(clients') /\ Cardinality(clients') <= MaxClients
  <2>1. /\ IsFiniteSet(clients') /\ Cardinality(clients') = Cardinality(clients) - 1
        /\ Cardinality(clients) \in Nat
    BY <1>1, <1>2, FS_RemoveElement, FS_CardinalityType
  <2> QED
    BY <1>2, <2>1, SavedSessionAssumption
<1>4. \A e \in clients' : e.app \in Ids => e.startup = e.app
  BY <1>1 DEF IInv, Named
<1>5. \A e, f \in clients' : e.startup = f.startup => e = f
  BY <1>1 DEF IInv, Named
<1>6. \A e \in clients' : e.state = 0 \/ e.state \in states'
  BY <1>1 DEF IInv, Saves, Exists, Running
<1> QED
  BY <1>1, <1>2, <1>3, <1>4, <1>5, <1>6, RunningKeeps

LEMMA ClientSavesStep ==
    ASSUME IInv, NEW c \in clients, ClientSaves(c)
    PROVE  IInv'
<1> DEFINE known == states \cup {saved[n].state : n \in DOMAIN saved} \cup {e.state : e \in clients}
           s == CHOOSE i \in 1..MaxState : i \notin known
           new == [c EXCEPT !.state = s]
<1>1. /\ Running /\ s \in 1..MaxState
      /\ states' = states \cup {s} /\ clients' = (clients \ {c}) \cup {new}
  BY DEF ClientSaves
<1> HIDE DEF s
<1>2. /\ clients \subseteq Client /\ IsFiniteSet(clients) /\ states \subseteq 1..MaxState
      /\ job.left = {} /\ Cardinality(clients) <= MaxClients
  BY <1>1 DEF IInv, Types, Stages, Running
<1>3. /\ new \in Client /\ new.startup = c.startup /\ new.app = c.app /\ new.state = s
  BY <1>1, <1>2, SavedSessionAssumption DEF Client
<1> HIDE DEF new
<1>4. \A e \in clients \ {c} : e.startup # new.startup
  BY <1>3 DEF IInv, Named
<1>5. IsFiniteSet(clients') /\ Cardinality(clients') <= MaxClients
  <2> DEFINE rest == clients \ {c}
  <2>1. /\ IsFiniteSet(rest) /\ Cardinality(rest) = Cardinality(clients) - 1
        /\ Cardinality(clients) \in Nat
    BY <1>2, FS_RemoveElement, FS_CardinalityType
  <2>2. new \notin rest
    BY <1>4
  <2> HIDE DEF rest
  <2>3. IsFiniteSet(rest \cup {new}) /\ Cardinality(rest \cup {new}) = Cardinality(rest) + 1
    BY <2>1, <2>2, FS_AddElement
  <2> QED
    BY <1>1, <1>2, <2>1, <2>3 DEF rest
<1>6. \A e \in clients' : e.app \in Ids => e.startup = e.app
  BY <1>1, <1>3 DEF IInv, Named
<1>7. \A e, f \in clients' : e.startup = f.startup => e = f
  BY <1>1, <1>4 DEF IInv, Named
<1>8. \A e \in clients' : e.state = 0 \/ e.state \in states'
  BY <1>1, <1>3 DEF IInv, Saves, Exists, Running
<1>9. states \subseteq states' /\ states' \subseteq 1..MaxState /\ clients' \subseteq Client
  BY <1>1, <1>2, <1>3
<1> QED
  BY <1>1, <1>2, <1>5, <1>6, <1>7, <1>8, <1>9, RunningKeeps

-----------------------------------------------------------------------------
(* The end of the session.                                                 *)

\* What is said of the files of a directory of the manager's own.
Files(d) == Directory(d) /\ OwnName(d) /\ \A n \in DOMAIN d : d[n].startup # None

\* A job without anything to be loaded is one whatever is saved.
LEMMA NothingToLoad ==
    ASSUME NEW j \in Job, j.todo = << >>
    PROVE  j \in Job'
<1>1. << >> \in Seq(Item')
  OBVIOUS
<1> QED
  BY <1>1 DEF Job

\* The steps of the end only leave open what they do to the two directories.
LEMMA EndKeeps ==
    ASSUME IInv, phase' \in {"off", "saving", "clearing"}, UNCHANGED <<clients, logins>>,
           Files(saved'), Files(tmp'), states' \subseteq 1..MaxState,
           NEW j \in Job, job' = j, j.todo = << >>, j.left \subseteq clients,
           phase' # "saving" => j.left = {}, phase' = "clearing" => j.then # "none",
           j.restored => ~j.failsafe,
           (a' = a /\ phase' # "off") \/ a' = [apps |-> Empty, required |-> {}],
           ended' \in {"never", "whole", "cleared", "error", "crash", "abort"}
    PROVE  Types' /\ Stages' /\ Named' /\ Restored' /\ Required'
<1>1. IsApps(a') /\ OwnName((a').apps) /\ (phase' = "off" => (a').apps = Empty)
  <2>1. CASE a' = a /\ phase' # "off"
    BY <2>1 DEF IInv, Types, Named, Apps, IsApps
  <2>2. CASE a' = [apps |-> Empty, required |-> {}]
    BY <2>2, EmptyFacts
  <2> QED
    BY <2>1, <2>2
<1>2. job' \in Job'
  BY NothingToLoad
<1>3. Types'
  BY <1>1, <1>2 DEF IInv, Types, Apps, IsApps, Files
<1>4. Stages'
  BY <1>1 DEF Stages
<1>5. Named'
  BY <1>1 DEF IInv, Named, OwnName, Files
<1> QED
  BY <1>3, <1>4, <1>5, NotFilling

LEMMA FilesFacts ==
    ASSUME IInv
    PROVE  Files(saved) /\ Files(tmp) /\ Files(Empty)
BY EmptyFacts DEF IInv, Types, Named, Files

\* The session is over, and nothing that counts as a save was done.
LEMMA OverStep ==
    ASSUME IInv, NEW how \in {"cleared", "error", "crash", "abort"}, Over(how),
           UNCHANGED <<saved, tmp, states, clients, logins>>
    PROVE  IInv'
<1>1. phase' = "off" /\ a' = [apps |-> Empty, required |-> {}] /\ job' = Idle /\ ended' = how
  BY DEF Over
<1>2. Types' /\ Stages' /\ Named' /\ Restored' /\ Required'
  <2>1. Files(saved') /\ Files(tmp') /\ states' \subseteq 1..MaxState
    BY FilesFacts DEF IInv, Types
  <2> QED
    BY <1>1, <2>1, IdleFacts, EndKeeps
<1>3. Saves' /\ Saved'
  BY <1>1 DEF Saves, Saved
<1> QED
  BY <1>2, <1>3 DEF IInv

LEMMA BeginsStep ==
    ASSUME IInv, NEW autosave \in BOOLEAN, maybe_save_session(autosave)
    PROVE  IInv'
<1>1. phase = "running" /\ UNCHANGED <<saved, states, a, clients, ended, logins>>
  BY DEF maybe_save_session
<1>2. /\ Files(saved') /\ states' \subseteq 1..MaxState /\ clients \subseteq Client
      /\ ended' \in {"never", "whole", "cleared", "error", "crash", "abort"}
  BY <1>1, FilesFacts DEF IInv, Types
<1>3. CASE autosave
  <2> DEFINE new == [Idle EXCEPT !.left = clients]
  <2>1. tmp' = Empty /\ phase' = "saving" /\ job' = new
    BY <1>3 DEF maybe_save_session, get_empty_tmp_session_dir
  <2>2. /\ new \in Job /\ new.todo = << >> /\ new.left = clients /\ new.hash = {}
        /\ new.restored = FALSE
    BY <1>2, IdleFacts DEF Job, Idle
  <2> HIDE DEF new
  <2>3. Types' /\ Stages' /\ Named' /\ Restored' /\ Required'
    <3>1. Files(tmp')
      BY <2>1, FilesFacts
    <3> QED
      BY <1>1, <1>2, <2>1, <2>2, <3>1, EndKeeps
  <2>4. HasAll(Empty, {}, {})
    BY EmptyFacts, FS_EmptySet DEF HasAll
  <2>5. Saves'
    <3>1. HasAll(tmp', clients' \ job'.left, job'.hash)
      BY <1>1, <2>1, <2>2, <2>4
    <3>2. \A c \in clients : Exists(c.state)
      BY <1>1 DEF IInv, Saves
    <3> QED
      BY <1>1, <2>1, <2>2, <3>1, <3>2 DEF Saves, Exists
  <2> QED
    BY <2>1, <2>3, <2>5 DEF IInv, Saved
<1>4. CASE ~autosave
  <2> DEFINE new == [Idle EXCEPT !.then = "cleared"]
  <2>1. tmp' = tmp /\ phase' = "clearing" /\ job' = new
    BY <1>4 DEF maybe_save_session
  <2>2. /\ new \in Job /\ new.todo = << >> /\ new.left = {} /\ new.then = "cleared"
        /\ new.restored = FALSE
    BY IdleFacts DEF Job, Idle
  <2> HIDE DEF new
  <2>3. Types' /\ Stages' /\ Named' /\ Restored' /\ Required'
    <3>1. Files(tmp')
      BY <2>1, FilesFacts
    <3> QED
      BY <1>1, <1>2, <2>1, <2>2, <3>1, EndKeeps
  <2>4. Saves' /\ Saved'
    BY <2>1, <2>2 DEF Saves, Saved
  <2> QED
    BY <2>3, <2>4 DEF IInv
<1> QED
  BY <1>3, <1>4

\* What a client's program provides is found like any other file.
LEMMA ClientsFile ==
    ASSUME IInv, NEW c \in Client
    PROVE  /\ xsmp_save(c) \in File
           /\ xsmp_save(c).startup = c.startup /\ xsmp_save(c).state = c.state
<1> DEFINE dirs == desktop_dirs(<<saved>>, FALSE)
           f == FindIn(dirs, c.program)
           provides == IF f.name = None THEN {} ELSE f.file.provides
<1>1. dirs \in Seq(Installed \cup {saved})
  <2>1. /\ Applications \in Seq(Installed \cup {saved})
        /\ AutostartDirs \in Seq(Installed \cup {saved})
        /\ <<saved>> \in Seq(Installed \cup {saved})
    BY InstalledAssumption DEF Installed
  <2> QED
    BY <2>1 DEF desktop_dirs
<1> HIDE DEF dirs
<1>2. ASSUME f.name # None PROVE f.file \in File
  <2>1. PICK i \in 1..Len(dirs) : f.name \in DOMAIN dirs[i] /\ f.file = dirs[i][f.name]
    BY <1>1, <1>2, FindInFinds
  <2>2. dirs[i] \in Installed \cup {saved}
    BY <1>1
  <2>3. Directory(dirs[i])
    BY <2>2, InstalledAssumption DEF IInv, Types
  <2> QED
    BY <2>1, <2>3 DEF Directory
<1>3. xsmp_save(c) = [startup |-> c.startup, program |-> c.program, state |-> c.state,
                      provides |-> provides]
  BY Zenon DEF xsmp_save, dirs
<1> HIDE DEF f
<1>4. provides \in SUBSET Services
  BY <1>2 DEF File
<1> HIDE DEF provides
<1> QED
  BY <1>3, <1>4 DEF File, Client

\* The file of a client that is saved is a new one.
LEMMA NewFile ==
    ASSUME IInv, phase = "saving", NEW c \in job.left
    PROVE  /\ filename(c) \notin DOMAIN tmp /\ filename(c) \in {c.app, c.startup}
           /\ filename(c) \in Names
           /\ filename(c) \in Ids => filename(c) = c.startup
<1>1. c \in clients /\ c \in Client /\ c.startup \in Ids /\ c.app \in Names \cup {None}
  BY DEF IInv, Types, Stages, Client
<1>2. HasAll(tmp, clients \ job.left, job.hash)
  BY DEF IInv, Saves
<1>3. c.startup \notin DOMAIN tmp
  <2> SUFFICES ASSUME c.startup \in DOMAIN tmp PROVE FALSE
    OBVIOUS
  <2>1. tmp[c.startup].startup = c.startup
    BY <1>1 DEF IInv, Named, OwnName
  <2>2. PICK e \in clients \ job.left : tmp[c.startup].startup = e.startup
    BY <1>2 DEF HasAll, FileOf
  <2> QED
    BY <1>1, <2>1, <2>2 DEF IInv, Named
<1> QED
  BY <1>1, <1>3 DEF filename, IInv, Named, Names

\* A file that is put into a directory, or taken away.
LEMMA PutFile ==
    ASSUME NEW d, Files(d), NEW n \in Names, NEW f \in File, f.startup # None,
           n \in Ids => f.startup = n
    PROVE  Files(Put(d, n, f))
BY DEF Files, Directory, OwnName, Put

LEMMA TakeFile ==
    ASSUME NEW d, Files(d), NEW n
    PROVE  Files(Restrict(d, DOMAIN d \ {n}))
BY DEF Files, Directory, OwnName, Restrict

LEMMA SaveOneStep ==
    ASSUME IInv, NEW c \in clients, save_one_client(c)
    PROVE  IInv'
<1>1. /\ phase = "saving" /\ c \in job.left
      /\ UNCHANGED <<saved, states, clients, logins>>
  BY DEF save_one_client
<1>2. /\ c \in Client /\ c.startup \in Ids /\ clients \subseteq Client /\ job.left \subseteq clients
      /\ job \in Job /\ job.todo = << >> /\ (job.restored => ~job.failsafe)
      /\ ended \in {"never", "whole", "cleared", "error", "crash", "abort"}
  BY <1>1 DEF IInv, Types, Stages, Client
<1>3. Files(saved') /\ Files(tmp) /\ states' \subseteq 1..MaxState
  BY <1>1, FilesFacts DEF IInv, Types
<1>4. /\ HasAll(tmp, clients \ job.left, job.hash) /\ \A s \in job.hash : Exists(s)
      /\ \A e \in clients : Exists(e.state)
  BY <1>1 DEF IInv, Saves
<1>5. CASE "write" \in Faults /\ tmp' = tmp /\ UNCHANGED <<a, ended>>
            /\ phase' = "clearing" /\ job' = [Idle EXCEPT !.then = "error"]
  <2> DEFINE new == [Idle EXCEPT !.then = "error"]
  <2>1. /\ new \in Job /\ new.todo = << >> /\ new.left = {} /\ new.then = "error"
        /\ new.restored = FALSE
    BY IdleFacts DEF Job, Idle
  <2>2. job' = new
    BY <1>5
  <2> HIDE DEF new
  <2>3. Types' /\ Stages' /\ Named' /\ Restored' /\ Required'
    BY <1>1, <1>2, <1>3, <1>5, <2>1, <2>2, EndKeeps
  <2>4. Saves' /\ Saved'
    BY <1>5, <2>1, <2>2 DEF Saves, Saved
  <2> QED
    BY <2>3, <2>4 DEF IInv
<1>6. CASE tmp' = tmp /\ Over("abort")
  BY <1>1, <1>6, OverStep
<1>7. CASE /\ tmp' = IF c.restart THEN Put(tmp, filename(c), xsmp_save(c)) ELSE tmp
           /\ job' = [job EXCEPT !.left = @ \ {c},
                                 !.hash = IF c.restart THEN @ \cup {c.state} ELSE @]
           /\ UNCHANGED <<phase, a, ended>>
  <2> DEFINE hash == IF c.restart THEN job.hash \cup {c.state} ELSE job.hash
             left == job.left \ {c}
             done == clients \ job.left
             new == [job EXCEPT !.left = left, !.hash = hash]
             n == filename(c)
             f == xsmp_save(c)
  <2>1. /\ new \in Job /\ new.todo = << >> /\ new.left = left /\ new.hash = hash
        /\ new.restored = job.restored /\ new.failsafe = job.failsafe
    BY <1>2 DEF Job, Client
  <2>2. job' = new
    BY <1>2, <1>7 DEF Job
  <2> HIDE DEF new
  <2>3. f \in File /\ f.startup = c.startup /\ f.state = c.state
    BY <1>2, ClientsFile
  <2>4. /\ n \notin DOMAIN tmp /\ n \in {c.app, c.startup}
        /\ n \in Names
        /\ n \in Ids => n = c.startup
    BY <1>1, NewFile
  <2>5. tmp' = IF c.restart THEN Put(tmp, n, f) ELSE tmp
    BY <1>7
  <2> HIDE DEF n, f
  <2>6. Files(tmp')
    <3>1. c.startup # None
      BY <1>2, InstalledAssumption DEF Names
    <3>2. Files(Put(tmp, n, f))
      BY <1>3, <2>3, <2>4, <3>1, PutFile
    <3> QED
      BY <1>3, <2>5, <3>2
  <2>7. Types' /\ Stages' /\ Named' /\ Restored' /\ Required'
    BY <1>1, <1>2, <1>3, <1>7, <2>1, <2>2, <2>6, EndKeeps
  <2>8. clients \ left = done \cup {c}
    BY <1>2
  <2>9. HasAll(tmp', done \cup {c}, hash)
    <3>1. CASE ~c.restart
      BY <1>4, <2>5, <3>1 DEF HasAll
    <3>2. CASE c.restart
      <4>1. DOMAIN tmp' = DOMAIN tmp \cup {n} /\ tmp'[n] = f /\ \A m \in DOMAIN tmp : tmp'[m] = tmp[m]
        BY <2>4, <2>5, <3>2 DEF Put
      <4>2. IsFiniteSet(DOMAIN tmp')
        BY <1>4, <4>1, FS_AddElement DEF HasAll
      <4>3. FileOf(tmp', n, c)
        BY <2>3, <2>4, <4>1 DEF FileOf
      <4>4. \A m \in DOMAIN tmp, e \in clients : FileOf(tmp, m, e) => FileOf(tmp', m, e)
        BY <4>1 DEF FileOf
      <4>5. \A m \in DOMAIN tmp : tmp[m].startup # c.startup
        BY <1>1, <1>2, <1>4 DEF HasAll, FileOf, IInv, Named
      <4>6. \A m \in DOMAIN tmp' : \E e \in done \cup {c} : e.restart /\ FileOf(tmp', m, e)
        BY <1>4, <3>2, <4>1, <4>3, <4>4 DEF HasAll
      <4>7. \A e \in done \cup {c} : e.restart =>
               e.state \in hash /\ \E m \in DOMAIN tmp' : tmp'[m].startup = e.startup
        BY <1>4, <2>3, <3>2, <4>1 DEF HasAll
      <4>8. \A m, o \in DOMAIN tmp' : tmp'[m].startup = tmp'[o].startup => m = o
        BY <1>4, <2>3, <4>1, <4>5 DEF HasAll
      <4> QED
        BY <4>2, <4>6, <4>7, <4>8 DEF HasAll
    <3> QED
      BY <3>1, <3>2
  <2>10. \A s \in hash : Exists(s)
    BY <1>1, <1>4
  <2>11. Saves'
    BY <1>1, <1>4, <1>7, <2>1, <2>2, <2>8, <2>9, <2>10 DEF Saves, Exists
  <2> QED
    BY <1>1, <1>7, <2>7, <2>11 DEF IInv, Saved
<1> QED
  BY <1>1, <1>5, <1>6, <1>7 DEF save_one_client

LEMMA AllSavedStep ==
    ASSUME IInv, csm_session_save
    PROVE  IInv'
<1> DEFINE new == [job EXCEPT !.then = "whole"]
<1>1. /\ phase = "saving" /\ job.left = {} /\ phase' = "clearing" /\ job' = new
      /\ UNCHANGED <<saved, tmp, states, a, clients, ended, logins>>
  BY DEF csm_session_save
<1>2. /\ new \in Job /\ new.todo = << >> /\ new.left = {} /\ new.then = "whole"
      /\ new.hash = job.hash /\ (new.restored => ~new.failsafe)
  BY <1>1 DEF IInv, Types, Stages, Job
<1> HIDE DEF new
<1>3. Types' /\ Stages' /\ Named' /\ Restored' /\ Required'
  <2>1. /\ Files(saved') /\ Files(tmp') /\ states' \subseteq 1..MaxState
        /\ ended' \in {"never", "whole", "cleared", "error", "crash", "abort"}
    BY <1>1, FilesFacts DEF IInv, Types
  <2> QED
    BY <1>1, <1>2, <2>1, EndKeeps
<1>4. Saves' /\ Saved'
  BY <1>1, <1>2 DEF IInv, Saves, Saved, Exists
<1> QED
  BY <1>3, <1>4 DEF IInv

\* The states that the new session names are not discarded.
LEMMA DiscardStep ==
    ASSUME IInv, NEW n \in Names, csm_session_clear_one_client(n)
    PROVE  IInv'
<1> DEFINE new == [job EXCEPT !.open = n]
<1>1. /\ phase = "clearing" /\ states' = states \ Discarded(Cleared[n]) /\ job' = new
      /\ UNCHANGED <<saved, tmp, phase, a, clients, ended, logins>>
  BY DEF csm_session_clear_one_client
<1>2. /\ new \in Job /\ new.todo = << >> /\ new.left = {} /\ new.then = job.then
      /\ new.hash = job.hash /\ (new.restored => ~new.failsafe) /\ new.then # "none"
      /\ job.left = {}
  BY <1>1 DEF IInv, Types, Stages, Job
<1> HIDE DEF new
<1>3. Types' /\ Stages' /\ Named' /\ Restored' /\ Required'
  <2>1. /\ Files(saved') /\ Files(tmp') /\ states' \subseteq 1..MaxState
        /\ ended' \in {"never", "whole", "cleared", "error", "crash", "abort"}
    BY <1>1, FilesFacts DEF IInv, Types
  <2> QED
    BY <1>1, <1>2, <2>1, EndKeeps
<1>4. \A s \in job.hash : Exists(s) => Exists(s)'
  BY <1>1 DEF Discarded, Exists
<1>5. Saves' /\ Saved'
  BY <1>1, <1>2, <1>4 DEF IInv, Saves, Saved
<1> QED
  BY <1>3, <1>5 DEF IInv

LEMMA UnlinkStep ==
    ASSUME IInv, unlink
    PROVE  IInv'
<1> DEFINE new == [job EXCEPT !.open = None]
<1>1. /\ phase = "clearing" /\ job' = new
      /\ IF job.then = "error"
         THEN tmp' = Restrict(tmp, DOMAIN tmp \ {job.open}) /\ saved' = saved
         ELSE saved' = Restrict(saved, DOMAIN saved \ {job.open}) /\ tmp' = tmp
      /\ UNCHANGED <<states, phase, a, clients, ended, logins>>
  BY DEF unlink
<1>2. /\ new \in Job /\ new.todo = << >> /\ new.left = {} /\ new.then = job.then
      /\ new.hash = job.hash /\ (new.restored => ~new.failsafe) /\ new.then # "none"
      /\ job.left = {}
  BY <1>1 DEF IInv, Types, Stages, Job
<1> HIDE DEF new
<1>3. Types' /\ Stages' /\ Named' /\ Restored' /\ Required'
  <2>1. Files(saved') /\ Files(tmp')
    BY <1>1, FilesFacts, TakeFile
  <2>2. /\ states' \subseteq 1..MaxState
        /\ ended' \in {"never", "whole", "cleared", "error", "crash", "abort"}
    BY <1>1 DEF IInv, Types
  <2> QED
    BY <1>1, <1>2, <2>1, <2>2, EndKeeps
<1>4. Saves' /\ Saved'
  BY <1>1, <1>2 DEF IInv, Saves, Saved, Exists
<1> QED
  BY <1>3, <1>4 DEF IInv

\* A directory that has them all is whole.
LEMMA AllAreWhole ==
    ASSUME HasAll(tmp, clients, job.hash), \A s \in job.hash : Exists(s)
    PROVE  /\ StartupIds(tmp) = {c.startup : c \in {e \in clients : e.restart}}
           /\ Cardinality(DOMAIN tmp) = Cardinality(StartupIds(tmp))
           /\ \A n \in DOMAIN tmp : tmp[n].state = 0 \/ tmp[n].state \in states
<1>1. StartupIds(tmp) = {c.startup : c \in {e \in clients : e.restart}}
  <2>1. ASSUME NEW n \in DOMAIN tmp
        PROVE  tmp[n].startup \in {c.startup : c \in {e \in clients : e.restart}}
    BY DEF HasAll, FileOf
  <2>2. ASSUME NEW c \in clients, c.restart PROVE c.startup \in StartupIds(tmp)
    BY <2>2 DEF HasAll, StartupIds
  <2> QED
    BY <2>1, <2>2 DEF StartupIds
<1>2. Cardinality(DOMAIN tmp) = Cardinality(StartupIds(tmp))
  <2> DEFINE map == [n \in DOMAIN tmp |-> tmp[n].startup]
  <2>1. map \in Bijection(DOMAIN tmp, StartupIds(tmp))
    BY DEF HasAll, StartupIds, Bijection, Injection, Surjection, IsInjective
  <2>2. ExistsBijection(DOMAIN tmp, StartupIds(tmp))
    BY <2>1 DEF ExistsBijection
  <2> QED
    BY <2>2, FS_Bijection DEF HasAll
<1>3. ASSUME NEW n \in DOMAIN tmp PROVE tmp[n].state = 0 \/ tmp[n].state \in states
  <2>1. PICK c \in clients : c.restart /\ FileOf(tmp, n, c)
    BY DEF HasAll
  <2> QED
    BY <2>1 DEF HasAll, FileOf, Exists
<1> QED
  BY <1>1, <1>2, <1>3

LEMMA RenameStep ==
    ASSUME IInv, rename
    PROVE  IInv'
<1>1. /\ phase = "clearing" /\ Over(job.then) /\ UNCHANGED <<states, clients, logins>>
      /\ IF job.then = "whole" THEN saved' = tmp /\ tmp' = Empty ELSE UNCHANGED <<saved, tmp>>
  BY DEF rename
<1>2. job.then \in {"whole", "cleared", "error"} /\ job.left = {}
  BY <1>1 DEF IInv, Types, Stages, Job
<1>3. CASE job.then # "whole"
  <2>1. job.then \in {"cleared", "error", "crash", "abort"}
    BY <1>2, <1>3
  <2> QED
    BY <1>1, <1>3, <2>1, OverStep
<1>4. CASE job.then = "whole"
  <2>1. /\ phase' = "off" /\ a' = [apps |-> Empty, required |-> {}] /\ job' = Idle /\ ended' = "whole"
        /\ saved' = tmp /\ tmp' = Empty
    BY <1>1, <1>4 DEF Over
  <2>2. Types' /\ Stages' /\ Named' /\ Restored' /\ Required'
    <3>1. Files(saved') /\ Files(tmp') /\ states' \subseteq 1..MaxState
      BY <1>1, <2>1, FilesFacts DEF IInv, Types
    <3> QED
      BY <1>1, <2>1, <3>1, IdleFacts, EndKeeps
  <2>3. Saves'
    BY <2>1 DEF Saves
  <2>4. HasAll(tmp, clients, job.hash) /\ \A s \in job.hash : Exists(s)
    <3>1. clients \ job.left = clients
      BY <1>2
    <3> QED
      BY <1>1, <1>4, <3>1 DEF IInv, Saves
  <2>5. Saved'
    BY <1>1, <2>1, <2>4, AllAreWhole DEF Saved, Whole, StartupIds
  <2> QED
    BY <2>2, <2>3, <2>5 DEF IInv
<1> QED
  BY <1>3, <1>4

LEMMA CrashStep ==
    ASSUME IInv, Crash
    PROVE  IInv'
BY OverStep DEF Crash

LEMMA StutteringStep ==
    ASSUME IInv, UNCHANGED vars
    PROVE  IInv'
<1> USE DEF vars
<1>1. Types'
  BY DEF IInv, Types, Apps, Job, Item
<1>2. Stages' /\ Named'
  BY DEF IInv, Stages, Named, OwnName
<1>3. Saves' /\ Saved'
  BY DEF IInv, Saves, HasAll, FileOf, Exists, Saved, Whole, StartupIds
<1>4. Restored' /\ Required'
  BY FillingStays DEF IInv
<1> QED
  BY <1>1, <1>2, <1>3, <1>4 DEF IInv

-----------------------------------------------------------------------------
(* The invariant, and what follows from it.                                *)

LEMMA NextHolds == IInv /\ [Next]_vars => IInv'
<1> SUFFICES ASSUME IInv, [Next]_vars PROVE IInv'
  OBVIOUS
<1>1. CASE csm_session_fill
  BY <1>1, FillStep
<1>2. ASSUME NEW runnable \in BOOLEAN, NEW failsafe \in BOOLEAN, NEW autosave \in BOOLEAN,
             get_session_keyfile(runnable, failsafe, autosave)
      PROVE  IInv'
  BY <1>2, KeyfileStep
<1>3. CASE LoadRequired
  BY <1>3, LoadRequiredStep
<1>4. CASE csm_manager_add_autostart_apps_from_dir
  BY <1>4, DirStep
<1>5. CASE FillEnds
  BY <1>5, FillEndsStep
<1>6. ASSUME NEW n \in DOMAIN a.apps, AppRegisters(n) PROVE IInv'
  BY <1>6, AppRegistersStep
<1>7. ASSUME NEW p \in Programs, Launch(p) PROVE IInv'
  BY <1>7, LaunchStep
<1>8. ASSUME NEW c \in clients, Leaves(c) \/ ClientSaves(c) \/ save_one_client(c) PROVE IInv'
  BY <1>8, LeavesStep, ClientSavesStep, SaveOneStep
<1>9. ASSUME NEW autosave \in BOOLEAN, maybe_save_session(autosave) PROVE IInv'
  BY <1>9, BeginsStep
<1>10. CASE csm_session_save
  BY <1>10, AllSavedStep
<1>11. ASSUME NEW n \in Names, csm_session_clear_one_client(n) PROVE IInv'
  BY <1>11, DiscardStep
<1>12. CASE unlink
  BY <1>12, UnlinkStep
<1>13. CASE rename
  BY <1>13, RenameStep
<1>14. CASE Crash
  BY <1>14, CrashStep
<1>15. CASE UNCHANGED vars
  BY <1>15, StutteringStep
<1> QED
  BY <1>1, <1>2, <1>3, <1>4, <1>5, <1>6, <1>7, <1>8, <1>9, <1>10, <1>11, <1>12, <1>13, <1>14,
     <1>15 DEF Next

\* Every reachable state satisfies the inductive invariant.
THEOREM InvHolds == Spec => []IInv
BY InitHolds, NextHolds, PTL DEF Spec

\* Whatever is installed: apps, files and clients are well-formed, no two
\* clients have one startup id, and what is required is among the apps.
THEOREM TypeCorrect == Spec => []TypeOK
<1>1. IInv => TypeOK
  BY DEF IInv, Types, Stages, Named, Job, TypeOK
<1> QED
  BY <1>1, InvHolds, PTL

\* csm_session_save: after a logout that saved the session, the directory has
\* one file for each client that can be restarted and no other, though any
\* number of saves before was cut short.
THEOREM WholeIsSaved == Spec => []SavedIsWhole
<1>1. IInv => SavedIsWhole
  BY DEF IInv, Saved, Whole, SavedIsWhole
<1> QED
  BY <1>1, InvHolds, PTL

\* csm_session_clear_one_client: what is discarded with the last session is
\* no state that a saved client of this one names.
THEOREM StatesAreKept == Spec => []StatesSurvive
<1>1. IInv => StatesSurvive
  BY DEF IInv, Saved, Whole, StatesSurvive
<1> QED
  BY <1>1, InvHolds, PTL

\* csm_session_fill: a session that begins with the saved one has an app for
\* each of its files that is not blacklisted, or one that does its service.
THEOREM EverybodyIsBack == Spec => []EverybodyComesBack
<1>1. IInv => EverybodyComesBack
  <2> SUFFICES ASSUME IInv, phase = "running", job.restored, NEW n \in DOMAIN saved
               PROVE  Back(n)
    BY DEF EverybodyComesBack, Back
  <2>1. ~Waiting(n)
    BY DEF IInv, Stages, Waiting
  <2> QED
    BY <2>1 DEF IInv, Restored
<1> QED
  BY <1>1, InvHolds, PTL

\* csm_manager_add_required_app: once the session is filled, what the key file
\* requires is an app that is marked as required, or done by such an app.
THEOREM AllRequiredAreThere == Spec => []RequiredAreThere
<1>1. IInv => RequiredAreThere
  <2> SUFFICES ASSUME IInv, phase = "running" PROVE RequiredAreThere
    BY DEF RequiredAreThere
  <2>1. \A n, ps : ~Todo(n, ps)
    BY DEF IInv, Stages, Todo
  <2> QED
    BY <2>1 DEF IInv, Required, RequiredAreThere
<1> QED
  BY <1>1, InvHolds, PTL
=============================================================================
