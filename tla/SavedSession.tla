---------------------------- MODULE SavedSession ----------------------------
(***************************************************************************)
(* The saved session, from one login to the next: the session is filled    *)
(* with what the last one saved and with what is always started, clients   *)
(* register, come, go and save their states, and the end of the session    *)
(* writes a desktop file for each of them (csm-session-save.c), runs the   *)
(* discard commands of states that are no longer needed, and puts the new  *)
(* directory in the place of the old one.  The machine may crash at any    *)
(* moment, and a client's file may fail to be written.                     *)
(*                                                                         *)
(* The state a client keeps, which its restart and its discard command     *)
(* name, is a number; 0 is none.  How apps are started is Startup's, how a *)
(* logout comes about EndSession's.  Nobody uninstalls a program.          *)
(***************************************************************************)
EXTENDS SessionFill

CONSTANTS
    Session,        \* the session that is asked for
    Programs,       \* what the user starts by hand
    Ids,            \* bound: startup ids
    MaxState,       \* bound: states that are kept
    MaxClients,     \* bound: clients at a time
    MaxLogins,      \* bound: logins
    Faults          \* what may happen: a crash, a file that is not written

ASSUME SavedSessionAssumption ==
    /\ Faults \subseteq {"crash", "write"}
    /\ MaxState \in Nat /\ MaxClients \in Nat /\ MaxLogins \in Nat

VARIABLES
    saved,          \* the directory saved-session
    tmp,            \* and saved-session.new
    states,         \* the states that exist
    phase,          \* of the session; off is logged out
    a,              \* its apps, and the required ones
    clients,        \* the store; after the end, the clients there were
    job,            \* what is left to do while the session loads or saves
    ended,          \* how the last session ended
    logins

vars == <<saved, tmp, states, phase, a, clients, job, ended, logins>>

-----------------------------------------------------------------------------
(* Types.                                                                  *)

Installed == ToSet(Applications) \cup ToSet(AutostartDirs)
Names == Ids \cup UNION {DOMAIN d : d \in Installed}
AllPrograms == Programs \cup UNION {{d[n].program : n \in DOMAIN d} : d \in Installed}
Services == (UNION {UNION {d[n].provides : n \in DOMAIN d} : d \in Installed})
              \cup UNION {{k.providers[i][1] : i \in DOMAIN k.providers} :
                             k \in UNION {ToSet(Sessions[s]) : s \in DOMAIN Sessions}}

\* A desktop file, and the app that is made of it.
File == [startup : Ids \cup {None}, program : AllPrograms, provides : SUBSET Services,
         state : 0..MaxState]

Client ==
    [ startup : Ids, app : Names \cup {None}, program : AllPrograms,
      restart : BOOLEAN,            \* has a restart command and is not RestartNever
      state : 0..MaxState ]

Directory(d) ==
    /\ DOMAIN d \subseteq Names /\ d = [n \in DOMAIN d |-> d[n]]
    /\ \A n \in DOMAIN d : d[n] \in File

Keyfile == [valid : {TRUE}, components : Seq(STRING), providers : Seq(STRING \X STRING),
            fallback : DOMAIN Sessions \cup {None}]

\* What is installed is well-formed, and no name of a file is a startup id: such
\* an id is a long number, with the time and the process id in it.
ASSUME InstalledAssumption ==
    /\ Applications \in Seq(ToSet(Applications)) /\ AutostartDirs \in Seq(ToSet(AutostartDirs))
    /\ \A d \in Installed : Directory(d) /\ DOMAIN d \cap Ids = {}
    /\ None \notin Names
    /\ Session \in DOMAIN Sessions
    /\ \A s \in DOMAIN Sessions : Sessions[s] \in Seq(Keyfile \cup {NoKeyfile})

\* session: whose key file is looked for; keyfile: the one found; restored: it began with the saved one.  left: the
\* clients to be saved; hash: the states that must not be discarded; open: the
\* file that is being removed; then: what follows when all are removed.
Idle == [session |-> None, todo |-> << >>, keyfile |-> NoKeyfile, failsafe |-> FALSE, restored |-> FALSE,
         left |-> {}, hash |-> {}, open |-> None, then |-> "none"]

TypeOK ==
    /\ Directory(saved) /\ Directory(tmp) /\ Directory(a.apps)
    /\ \A n \in DOMAIN a.apps : a.apps[n].startup # None
    /\ a.required \subseteq DOMAIN a.apps
    /\ states \subseteq 1..MaxState
    /\ phase \in {"off", "asking", "loading", "running", "saving", "clearing"}
    /\ clients \subseteq Client /\ Cardinality(clients) <= MaxClients
    /\ \A c, e \in clients : c.startup = e.startup => c = e
    /\ job.left \subseteq clients /\ job.hash \subseteq 0..MaxState
    /\ job.then \in {"none", "whole", "cleared", "error"}
    /\ ended \in {"never", "whole", "cleared", "error", "crash", "abort"}
    /\ logins \in 0..MaxLogins

\* The session is gone, and the machine remembers what is on disk.
Over(how) ==
    /\ phase' = "off" /\ a' = [apps |-> Empty, required |-> {}]
    /\ job' = Idle /\ ended' = how

-----------------------------------------------------------------------------
(* Login.                                                                  *)

StartupIds(d) == {d[n].startup : n \in DOMAIN d}

\* csm_util_generate_startup_id: one that nobody remembers.
UsedIds == StartupIds(saved) \cup StartupIds(tmp) \cup StartupIds(a.apps)
             \cup {c.startup : c \in clients}
IdIsLeft == Ids \ UsedIds # {}
csm_util_generate_startup_id == CHOOSE i \in Ids : i \notin UsedIds

csm_session_fill ==
    /\ phase = "off" /\ logins < MaxLogins
    /\ phase' = "asking" /\ job' = [Idle EXCEPT !.session = Session]
    /\ UNCHANGED <<saved, tmp, states, a, clients, ended, logins>>

\* runnable: the session's helper agrees.  Without a session that can run, and
\* without another fallback, the session manager gives up.  The setting of
\* autosave may change between this and the end.
get_session_keyfile(runnable, failsafe, autosave) ==
    LET keyfile == find_valid_session_keyfile(job.session)
        fallback == IF keyfile.valid THEN keyfile.fallback ELSE None
    IN  /\ phase = "asking"
        /\ IF keyfile.valid /\ runnable /\ check_required(keyfile)
           THEN /\ phase' = "loading" /\ logins' = logins + 1 /\ clients' = {}
                /\ job' = [Idle EXCEPT
                             !.keyfile = keyfile, !.failsafe = failsafe,
                             !.restored = autosave /\ ~failsafe,
                             !.todo = load_standard_apps(keyfile, saved, failsafe, autosave)]
           ELSE /\ IF fallback # None
                   THEN phase' = "asking" /\ job' = [job EXCEPT !.session = fallback]
                   ELSE phase' = "off" /\ job' = Idle
                /\ UNCHANGED <<clients, logins>>
        /\ UNCHANGED <<saved, tmp, states, a, ended>>

\* What is looked for by name is looked for in the saved session first, unless
\* this is a failsafe login, which restores nothing.
csm_util_find_desktop_file_for_app_name(name) ==
    FindIn(desktop_dirs(IF job.failsafe THEN << >> ELSE <<saved>>, TRUE), name)

csm_autostart_app_new(file) ==
    [file EXCEPT !.startup = IF @ = None THEN csm_util_generate_startup_id ELSE @]

LoadRequired ==
    /\ phase = "loading" /\ job.todo # << >> /\ Head(job.todo).kind = "required" /\ IdIsLeft
    /\ LET item == Head(job.todo)
           f == csm_util_find_desktop_file_for_app_name(item.name)
       IN  a' = IF f.name = None THEN a
                ELSE add_autostart_app_internal(a, f.name, csm_autostart_app_new(f.file),
                                                item.provides, TRUE)
    /\ job' = [job EXCEPT !.todo = Tail(@)]
    /\ UNCHANGED <<saved, tmp, states, phase, clients, ended, logins>>

csm_manager_add_autostart_apps_from_dir ==
    /\ phase = "loading" /\ job.todo # << >> /\ Head(job.todo).kind = "dir"
    /\ LET item == Head(job.todo)
       IN  \/ \E n \in item.left :
                 /\ IdIsLeft
                 /\ a' = IF csm_manager_get_app_is_blacklisted(n) THEN a
                         ELSE add_autostart_app_internal(a, n, csm_autostart_app_new(item.files[n]),
                                                         {}, FALSE)
                 /\ job' = [job EXCEPT !.todo[1] = [item EXCEPT !.left = @ \ {n}]]
           \/ item.left = {} /\ job' = [job EXCEPT !.todo = Tail(@)] /\ a' = a
    /\ UNCHANGED <<saved, tmp, states, phase, clients, ended, logins>>

FillEnds ==
    /\ phase = "loading" /\ job.todo = << >> /\ phase' = "running"
    /\ UNCHANGED <<saved, tmp, states, a, clients, job, ended, logins>>

-----------------------------------------------------------------------------
(* The session runs.                                                       *)

Running == phase = "running" /\ UNCHANGED <<saved, tmp, phase, a, job, ended, logins>>

\* on_xsmp_client_register_request, with an app's startup id and without any.
Registers(client) ==
    /\ Running /\ Cardinality(clients) < MaxClients
    /\ clients' = clients \cup {client} /\ UNCHANGED states

\* A client that is started with a state that was lost begins without any.
ClientOf(n, restart) ==
    [ startup |-> a.apps[n].startup, app |-> n, program |-> a.apps[n].program,
      restart |-> restart,
      state |-> IF a.apps[n].state \in states THEN a.apps[n].state ELSE 0 ]

AppRegisters(n) ==
    /\ a.apps[n].startup \notin {c.startup : c \in clients}
    /\ \E restart \in BOOLEAN : Registers(ClientOf(n, restart))

Launch(p) ==
    IdIsLeft /\ Registers([startup |-> csm_util_generate_startup_id, app |-> None, program |-> p,
               restart |-> TRUE, state |-> 0])

Leaves(c) == Running /\ clients' = clients \ {c} /\ UNCHANGED states

\* A new state, one that no file and no client has a name for.
ClientSaves(c) ==
    LET known == states \cup {saved[n].state : n \in DOMAIN saved} \cup {e.state : e \in clients}
        s == CHOOSE i \in 1..MaxState : i \notin known
    IN  /\ Running /\ ~(1..MaxState \subseteq known)
        /\ states' = states \cup {s}
        /\ clients' = (clients \ {c}) \cup {[c EXCEPT !.state = s]}

-----------------------------------------------------------------------------
(* The end of the session.                                                 *)

\* Mutant: what a save that was cut short left there stays.
get_empty_tmp_session_dir_as_it_is == tmp

get_empty_tmp_session_dir == Empty

maybe_save_session(autosave) ==
    /\ phase = "running"
    /\ IF autosave
       THEN /\ tmp' = get_empty_tmp_session_dir
            /\ phase' = "saving" /\ job' = [Idle EXCEPT !.left = clients]
       ELSE /\ phase' = "clearing" /\ job' = [Idle EXCEPT !.then = "cleared"]
            /\ UNCHANGED tmp
    /\ UNCHANGED <<saved, states, a, clients, ended, logins>>

\* The desktop file that the client's program has brings what it provides.
xsmp_save(c) ==
    LET f == FindIn(desktop_dirs(<<saved>>, FALSE), c.program)
    IN  [startup |-> c.startup, program |-> c.program, state |-> c.state,
         provides |-> IF f.name = None THEN {} ELSE f.file.provides]

filename(c) == IF c.app = None \/ c.app \in DOMAIN tmp THEN c.startup ELSE c.app

\* After an error the message is freed before it is logged, and freed again:
\* the session manager may go on, or end here.
save_one_client(c) ==
    /\ phase = "saving" /\ c \in job.left
    /\ \/ /\ tmp' = IF c.restart THEN Put(tmp, filename(c), xsmp_save(c)) ELSE tmp
          /\ job' = [job EXCEPT !.left = @ \ {c},
                                !.hash = IF c.restart THEN @ \cup {c.state} ELSE @]
          /\ UNCHANGED <<phase, a, ended>>
       \/ /\ "write" \in Faults /\ c.restart /\ tmp' = tmp
          /\ \/ phase' = "clearing" /\ job' = [Idle EXCEPT !.then = "error"] /\ UNCHANGED <<a, ended>>
             \/ Over("abort")
    /\ UNCHANGED <<saved, states, clients, logins>>

csm_session_save ==
    /\ phase = "saving" /\ job.left = {}
    /\ phase' = "clearing" /\ job' = [job EXCEPT !.then = "whole"]
    /\ UNCHANGED <<saved, tmp, states, a, clients, ended, logins>>

\* The directory that is cleared: the new one if it cannot be finished.
Cleared == IF job.then = "error" THEN tmp ELSE saved

\* Mutant: the states that the new directory names are discarded as well.
Discarded_with_the_rest(f) == {f.state}

Discarded(f) == {f.state} \ job.hash

csm_session_clear_one_client(n) ==
    /\ phase = "clearing" /\ job.open = None /\ n \in DOMAIN Cleared
    /\ states' = states \ Discarded(Cleared[n])
    /\ job' = [job EXCEPT !.open = n]
    /\ UNCHANGED <<saved, tmp, phase, a, clients, ended, logins>>

unlink ==
    /\ phase = "clearing" /\ job.open # None
    /\ IF job.then = "error"
       THEN tmp' = Restrict(tmp, DOMAIN tmp \ {job.open}) /\ saved' = saved
       ELSE saved' = Restrict(saved, DOMAIN saved \ {job.open}) /\ tmp' = tmp
    /\ job' = [job EXCEPT !.open = None]
    /\ UNCHANGED <<states, phase, a, clients, ended, logins>>

rename ==
    /\ phase = "clearing" /\ job.open = None /\ Cleared = Empty
    /\ IF job.then = "whole" THEN saved' = tmp /\ tmp' = Empty ELSE UNCHANGED <<saved, tmp>>
    /\ Over(job.then)
    /\ UNCHANGED <<states, clients, logins>>

Crash ==
    /\ "crash" \in Faults /\ phase # "off" /\ Over("crash")
    /\ UNCHANGED <<saved, tmp, states, clients, logins>>

-----------------------------------------------------------------------------
(* The specification.                                                      *)

Init ==
    /\ saved = Empty /\ tmp = Empty /\ states = {}
    /\ phase = "off" /\ a = [apps |-> Empty, required |-> {}]
    /\ clients = {} /\ job = Idle /\ ended = "never" /\ logins = 0

Next ==
    \/ csm_session_fill
    \/ \E runnable, failsafe, autosave \in BOOLEAN :
          get_session_keyfile(runnable, failsafe, autosave)
    \/ LoadRequired
    \/ csm_manager_add_autostart_apps_from_dir
    \/ FillEnds
    \/ \E n \in DOMAIN a.apps : AppRegisters(n)
    \/ \E p \in Programs : Launch(p)
    \/ \E c \in clients : Leaves(c) \/ ClientSaves(c) \/ save_one_client(c)
    \/ \E autosave \in BOOLEAN : maybe_save_session(autosave)
    \/ csm_session_save
    \/ \E n \in Names : csm_session_clear_one_client(n)
    \/ unlink
    \/ rename
    \/ Crash

Spec == Init /\ [][Next]_vars

-----------------------------------------------------------------------------
(* Properties.                                                             *)

\* csm_session_save: after a logout that saved the session, the directory has
\* one file for each client that can be restarted and no other, whatever
\* earlier saves, cut short by a crash or by an error, left behind.
SavedIsWhole ==
    phase = "off" /\ ended = "whole" =>
        /\ StartupIds(saved) = {c.startup : c \in {e \in clients : e.restart}}
        /\ Cardinality(DOMAIN saved) = Cardinality(StartupIds(saved))

\* csm_session_clear_one_client: discarding what the last session saved does
\* not take away a state that a client of this one still uses.
StatesSurvive ==
    phase = "off" /\ ended = "whole" =>
        \A n \in DOMAIN saved : saved[n].state = 0 \/ saved[n].state \in states

\* csm_session_fill: a session that begins with the saved one has an app for
\* each of its files, with the client's startup id, unless the file's name is
\* blacklisted or another app does the same service.
EverybodyComesBack ==
    phase = "running" /\ job.restored =>
        \A n \in DOMAIN saved :
            \/ saved[n].startup \in StartupIds(a.apps)
            \/ csm_manager_get_app_is_blacklisted(n)
            \/ \E s \in saved[n].provides : Provide(a, s) # {}

IsRequired(services) == \E s \in services : Provide(a, s) \cap a.required # {}
IsRequiredByName(n) ==
    LET f == csm_util_find_desktop_file_for_app_name(n)
    IN  f.name \in a.required \/ IsRequired(f.file.provides)

\* csm_manager_add_required_app: once the session is filled, every required
\* component is an app that is marked as required, or what it does is done by
\* such an app; and every required service has an app that is marked so, or
\* that does what its default does.
RequiredAreThere ==
    phase = "running" =>
        /\ \A n \in ToSet(job.keyfile.components) : IsRequiredByName(n)
        /\ \A p \in ToSet(job.keyfile.providers) : IsRequired({p[1]}) \/ IsRequiredByName(p[2])

\* Violated.  The comment of add_autostart_app_internal ("we should make sure that
\* relevant properties (like provides/is_required) are set in the pre-existing
\* app if needed"): what the key file requires is provided by some app, even
\* if the default's own service was there already.
EveryServiceIsProvided ==
    phase = "running" => \A p \in ToSet(job.keyfile.providers) : Provide(a, p[1]) # {}
=============================================================================
