---------------------------- MODULE SessionFill ----------------------------
(***************************************************************************)
(* What a session consists of (csm-session-fill.c and append_app in        *)
(* csm-manager.c): the session's key file or the fallback it names, the    *)
(* desktop files found in the directories for autostart, applications and  *)
(* the saved session, and the list of apps that adding them one after the  *)
(* other makes.  A directory is a function from file names to files, and a *)
(* file's name is its app's id.                                            *)
(***************************************************************************)
EXTENDS Naturals, Sequences, FiniteSets, Functions, TLC, SequencesExt

CONSTANTS
    Sessions,           \* the key files, in the order of the search, by name
    Applications,       \* the directories of applications
    AutostartDirs,      \* those of autostart
    Blacklist           \* file names in the setting

None == "none"
Empty == [n \in {} |-> None]

\* The directory d with a file that is new, or in the place of the old one.
Put(d, name, file) == [n \in DOMAIN d \cup {name} |-> IF n = name THEN file ELSE d[n]]

-----------------------------------------------------------------------------
(* The session's key file.                                                 *)

\* Providers come as pairs of a service and its default, which may be missing.
IsValid(keyfile) ==
    /\ keyfile.valid
    /\ \A i \in 1..Len(keyfile.providers) : keyfile.providers[i][2] # None
    /\ Len(keyfile.providers) > 0 \/ Len(keyfile.components) > 0

NoKeyfile == [valid |-> FALSE]

find_valid_session_keyfile(session) ==
    LET valid == {i \in DOMAIN Sessions[session] : IsValid(Sessions[session][i])}
    IN  IF valid = {} THEN NoKeyfile ELSE Sessions[session][Min(valid)]

\* The first directory that has it, and then the same with the vendor's prefix.
FindIn(dirs, name) ==
    LET having(n) == {i \in DOMAIN dirs : n \in DOMAIN dirs[i]}
        file(n) == [name |-> n, file |-> dirs[Min(having(n))][n]]
        vendor == "gnome-" \o name
    IN  IF having(name) # {} THEN file(name)
        ELSE IF having(vendor) # {} THEN file(vendor)
        ELSE [name |-> None]

desktop_dirs(saved, autostart_first) ==
    IF autostart_first THEN saved \o AutostartDirs \o Applications
    ELSE Applications \o AutostartDirs \o saved

check_required(keyfile) ==
    LET found(n) == FindIn(desktop_dirs(<< >>, TRUE), n).name # None
    IN  /\ \A i \in 1..Len(keyfile.components) : found(keyfile.components[i])
        /\ \A i \in 1..Len(keyfile.providers) : found(keyfile.providers[i][2])

-----------------------------------------------------------------------------
(* The list of apps: a is [apps, required], apps a function from app ids.  *)

Provide(a, service) == {n \in DOMAIN a.apps : service \in a.apps[n].provides}

\* The app becomes one of the required ones, if this is asked for.
Require(a, n, required) == IF required THEN [a EXCEPT !.required = @ \cup {n}] ELSE a

\* Mutant: an app that is there already is left as it is.
append_app_unmarked(a, n, app, provides, required) ==
    IF n \in DOMAIN a.apps THEN a ELSE Require([a EXCEPT !.apps = Put(@, n, app)], n, required)

append_app(a, n, app, provides, required) ==
    LET new == IF n \in DOMAIN a.apps
               THEN [a.apps[n] EXCEPT !.provides = @ \cup provides] ELSE app
    IN  Require([a EXCEPT !.apps = Put(@, n, new)], n, required)

\* provides: what the key file says, a set of at most one service.
add_autostart_app_internal(a, n, app, provides, required) ==
    LET already(services) == UNION {Provide(a, s) : s \in services}
        dup(services) == CHOOSE m \in already(services) : TRUE
    IN  IF already(provides) # {} THEN Require(a, dup(provides), required)
        ELSE IF already(app.provides) # {} THEN Require(a, dup(app.provides), required)
        ELSE append_app(a, n, [app EXCEPT !.provides = @ \cup provides], provides, required)

csm_manager_get_app_is_blacklisted(n) == n \in Blacklist

-----------------------------------------------------------------------------
(* What is to be added, in this order: the required components, the files  *)
(* of some directories, and the defaults of the required providers.        *)

Components(keyfile) ==
    [i \in DOMAIN keyfile.components |->
        [kind |-> "required", name |-> keyfile.components[i], provides |-> {}]]

Providers(keyfile) ==
    [i \in DOMAIN keyfile.providers |->
        [kind |-> "required", name |-> keyfile.providers[i][2],
         provides |-> {keyfile.providers[i][1]}]]

Dirs(ds) == [i \in DOMAIN ds |-> [kind |-> "dir", left |-> DOMAIN ds[i], files |-> ds[i]]]

\* Mutant: the saved session comes after what is started anyway.
load_standard_apps_saved_last(keyfile, saved, failsafe, autosave) ==
    Components(keyfile)
      \o (IF failsafe THEN << >>
          ELSE Dirs(AutostartDirs) \o (IF autosave THEN Dirs(<<saved>>) ELSE << >>))
      \o Providers(keyfile)

load_standard_apps(keyfile, saved, failsafe, autosave) ==
    Components(keyfile)
      \o (IF failsafe THEN << >>
          ELSE (IF autosave THEN Dirs(<<saved>>) ELSE << >>) \o Dirs(AutostartDirs))
      \o Providers(keyfile)
=============================================================================
