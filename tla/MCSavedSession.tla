--------------------------- MODULE MCSavedSession ---------------------------
EXTENDS SavedSession

Program(p, provides) == [startup |-> None, program |-> p, provides |-> provides, state |-> 0]

\* The window manager, under its vendor's name, and an editor; a dock that is
\* the panel, in the user's own autostart directory and the system's.
MCApplications == << "gnome-wm" :> Program("wm", {"windowmanager"})
                       @@ "editor" :> Program("editor", {}) >>
Autostart(dock_provides) ==
    << "dock" :> Program("dock", dock_provides),
       "dock" :> Program("dock", {}) @@ "old" :> Program("old", {}) >>
MCAutostartDirs == Autostart({})
\* A dock whose own desktop file says what it provides.
DockAutostartDirs == Autostart({"dock"})

KeyfileOf(components, providers, fallback) ==
    [valid |-> TRUE, components |-> components, providers |-> providers, fallback |-> fallback]

\* The user's key file for "main" has a provider without default.
MCSessions ==
    [ main |-> << KeyfileOf(<<"wm">>, << <<"panel", None>> >>, "basic"),
                  KeyfileOf(<<"wm">>, << <<"windowmanager", "wm">>, <<"panel", "dock">> >>, "basic") >>,
      basic |-> << KeyfileOf(<<"wm", "dock">>, << >>, None) >> ]
=============================================================================
