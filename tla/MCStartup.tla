------------------------------ MODULE MCStartup ------------------------------
EXTENDS Startup, TLC

Plain == [ phase |-> APPLICATION, required |-> FALSE, autorestart |-> FALSE,
           delayed |-> FALSE, activated |-> FALSE, condition |-> "none",
           wm |-> FALSE, launcher |-> FALSE, client |-> "none" ]

\* Cinnamon itself, a settings daemon that registers over D-Bus, a service
\* that D-Bus activates, an XSMP client that runs while a file exists, and
\* an application that starts later and one that only depends on a setting.
Cinnamon  == [Plain EXCEPT !.phase = 5, !.required = TRUE, !.wm = TRUE,
                           !.launcher = TRUE]
Daemon    == [Plain EXCEPT !.phase = 4, !.required = TRUE,
                           !.autorestart = TRUE, !.client = "dbus",
                           !.condition = "setting"]
Settings  == [Plain EXCEPT !.phase = 5, !.required = TRUE, !.client = "dbus"]
Desktop   == [Plain EXCEPT !.phase = 7]
Service   == [Plain EXCEPT !.phase = 5, !.activated = TRUE]
Panel     == [Plain EXCEPT !.phase = 6, !.client = "xsmp", !.condition = "file"]
Applet    == [Plain EXCEPT !.condition = "file"]
Latecomer == [Plain EXCEPT !.delayed = TRUE, !.condition = "setting"]

CONSTANTS x1, x2

Pairs(P) == { x1 :> k[1] @@ x2 :> k[2] : k \in P }

MCSessions ==
    Pairs({ <<Cinnamon, Settings>>, <<Cinnamon, Desktop>>, <<Settings, Settings>>,
            <<Settings, Desktop>>, <<Daemon, Service>>, <<Panel, Service>>,
            <<Applet, Service>>, <<Latecomer, Applet>> })
=============================================================================
