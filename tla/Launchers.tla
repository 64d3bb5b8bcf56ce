------------------------------ MODULE Launchers ------------------------------
(***************************************************************************)
(* Launching the user's own RDP, VNC and database clients on a tunnel's    *)
(* local port (native/src/rdp_client/, vnc_client/, db_client/,            *)
(* child_reaper.rs).                                                       *)
(*                                                                         *)
(* Every launch runs on a thread of its own: the dispatcher tries the      *)
(* preferred client, then the others in their order, and a client is tried *)
(* rung by rung (native, flatpak, ...).  Some clients get their connection *)
(* in a file named after the instance, which they open in their own time.  *)
(* What is installed may change between a look and a spawn.                *)
(***************************************************************************)
EXTENDS Naturals, Sequences, FiniteSets

CONSTANTS
    Platforms,    \* "linux", "macos"
    Requests,     \* what may be asked for: [family, kind, preferred]
    Names,        \* instances
    Ports,        \* the local port of each launch's tunnel
    Installable,  \* <<client, way>> that may be there or not
    MaxLaunches,  \* bound: launches
    MaxMishaps    \* bound: faults, changes of the installation and restarts, together

Launches == 1..MaxLaunches
u16 == 0..65535
Families == {"rdp", "vnc", "db"}
Nobody == "nobody"

RdpClientType == {"remmina", "freerdp", "krdc", "gnomeconnections", "windowsapp"}
VncClientType == {"remmina", "tigervnc", "krdc", "vinagre", "screensharing"}
DbClientType == {"dbeaver", "workbench", "pgadmin", "azuredatastudio", "redisinsight", "compass"}
DatabaseType == {"mysql", "postgresql", "sqlserver", "redis", "mongodb"}
ClientsFor(family) ==
    CASE family = "rdp" -> RdpClientType [] family = "vnc" -> VncClientType [] OTHER -> DbClientType
ClientsOf == UNION {ClientsFor(family) : family \in Families}

\* Only a database client may be left for LCC to choose.
ASSUME LaunchersAssumption ==
    /\ Platforms \subseteq {"linux", "macos"} /\ Ports \in [1..MaxLaunches -> u16 \ {0}]
    /\ \A a \in Requests :
          /\ a \in [family : Families, kind : DatabaseType \union {"none"},
                    preferred : ClientsOf \union {Nobody}]
          /\ a.family = "db" => a.kind # "none"
          /\ a.preferred \in ClientsFor(a.family) \/ (a.family = "db" /\ a.preferred = Nobody)
    /\ Nobody \notin Names
    /\ \A x \in Installable : x[1] = "remmina" => x[2] \in {"native", "flatpak"}
    /\ MaxLaunches \in Nat /\ MaxMishaps \in Nat

VARIABLES
    platform,
    installed,  \* the <<client, way>> that are there
    launch,     \* see Idle
    child,      \* per launch, the processes spawned for it: see Spawned
    file,       \* the connection files by <<directory and prefix, name>>
    faults, changes, restarts  \* how many of each there were

launchVars == <<platform, installed, launch, child, file, faults, changes, restarts>>
spent == <<faults, changes, restarts>>

-----------------------------------------------------------------------------
(* The clients *)

Rung(way, carries, looked) == [way |-> way, carries |-> carries, looked |-> looked]
OrFlatpak(carries) == <<Rung("native", carries, TRUE), Rung("flatpak", carries, TRUE)>>
\* A second try of the same program, opened without an address.
OrPlain == <<Rung("native", "address", TRUE), Rung("native", "plain", FALSE),
             Rung("flatpak", "address", TRUE), Rung("flatpak", "plain", FALSE)>>

launch_remmina_rdp == <<Rung("native", "file", FALSE), Rung("flatpak", "file", FALSE),
                        Rung("flatpak", "address", FALSE)>>
launch_freerdp == <<Rung("native3", "address", TRUE), Rung("native", "address", TRUE)>>
launch_krdc_rdp == OrFlatpak("address")
launch_gnome_connections == OrFlatpak("address")
launch_windows_app == <<Rung("bundle", "file", FALSE)>>

launch_remmina_vnc == <<Rung("native", "file", FALSE), Rung("flatpak", "file", FALSE),
                        Rung("flatpak", "address", FALSE)>>
launch_tigervnc == <<Rung("native", "display", FALSE)>>
launch_krdc_vnc == OrFlatpak("address")
launch_vinagre == OrFlatpak("address")
launch_screen_sharing == <<Rung("system", "address", FALSE)>>

launch_dbeaver == OrFlatpak("address")
launch_mysql_workbench == OrFlatpak("address")
launch_pgadmin == OrFlatpak("plain")
launch_azure_data_studio == OrPlain
launch_mongodb_compass == OrPlain
launch_redis_insight == <<Rung("native", "plain", TRUE), Rung("alt", "plain", TRUE),
                          Rung("flatpak", "plain", TRUE)>>

Ladder(family, c) ==
    CASE c = "remmina" -> IF family = "rdp" THEN launch_remmina_rdp ELSE launch_remmina_vnc
      [] c = "freerdp" -> launch_freerdp
      [] c = "krdc" -> IF family = "rdp" THEN launch_krdc_rdp ELSE launch_krdc_vnc
      [] c = "gnomeconnections" -> launch_gnome_connections
      [] c = "windowsapp" -> launch_windows_app
      [] c = "tigervnc" -> launch_tigervnc
      [] c = "vinagre" -> launch_vinagre
      [] c = "screensharing" -> launch_screen_sharing
      [] c = "dbeaver" -> launch_dbeaver
      [] c = "workbench" -> launch_mysql_workbench
      [] c = "pgadmin" -> launch_pgadmin
      [] c = "azuredatastudio" -> launch_azure_data_studio
      [] c = "compass" -> launch_mongodb_compass
      [] c = "redisinsight" -> launch_redis_insight

\* These start the first program found, and try no other when it fails.
Settles(c) == c \in {"freerdp", "krdc", "gnomeconnections", "vinagre"}
WritesFile(c) == c \in {"remmina", "windowsapp", "pgadmin"}

supported_databases(c) ==
    CASE c = "dbeaver" -> {"mysql", "postgresql", "sqlserver"}
      [] c = "workbench" -> {"mysql"}
      [] c = "pgadmin" -> {"postgresql"}
      [] c = "azuredatastudio" -> {"postgresql", "sqlserver"}
      [] c = "redisinsight" -> {"redis"}
      [] c = "compass" -> {"mongodb"}

fallback_order_rdp ==
    IF platform = "macos" THEN <<"windowsapp">>
    ELSE <<"remmina", "freerdp", "krdc", "gnomeconnections">>

fallback_order_vnc ==
    IF platform = "macos" THEN <<"screensharing">>
    ELSE <<"remmina", "tigervnc", "krdc", "vinagre">>

fallback_order_for(kind) ==
    CASE kind = "mysql" -> <<"dbeaver", "workbench">>
      [] kind = "postgresql" -> <<"dbeaver", "pgadmin", "azuredatastudio">>
      [] kind = "sqlserver" -> <<"azuredatastudio", "dbeaver">>
      [] kind = "redis" -> <<"redisinsight">>
      [] kind = "mongodb" -> <<"compass">>

fallback_order(a) ==
    CASE a.family = "rdp" -> fallback_order_rdp
      [] a.family = "vnc" -> fallback_order_vnc
      [] OTHER -> fallback_order_for(a.kind)

command_exists(c, way) == <<c, way>> \in installed
flatpak_exists(c) == <<c, "flatpak">> \in installed
Found(c, way) == IF way = "flatpak" THEN flatpak_exists(c) ELSE command_exists(c, way)

\* Some program of the client's; Screen Sharing is part of macOS.
is_available(c) ==
    IF c = "screensharing" THEN platform = "macos"
    ELSE \E way \in {"native", "native3", "alt", "bundle", "flatpak"} : Found(c, way)

-----------------------------------------------------------------------------
(* State *)

Idle == [ask |-> [family |-> "rdp", kind |-> "none", preferred |-> Nobody],
         name |-> Nobody, port |-> 0, pc |-> "idle",
         turn |-> 0,           \* whose turn it is: the preferred client's, or a place in the order
         client |-> Nobody,    \* the one being tried, or used
         rung |-> 0,           \* the rung of its ladder that is tried
         written |-> FALSE,    \* it has its connection file
         fallback |-> FALSE]   \* the answer's fallback_occurred

Running(l) == launch[l].pc \notin {"idle", "launched", "failed", "gone"}

NoFile == [of |-> 0, whole |-> FALSE, old |-> FALSE]
\* Mutant: the VNC file is called as the RDP one.
PathOfShared(l) == <<IF launch[l].ask.family = "vnc" THEN "rdp" ELSE launch[l].ask.family, launch[l].name>>

\* rdp and vnc share a directory, and differ in the file's name.
PathOf(l) == <<launch[l].ask.family, launch[l].name>>
Paths == Families \X Names

Ways == {"native", "native3", "alt", "bundle", "flatpak", "system"}
Requested ==
    [ask : [family : Families, kind : DatabaseType \union {"none"}, preferred : ClientsOf \union {Nobody}],
     name : Names \union {Nobody}, port : u16,
     pc : {"idle", "default", "consider", "config", "fill", "rung", "spawn",
           "launched", "failed", "gone"},
     turn : Nat, client : ClientsOf \union {Nobody}, rung : Nat,
     written : BOOLEAN, fallback : BOOLEAN]
Process ==
    [client : ClientsOf, carries : {"file", "address", "display", "plain"},
     reaper : {"thread", "system", "lost"}, opens : BOOLEAN,
     state : {"started", "open", "zombie", "reaped"}, dialled : Nat]

LaunchTypeOK ==
    /\ platform \in {"linux", "macos"} /\ installed \subseteq Installable
    /\ launch \in [Launches -> Requested]
    /\ child \in [Launches -> Seq(Process)]
    /\ file \in [Paths -> [of : 0..MaxLaunches, whole : BOOLEAN, old : BOOLEAN]]
    /\ faults \in Nat /\ changes \in Nat /\ restarts \in Nat
    /\ faults + changes + restarts <= MaxMishaps

LaunchInit ==
    /\ platform \in Platforms
    /\ installed \in SUBSET {x \in Installable :
          IF platform = "macos" THEN x[2] \in {"bundle", "native"} ELSE x[2] # "bundle"}
    /\ launch = [l \in Launches |-> Idle]
    /\ child = [l \in Launches |-> <<>>]
    /\ file = [p \in Paths |-> NoFile]
    /\ faults = 0 /\ changes = 0 /\ restarts = 0

Mishap == faults + changes + restarts < MaxMishaps
Fault == Mishap /\ faults' = faults + 1 /\ UNCHANGED <<changes, restarts>>
NoFault == UNCHANGED spent

-----------------------------------------------------------------------------
(* The dispatcher *)

least(S) == CHOOSE i \in S : \A j \in S : i <= j

Press(l) ==
    /\ launch[l] = Idle /\ \A m \in 1..(l - 1) : launch[m] # Idle
    /\ \E a \in Requests, n \in Names :
          launch' = [launch EXCEPT ![l] =
              [Idle EXCEPT !.ask = a, !.name = n, !.port = Ports[l],
                           !.pc = IF a.preferred = Nobody THEN "default" ELSE "consider"]]
    /\ UNCHANGED <<platform, installed, child, file, spent>>

\* No database client is preferred: the first that is there, or DBeaver.
ChooseDefault(l) ==
    /\ launch[l].pc = "default"
    /\ LET order == fallback_order_for(launch[l].ask.kind)
           there == {i \in DOMAIN order : is_available(order[i])}
       IN launch' = [launch EXCEPT ![l].pc = "consider",
            ![l].ask.preferred = IF there = {} THEN "dbeaver" ELSE order[least(there)]]
    /\ UNCHANGED <<platform, installed, child, file, spent>>

\* The preferred client, then the others in their order.
Candidate(r) == IF r.turn = 0 THEN r.ask.preferred ELSE fallback_order(r.ask)[r.turn]

\* A database client that does not support the database is passed over, and
\* the preferred one has had its turn.
Passed(r) ==
    IF r.turn = 0 THEN r.ask.family = "db" /\ r.ask.kind \notin supported_databases(r.ask.preferred)
    ELSE Candidate(r) = r.ask.preferred

Consider(l) ==
    /\ launch[l].pc = "consider"
    /\ LET r == launch[l]
           c == Candidate(r)
       IN launch' = [launch EXCEPT ![l] =
            IF r.turn > Len(fallback_order(r.ask)) THEN [r EXCEPT !.pc = "failed"]
            ELSE IF Passed(r) \/ ~is_available(c) THEN [r EXCEPT !.turn = @ + 1]
            ELSE [r EXCEPT !.turn = @ + 1, !.client = c, !.rung = 1, !.written = FALSE,
                           !.pc = IF WritesFile(c) THEN "config" ELSE "rung"]]
    /\ UNCHANGED <<platform, installed, child, file, spent>>

\* launch[l] when the client being tried has failed.
GaveUp(r) == [r EXCEPT !.pc = "consider", !.written = FALSE]

RungsOf(r) == Ladder(r.ask.family, r.client)
AtRung(r) == RungsOf(r)[r.rung]

\* launch[l] when these rungs of the client's ladder are left.
ToRung(r, left) ==
    IF left = {} THEN GaveUp(r) ELSE [r EXCEPT !.pc = "rung", !.rung = least(left)]

\* The connection file cannot be written: Remmina goes on to the rung that
\* needs none, pgAdmin does without, Windows App fails.
Unwritten(r) == ToRung(r, {i \in DOMAIN RungsOf(r) : RungsOf(r)[i].carries # "file"})

\* The file is created, or emptied, before it is written.
CreateFile(l) ==
    /\ launch[l].pc = "config"
    /\ \/ /\ file' = [file EXCEPT ![PathOf(l)] = [of |-> l, whole |-> FALSE, old |-> FALSE]]
          /\ launch' = [launch EXCEPT ![l].pc = "fill"]
          /\ NoFault
       \/ /\ launch' = [launch EXCEPT ![l] = Unwritten(@)]
          /\ Fault /\ UNCHANGED file
    /\ UNCHANGED <<platform, installed, child>>

FillFile(l) ==
    /\ launch[l].pc = "fill"
    /\ \/ /\ file' = [file EXCEPT ![PathOf(l)] = [of |-> l, whole |-> TRUE, old |-> FALSE]]
          /\ launch' = [launch EXCEPT ![l].pc = "rung", ![l].written = TRUE]
          /\ NoFault
       \/ /\ launch' = [launch EXCEPT ![l] = Unwritten(@)]
          /\ Fault /\ UNCHANGED file
    /\ UNCHANGED <<platform, installed, child>>

\* command_exists, flatpak_exists: is the rung's program there?
LookFor(l) ==
    /\ launch[l].pc = "rung"
    /\ LET r == launch[l]
           g == AtRung(r)
       IN launch' = [launch EXCEPT ![l] =
            IF ~g.looked \/ Found(r.client, g.way) THEN [r EXCEPT !.pc = "spawn"]
            ELSE ToRung(r, {i \in DOMAIN RungsOf(r) : i > r.rung /\ RungsOf(r)[i].way # g.way})]
    /\ UNCHANGED <<platform, installed, child, file, spent>>

\* flatpak itself starts whether the app it is to run is installed or not.
Starts(c, way) ==
    \/ way = "system" \/ <<c, way>> \in installed
    \/ way = "flatpak" /\ \E x \in installed : x[2] = "flatpak"

\* A process for the client: what it was given, who waits for it, and the port
\* it has dialled.  A flatpak that is not installed ends at once.
Spawned(l, reaper) ==
    LET g == AtRung(launch[l])
        opens == g.way = "system" \/ <<launch[l].client, g.way>> \in installed
    IN [client |-> launch[l].client, carries |-> g.carries, reaper |-> reaper,
        opens |-> opens, state |-> IF opens THEN "started" ELSE "zombie", dialled |-> 0]

Answered(r) == [r EXCEPT !.pc = "launched", !.fallback = r.client # r.ask.preferred]

NextRung(r) ==
    ToRung(r, IF Settles(r.client) THEN {} ELSE {i \in DOMAIN RungsOf(r) : i > r.rung})

\* Who waits for the process.  On macOS `open` hands the client to the system.
Reaper(way) == IF way \in {"system", "bundle"} THEN "system" ELSE "thread"

SpawnReaped(l) ==
    /\ launch[l].pc = "spawn"
    /\ Starts(launch[l].client, AtRung(launch[l]).way)
    /\ child' = [child EXCEPT ![l] = Append(@, Spawned(l, Reaper(AtRung(launch[l]).way)))]
    /\ launch' = [launch EXCEPT ![l] = Answered(@)]
    /\ NoFault
    /\ UNCHANGED <<platform, installed, file>>

\* Mutant: the spawn is reported as failed.
SpawnUnreapedFails(l) ==
    /\ launch[l].pc = "spawn"
    /\ Starts(launch[l].client, AtRung(launch[l]).way)
    /\ child' = [child EXCEPT ![l] = Append(@, Spawned(l, "lost"))]
    /\ launch' = [launch EXCEPT ![l] = NextRung(@)]
    /\ Fault
    /\ UNCHANGED <<platform, installed, file>>

\* The client runs, but the thread that would wait for it could not be made:
\* still a launch.
SpawnUnreaped(l) ==
    /\ launch[l].pc = "spawn"
    /\ LET way == AtRung(launch[l]).way
       IN Starts(launch[l].client, way) /\ Reaper(way) = "thread"
    /\ child' = [child EXCEPT ![l] = Append(@, Spawned(l, "lost"))]
    /\ launch' = [launch EXCEPT ![l] = Answered(@)]
    /\ Fault
    /\ UNCHANGED <<platform, installed, file>>

\* The program is not there, or the system refuses.
SpawnFails(l) ==
    /\ launch[l].pc = "spawn"
    /\ launch' = [launch EXCEPT ![l] = NextRung(@)]
    /\ IF Starts(launch[l].client, AtRung(launch[l]).way) THEN Fault ELSE NoFault
    /\ UNCHANGED <<platform, installed, child, file>>

-----------------------------------------------------------------------------
(* The clients' own lives, the user's machine, and the next start of LCC *)

Child(l, i, r) == child' = [child EXCEPT ![l][i] = r]

\* vncviewer takes a number below 100 as a display, from port 5900 on, and any
\* other as the port.  The launcher gives it port - 5900 from 5900 on.
TigerVncDials(port) ==
    LET display == IF port >= 5900 THEN port - 5900 ELSE port
    IN IF display < 100 THEN 5900 + display ELSE display

\* The address in a file, an argument or a URI: 127.0.0.1 and the port.
AddressOf(l) == launch[l].port

\* Where the client connects: 0 when its file is gone or not whole, or when it
\* was opened without an address.
Dials(l, c) ==
    CASE c.carries = "file" ->
            LET f == file[PathOf(l)] IN IF f.of # 0 /\ f.whole THEN AddressOf(f.of) ELSE 0
      [] c.carries = "display" -> TigerVncDials(AddressOf(l))
      [] c.carries = "address" -> AddressOf(l)
      [] OTHER -> 0

Opens(l, i) ==
    /\ child[l][i].state = "started"
    /\ Child(l, i, [child[l][i] EXCEPT !.state = "open", !.dialled = Dials(l, child[l][i])])
    /\ UNCHANGED <<platform, installed, launch, file, spent>>

Exits(l, i) ==
    /\ child[l][i].state = "open"
    /\ Child(l, i, [child[l][i] EXCEPT !.state = IF child[l][i].reaper = "system"
                                                 THEN "reaped" ELSE "zombie"])
    /\ UNCHANGED <<platform, installed, launch, file, spent>>

Reaps(l, i) ==
    /\ child[l][i].state = "zombie" /\ child[l][i].reaper = "thread"
    /\ Child(l, i, [child[l][i] EXCEPT !.state = "reaped"])
    /\ UNCHANGED <<platform, installed, launch, file, spent>>

\* A client is installed or removed.
InstallOrRemove(x) ==
    /\ Mishap /\ changes' = changes + 1
    /\ platform = "macos" => x[2] \in {"bundle", "native"}
    /\ platform = "linux" => x[2] # "bundle"
    /\ installed' = IF x \in installed THEN installed \ {x} ELSE installed \union {x}
    /\ UNCHANGED <<platform, launch, child, file, faults, restarts>>

\* An hour: longer than any client takes to open its file.
HourPasses ==
    /\ \E p \in Paths : file[p].of # 0 /\ ~file[p].old
    /\ \A l \in Launches : ~Running(l) /\ \A i \in DOMAIN child[l] : child[l][i].state # "started"
    /\ file' = [p \in Paths |-> [file[p] EXCEPT !.old = file[p].of # 0]]
    /\ UNCHANGED <<platform, installed, launch, child, spent>>

\* At its start LCC removes the .remmina and .rdp files older than an hour;
\* pgAdmin's .json stays.
cleanup_old_config_files ==
    [p \in Paths |-> IF p[1] # "db" /\ file[p].old THEN NoFile ELSE file[p]]

\* LCC quits and starts again.  Its clients go on, and are the system's to reap.
Restart ==
    /\ Mishap /\ restarts' = restarts + 1
    /\ launch' = [l \in Launches |-> IF Running(l) THEN [launch[l] EXCEPT !.pc = "gone"] ELSE launch[l]]
    /\ child' = [l \in Launches |-> [i \in DOMAIN child[l] |->
          [child[l][i] EXCEPT !.reaper = "system", !.state = IF @ = "zombie" THEN "reaped" ELSE @]]]
    /\ file' = cleanup_old_config_files
    /\ UNCHANGED <<platform, installed, faults, changes>>

Step(l) ==
    \/ ChooseDefault(l) \/ Consider(l) \/ CreateFile(l) \/ FillFile(l) \/ LookFor(l)
    \/ SpawnReaped(l) \/ SpawnUnreaped(l) \/ SpawnFails(l)

LaunchNext ==
    \/ \E l \in Launches : Press(l) \/ Step(l)
    \/ \E l \in Launches : \E i \in DOMAIN child[l] : Opens(l, i) \/ Exits(l, i) \/ Reaps(l, i)
    \/ \E x \in Installable : InstallOrRemove(x)
    \/ HourPasses \/ Restart

LaunchSpec == LaunchInit /\ [][LaunchNext]_launchVars

-----------------------------------------------------------------------------
(* Properties *)

\* A launch that reports success has opened one client, and one that reports a
\* failure none: a client is never opened beside the one that already runs
\* (child_reaper.rs, the dispatchers' loops).
OneClientEach ==
    \A l \in Launches :
        /\ launch[l].pc = "launched" => Len(child[l]) = 1
        /\ launch[l].pc \notin {"launched"} => child[l] = <<>>

\* A launch that reports success opened a client that is installed.  Remmina is
\* run through flatpak without a look whether it is there.
SuccessOpens ==
    changes = 0 =>
        \A l \in Launches : launch[l].pc = "launched" =>
            \E i \in DOMAIN child[l] :
                child[l][i].opens \/ (child[l][i].client = "remmina" /\ faults > 0)

\* What the user is told of a launch is what became of it.
ReportsWhatItOpened == OneClientEach /\ SuccessOpens

\* vncviewer's own reading of a display of 100 or more, and of a port below 100.
BeyondDisplays(l, c) == c.carries = "display" /\ (launch[l].port < 100 \/ launch[l].port >= 6000)
\* Another launch of the same kind for the same instance, whose file is this one's.
SharesFile(l, c) ==
    /\ c.carries = "file"
    /\ \E m \in Launches \ {l} : /\ launch[m].name = launch[l].name
                                 /\ launch[m].ask.family = launch[l].ask.family

\* A client that connects by itself connects to the tunnel it was launched for,
\* whatever other launches write and whenever LCC cleans up (create_remmina_config,
\* rdp_file_contents, cleanup_old_config_files).
DialsItsTunnel ==
    \A l \in Launches : \A i \in DOMAIN child[l] :
        LET c == child[l][i] IN
        (/\ c.opens /\ c.state = "open" /\ c.carries # "plain"
         /\ ~BeyondDisplays(l, c) /\ ~SharesFile(l, c))
            => c.dialled = launch[l].port

=============================================================================
