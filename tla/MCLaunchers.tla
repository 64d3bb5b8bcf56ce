---------------------------- MODULE MCLaunchers ----------------------------
(* Small instances of Launchers for TLC. *)
EXTENDS Launchers
Request(family, kind, preferred) == [family |-> family, kind |-> kind, preferred |-> preferred]
SomePorts == <<5901, 6100>>
SomeRequests == {Request("rdp", "none", "remmina"), Request("vnc", "none", "tigervnc"), Request("db", "postgresql", Nobody)}
SomeClients == {<<"remmina", "native">>, <<"tigervnc", "alt">>,
                <<"pgadmin", "native">>, <<"pgadmin", "flatpak">>, <<"windowsapp", "bundle">>}
=============================================================================
