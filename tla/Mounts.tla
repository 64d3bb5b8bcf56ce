------------------------------- MODULE Mounts -------------------------------
(***************************************************************************)
(* SSHFS mounts (native/src/sshfs_mount/, the bridge's wrappers in api.rs, *)
(* lib/src/features/sshfs_mount_provider.dart, sshfs_mount_dialog.dart).   *)
(*                                                                         *)
(* The dialog's operations run on the UI's event loop up to their awaits;  *)
(* each call of the bridge then runs on a thread of its own, so two of     *)
(* them interleave at every look at the disk, every program run and every  *)
(* lock of the registry ACTIVE_MOUNTS.  The mounts themselves belong to    *)
(* the system: they outlive their row, die with their sshfs, and can be    *)
(* unmounted by anybody.                                                   *)
(***************************************************************************)
EXTENDS Naturals, Sequences, FiniteSets

CONSTANTS
    Places,    \* local mount points
    Area,      \* the part of the disk each of them lies in
    Platform,  \* "linux" or "macos"
    Paths,     \* the remote paths typed: see validate_remote_path
    Installed, \* the tools that may be there: see tools
    Fresh,     \* the provider has just been built, and refreshes (_initialize)
    MaxCalls,  \* bound: operations started
    MaxLosses  \* bound: mounts that die or are unmounted by somebody else

Areas == {"home", "tmp", "mnt", "media", "volumes", "run user", "system", "relative", "dotted"}
Tools == {"sshfs", "/dev/fuse", "fusermount3", "fusermount", "umount"}

ASSUME MountsAssumption ==
    /\ Area \in [Places -> Areas]
    /\ Platform \in {"linux", "macos"} /\ Fresh \in BOOLEAN
    /\ Paths \subseteq {"absolute", "relative", "dotted"}
    /\ Installed \subseteq Tools
    /\ MaxCalls \in Nat /\ MaxLosses \in Nat

Calls == 1..MaxCalls  \* a mount's identifier is the call that made it

VARIABLES
    tools,    \* the programs and devices the system has
    exists,   \* places whose directory exists
    stack,    \* what is mounted at each place, the visible mount last
    dead,     \* mounts whose sshfs has ended
    table,    \* the keys of ACTIVE_MOUNTS
    holder,   \* the call that holds its lock across a look at the disk, or 0
    call,     \* the operations: see CallType
    activeMounts, \* the provider's activeMounts
    loading,  \* the provider's isLoading
    available, \* sshfsAvailableProvider, from the status read when it was built
    outside,  \* history: mounts undone by somebody else
    crowded   \* history: places two calls have worked on at once

vars == <<tools, exists, stack, dead, table, holder, call, activeMounts, loading,
          available, outside, crowded>>
system == <<tools, exists, stack, dead, outside>>
program == <<table, holder, call, activeMounts, loading, available, crowded>>

Ops == {"none", "mount", "unmount", "byId", "all", "init"}
Steps == {"idle", "status", "gate", "look", "prepare", "sshfs", "register", "find", "snapshot",
          "lookUp", "fusermount", "lazy", "forget", "refresh", "looking", "show", "done"}
Nowhere == "nowhere"

CallType ==
    [op : Ops, pc : Steps,
     at : Places \union {Nowhere},  \* the place worked on
     path : Paths \union {Nowhere},  \* mount: the remote path, until it is validated
     left : SUBSET Calls,           \* mounts still to look at, or to unmount
     gone : SUBSET Calls,           \* refresh: found unmounted, then the answer
     asked : SUBSET Calls,          \* refresh: unmounted before it began
     failed : BOOLEAN]              \* one step of unmount_all failed

Idle == [op |-> "none", pc |-> "idle", at |-> Nowhere, path |-> Nowhere, left |-> {}, gone |-> {},
         asked |-> {}, failed |-> FALSE]

-----------------------------------------------------------------------------
(* The system *)

Mounted(id) == \E p \in Places : \E n \in DOMAIN stack[p] : stack[p][n] = id
PlaceOf(id) == call[id].at
Popped(s) == SubSeq(s, 1, Len(s) - 1)
Top(p) == stack[p][Len(stack[p])]
DeadAt(p) == stack[p] # <<>> /\ Top(p) \in dead

\* Linux: findmnt --target answers for every path that exists, with the mount
\* it lies on.  macOS: another device than the parent's; a dead mount has none.
is_mount_point(p) ==
    IF Platform = "linux" THEN p \in exists
    ELSE stack[p] # <<>> /\ ~DeadAt(p)

MayBeLost(id) == id \in dead \union outside \/ Cardinality(dead \union outside) < MaxLosses

\* The package with these programs goes; its mounts live on.
PackageRemoved(programs) ==
    /\ programs \intersect tools # {}
    /\ tools' = tools \ programs
    /\ UNCHANGED <<program, exists, stack, dead, outside>>

SshfsDies(id) ==
    /\ Mounted(id) /\ id \notin dead /\ MayBeLost(id)
    /\ dead' = dead \union {id}
    /\ UNCHANGED <<program, tools, exists, stack, outside>>

UnmountedOutside(p) ==
    /\ stack[p] # <<>> /\ MayBeLost(Top(p))
    /\ stack' = [stack EXCEPT ![p] = Popped(@)]
    /\ outside' = outside \union {Top(p)}
    /\ UNCHANGED <<program, tools, exists, dead>>

DirectoryRemoved(p) ==
    /\ p \in exists /\ stack[p] = <<>> /\ Area[p] # "system"
    /\ exists' = exists \ {p}
    /\ UNCHANGED <<program, tools, stack, dead, outside>>

\* The program's own looks at its tools.
find_binary(name) == name \in tools

get_sshfs_status == [installed |-> find_binary("sshfs"), fuse_available |-> "/dev/fuse" \in tools]

\* The candidates that are there, the one it uses first.
get_fusermount_command ==
    SelectSeq(IF Platform = "macos" THEN <<"umount">> ELSE <<"fusermount3", "fusermount">>,
              find_binary)

\* Absolute and without "..".
validate_remote_path(path) == path = "absolute"

\* /run/user passes the forbidden prefixes and is in no allowed one; an allowed
\* prefix is one of characters, so that a neighbour of /tmp or /home counts as it.
validate_local_mount_point(p) ==
    Area[p] \in {"home", "tmp"} \union (IF Platform = "macos" THEN {"volumes"} ELSE {"mnt", "media"})

-----------------------------------------------------------------------------
(* The calls *)

Underway(c) == call[c].pc \notin {"idle", "done"}
Working(c) == call[c].pc \in {"look", "prepare", "sshfs", "register",
                              "lookUp", "fusermount", "lazy", "forget"}

TypeOK ==
    /\ tools \subseteq Tools /\ available \in BOOLEAN
    /\ exists \subseteq Places
    /\ stack \in [Places -> Seq(Calls)]
    /\ dead \subseteq Calls /\ table \subseteq Calls /\ activeMounts \subseteq Calls
    /\ holder \in Calls \union {0}
    /\ call \in [Calls -> CallType]
    /\ \A c \in Calls : Working(c) => call[c].at \in Places
    /\ loading \in BOOLEAN
    /\ outside \subseteq Calls /\ crowded \subseteq Places

Free == holder = 0
Becomes(c, r) == call' = [call EXCEPT ![c] = r]
Step(c, pc) == Becomes(c, [call[c] EXCEPT !.pc = pc])
At(c, pc) == call[c].pc = pc

\* Call c goes on to work on place p: is another there?
Enters(c, p) ==
    crowded' = IF \E d \in Calls \ {c} : Working(d) /\ call[d].at = p
               THEN crowded \union {p} ELSE crowded

\* The operation is over: isLoading goes, whoever else is at work.
End(c) == Step(c, "done") /\ loading' = FALSE

Init ==
    /\ tools \in SUBSET Installed
    /\ available = ~Fresh
    /\ exists \in {e \in SUBSET Places : \A p \in Places : Area[p] = "system" => p \in e}
    /\ stack = [p \in Places |-> <<>>]
    /\ dead = {} /\ table = {} /\ activeMounts = {} /\ outside = {} /\ crowded = {}
    /\ holder = 0
    /\ call = [c \in Calls |-> IF Fresh /\ c = 1 THEN [Idle EXCEPT !.op = "init", !.pc = "status"] ELSE Idle]
    /\ loading = FALSE

\* The next operation; the button is disabled while isLoading.
Begin(c, r) ==
    /\ ~loading
    /\ call[c] = Idle /\ \A d \in 1..(c - 1) : call[d] # Idle
    /\ Becomes(c, r)
    /\ UNCHANGED <<available, system, table, holder, activeMounts>>

\* checkSshfsStatus, the first step of _initialize: asked once, while the provider
\* lives.
CheckStatus(c) ==
    /\ At(c, "status")
    /\ available' = (get_sshfs_status.installed /\ get_sshfs_status.fuse_available)
    /\ Step(c, "refresh")
    /\ UNCHANGED <<system, table, holder, activeMounts, loading, crowded>>

\* _mount awaits the consent gate before the provider sets isLoading, and
\* _unmountAll its confirmation.
PressMount(c, p, path) ==
    /\ available
    /\ Begin(c, [Idle EXCEPT !.op = "mount", !.pc = "gate", !.at = p, !.path = path])
    /\ UNCHANGED <<loading, crowded>>

PressUnmountAll(c) ==
    /\ activeMounts # {}
    /\ Begin(c, [Idle EXCEPT !.op = "all", !.pc = "gate"])
    /\ UNCHANGED <<loading, crowded>>

PressUnmount(c, id) ==
    /\ id \in activeMounts
    /\ Begin(c, [Idle EXCEPT !.op = "unmount", !.pc = "lookUp", !.at = PlaceOf(id)])
    /\ Enters(c, PlaceOf(id))
    /\ loading' = TRUE

UnmountById(c, id) ==
    /\ id \in activeMounts
    /\ Begin(c, [Idle EXCEPT !.op = "byId", !.pc = "find", !.left = {id}])
    /\ loading' = TRUE
    /\ UNCHANGED crowded

\* Granted or confirmed, whatever isLoading has become.
PassGate(c) ==
    /\ At(c, "gate")
    /\ loading' = TRUE
    /\ IF call[c].op = "mount" THEN Step(c, "look") /\ Enters(c, call[c].at)
                               ELSE Step(c, "snapshot") /\ UNCHANGED crowded
    /\ UNCHANGED <<available, system, table, holder, activeMounts>>

Abandon(c) ==
    /\ At(c, "gate")
    /\ Becomes(c, [call[c] EXCEPT !.pc = "done", !.path = Nowhere])
    /\ UNCHANGED <<available, system, table, holder, activeMounts, loading, crowded>>

-----------------------------------------------------------------------------
(* mount_sshfs *)

\* sshfs or FUSE missing by now, a path refused, or the place a mount point.
MayMount(c) ==
    /\ get_sshfs_status.installed /\ get_sshfs_status.fuse_available
    /\ validate_remote_path(call[c].path)
    /\ validate_local_mount_point(call[c].at)
    /\ ~is_mount_point(call[c].at)

LookBeforeMount(c) ==
    LET r == [call[c] EXCEPT !.path = Nowhere] IN
    /\ At(c, "look")
    /\ IF MayMount(c)
       THEN Becomes(c, [r EXCEPT !.pc = "prepare"]) /\ UNCHANGED loading
       ELSE Becomes(c, [r EXCEPT !.pc = "done"]) /\ loading' = FALSE
    /\ UNCHANGED <<available, system, table, holder, activeMounts, crowded>>

\* A dead mount neither exists nor can be created; a file in the way refuses too.
ensure_directory_exists(p) == ~DeadAt(p) /\ exists' = exists \union {p}

\* Then is_directory_empty, of whatever the directory holds.
Prepare(c) ==
    /\ At(c, "prepare")
    /\ \/ /\ ensure_directory_exists(call[c].at)
          /\ \/ Step(c, "sshfs") /\ UNCHANGED loading
             \/ End(c)
       \/ End(c) /\ UNCHANGED exists
    /\ UNCHANGED <<available, tools, stack, dead, outside, table, holder, activeMounts, crowded>>

\* A directory emptied of its mount, or removed, since is what sshfs finds.
RunSshfs(c) ==
    LET p == call[c].at IN
    /\ At(c, "sshfs")
    /\ \/ /\ p \in exists /\ {"sshfs", "/dev/fuse"} \subseteq tools
          /\ stack' = [stack EXCEPT ![p] = Append(@, c)]
          /\ Step(c, "register") /\ UNCHANGED loading
       \/ End(c) /\ UNCHANGED stack
    /\ UNCHANGED <<available, tools, exists, dead, outside, table, holder, activeMounts, crowded>>

\* Mutant: the row is dropped when the lock is taken (try_lock).
RegisterIfFree(c) ==
    /\ At(c, "register")
    /\ table' = IF Free THEN table \union {c} ELSE table
    /\ Step(c, "refresh")
    /\ UNCHANGED <<available, system, holder, activeMounts, loading, crowded>>

Register(c) ==
    /\ At(c, "register") /\ Free
    /\ table' = table \union {c}
    /\ Step(c, "refresh")
    /\ UNCHANGED <<available, system, holder, activeMounts, loading, crowded>>

-----------------------------------------------------------------------------
(* unmount_sshfs, alone, by the mount's id, or for every mount *)

\* One place is over, well or not: unmount_all goes on to the next mount of its
\* snapshot; the provider refreshes after all of them and after a success.
Over(c, ok) ==
    IF call[c].op = "all" /\ call[c].left # {}
    THEN \E id \in call[c].left :
            /\ Becomes(c, [call[c] EXCEPT !.pc = "lookUp", !.at = PlaceOf(id),
                                          !.left = @ \ {id}, !.failed = @ \/ ~ok])
            /\ Enters(c, PlaceOf(id))
            /\ UNCHANGED loading
    ELSE /\ UNCHANGED crowded
         /\ IF ok \/ call[c].op = "all"
            THEN /\ Becomes(c, [call[c] EXCEPT !.pc = "refresh", !.failed = @ \/ ~ok])
                 /\ UNCHANGED loading
            ELSE End(c)

\* Mutant: the guard of the look-up lives on through the unmount.
FindLocked(c) ==
    /\ At(c, "find") /\ Free
    /\ \E id \in call[c].left :
         IF id \in table
         THEN /\ Becomes(c, [call[c] EXCEPT !.pc = "lookUp", !.at = PlaceOf(id), !.left = {}])
              /\ Enters(c, PlaceOf(id)) /\ holder' = c /\ UNCHANGED loading
         ELSE End(c) /\ UNCHANGED <<crowded, holder>>
    /\ UNCHANGED <<available, system, table, activeMounts>>

\* unmount_by_id: the lock is let go before the place is worked on.
Find(c) ==
    /\ At(c, "find") /\ Free
    /\ \E id \in call[c].left :
         IF id \in table
         THEN /\ Becomes(c, [call[c] EXCEPT !.pc = "lookUp", !.at = PlaceOf(id), !.left = {}])
              /\ Enters(c, PlaceOf(id)) /\ UNCHANGED loading
         ELSE End(c) /\ UNCHANGED crowded
    /\ UNCHANGED <<available, system, table, holder, activeMounts>>

Snapshot(c) ==
    /\ At(c, "snapshot") /\ Free
    /\ IF table = {}
       THEN Step(c, "refresh") /\ UNCHANGED crowded
       ELSE \E id \in table :
              /\ Becomes(c, [call[c] EXCEPT !.pc = "lookUp", !.at = PlaceOf(id),
                                            !.left = table \ {id}])
              /\ Enters(c, PlaceOf(id))
    /\ UNCHANGED <<available, system, table, holder, activeMounts, loading>>

\* Not a mount point, or no fusermount found.
LookBeforeUnmount(c) ==
    /\ At(c, "lookUp")
    /\ IF is_mount_point(call[c].at) /\ get_fusermount_command # <<>>
       THEN Step(c, "fusermount") /\ UNCHANGED <<loading, crowded>>
       ELSE Over(c, FALSE)
    /\ UNCHANGED <<available, system, table, holder, activeMounts>>

\* The program takes the visible mount off, or fails.
TakenOff(c) ==
    /\ stack[call[c].at] # <<>> /\ get_fusermount_command # <<>>
    /\ stack' = [stack EXCEPT ![call[c].at] = Popped(@)]
    /\ Step(c, "forget")
    /\ UNCHANGED <<loading, crowded>>

Fusermount(c) ==
    /\ At(c, "fusermount")
    /\ \/ TakenOff(c)
       \/ /\ stack[call[c].at] # <<>> /\ get_fusermount_command # <<>>  \* busy
          /\ Step(c, "lazy") /\ UNCHANGED <<stack, loading, crowded>>
       \/ Over(c, FALSE) /\ UNCHANGED stack
    /\ UNCHANGED <<available, tools, exists, dead, outside, table, holder, activeMounts>>

FusermountLazy(c) ==
    /\ At(c, "lazy")
    /\ \/ TakenOff(c)
       \/ Over(c, FALSE) /\ UNCHANGED stack
    /\ UNCHANGED <<available, tools, exists, dead, outside, table, holder, activeMounts>>

\* Every row of the place goes.
Forget(c) ==
    /\ At(c, "forget") /\ Free
    /\ table' = {id \in table : PlaceOf(id) # call[c].at}
    /\ Over(c, TRUE)
    /\ UNCHANGED <<available, system, holder, activeMounts>>

-----------------------------------------------------------------------------
(* refresh_mount_status, the lock held from the first look to the answer *)

Refresh(c) ==
    /\ At(c, "refresh") /\ Free
    /\ holder' = c
    /\ Becomes(c, [call[c] EXCEPT !.pc = "looking", !.left = table,
                                  !.asked = {id \in table : ~Mounted(id)}])
    /\ UNCHANGED <<available, system, table, activeMounts, loading, crowded>>

LookAtMount(c, id) ==
    /\ At(c, "looking") /\ id \in call[c].left
    /\ Becomes(c, [call[c] EXCEPT !.left = @ \ {id},
                     !.gone = IF is_mount_point(PlaceOf(id)) THEN @ ELSE @ \union {id}])
    /\ UNCHANGED <<available, system, table, holder, activeMounts, loading, crowded>>

Retain(c) ==
    /\ At(c, "looking") /\ call[c].left = {}
    /\ table' = table \ call[c].gone
    /\ holder' = 0
    /\ Becomes(c, [call[c] EXCEPT !.pc = "show", !.gone = table'])
    /\ UNCHANGED <<available, system, activeMounts, loading, crowded>>

\* The answer reaches the UI.
Show(c) ==
    /\ At(c, "show")
    /\ activeMounts' = call[c].gone
    /\ IF call[c].op = "init" THEN Step(c, "done") /\ UNCHANGED loading ELSE End(c)
    /\ UNCHANGED <<available, system, table, holder, crowded>>

-----------------------------------------------------------------------------
Mounting(c) == LookBeforeMount(c) \/ Prepare(c) \/ RunSshfs(c) \/ Register(c)
Unmounting(c) ==
    \/ Find(c) \/ Snapshot(c) \/ LookBeforeUnmount(c)
    \/ Fusermount(c) \/ FusermountLazy(c) \/ Forget(c)
Refreshing(c) == Refresh(c) \/ (\E id \in Calls : LookAtMount(c, id)) \/ Retain(c) \/ Show(c)

User(c) ==
    \/ \E p \in Places, path \in Paths : PressMount(c, p, path)
    \/ \E id \in Calls : PressUnmount(c, id) \/ UnmountById(c, id)
    \/ PressUnmountAll(c)

System ==
    \/ PackageRemoved({"sshfs"}) \/ PackageRemoved({"fusermount3", "fusermount"})
    \/ \E id \in Calls : SshfsDies(id)
    \/ \E p \in Places : UnmountedOutside(p) \/ DirectoryRemoved(p)

Progress(c) == CheckStatus(c) \/ PassGate(c) \/ Abandon(c) \/ Mounting(c) \/ Unmounting(c) \/ Refreshing(c)

Next == System \/ \E c \in Calls : User(c) \/ Progress(c)

Spec == Init /\ [][Next]_vars

\* The programs run (sshfs, findmnt, fusermount) and the looks at the disk end,
\* the user answers the gate, and a thread that waits for the lock gets it.
FairSpec == Spec /\ \A c \in Calls : WF_vars(Progress(c))

-----------------------------------------------------------------------------
(* Properties *)

\* A mount of the application that is there and alive has its row, unless its
\* own call or an unmount of its place is still on the way: nothing the program
\* mounted is out of its reach.  Two operations on one place at once excepted.
NoneOutOfReach ==
    \A id \in Calls :
        (Mounted(id) /\ id \notin dead /\ PlaceOf(id) \notin crowded) =>
            \/ id \in table
            \/ At(id, "register")

\* A row whose mount is gone is one somebody else unmounted (or whose unmount
\* has yet to forget it): the program's own unmounts leave no row behind,
\* unless two operations worked on the place at once.
RowsOfOwnUnmountsGo ==
    \A id \in table :
        \/ Mounted(id) \/ id \in outside \/ PlaceOf(id) \in crowded
        \/ \E c \in Calls : At(c, "forget") /\ call[c].at = PlaceOf(id)

\* So the rows are the mounts, both ways, but for places two operations worked
\* on at once (EveryMountRegistered shows what happens there) and for mounts
\* somebody else unmounted (RefreshRemovesUnmounted).
TableIsWhatIsMounted == NoneOutOfReach /\ RowsOfOwnUnmountsGo

\* Every operation ends and its buttons come back: the registry's lock is never
\* held by a call that wants it again, nor over another's unmount.
CallsEnd == \A c \in Calls : Underway(c) ~> ~Underway(c)

\* api.rs:810: a refresh removes the mounts that are no longer mounted.
RefreshRemovesUnmounted ==
    [][\A c \in Calls : Retain(c) => table' \intersect call[c].asked = {}]_vars

\* mount.rs:23: ACTIVE_MOUNTS is the registry of the active mounts: once their
\* calls are over, every mount that lives is in it.
EveryMountRegistered ==
    (\A c \in Calls : ~Underway(c)) => \A id \in Calls : Mounted(id) /\ id \notin dead => id \in table
=============================================================================
