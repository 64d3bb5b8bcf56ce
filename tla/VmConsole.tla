----------------------------- MODULE VmConsole -----------------------------
(***************************************************************************)
(* What the user has open on one VM: the diagnostics panels, the search    *)
(* for an instance by name, the snapshot manager, the file browser and the *)
(* power buttons. Each asks Rust; Rust asks Google over REST, runs gcloud  *)
(* or logs in to the VM. Calls run next to each other, and a panel takes   *)
(* the answers as they come. The module extended is the workspace, from    *)
(* whose rows the VM was picked.                                           *)
(***************************************************************************)
EXTENDS Workspace

CONSTANTS Ports, Hours, Instances,   \* what the serial, audit and search panels may be asked
          Snapshots,                 \* those the VM's disk may have
          Namesakes,                 \* those of disks whose name begins with its name
          Dirs, Names,               \* Names: what a directory may hold
          Climbing,                  \* names somebody may type that go up (..)
          Home,                      \* /home: where the browser is until a list is shown
          TheVm, Nothing             \* what there is only one of to ask for; no answer yet

ASSUME ConsoleAssumption ==
    Home \in Dirs /\ Names \cap Climbing = {} /\ Snapshots \cap Namesakes = {}

VARIABLES
    asked,       \* what each panel was last asked for
    shown,       \* what the answer it shows answers
    listed, files,       \* the snapshots it shows, the entries it shows
    failed, spinning,    \* the panels that show an error, that show they wait
    calls,       \* the calls under way in Rust
    existing, entries,   \* outside: the snapshots there are of the VM's disk and of its
                         \* namesakes', what is in each directory
    muddled,     \* the panels with two questions under way at once
    unsure       \* the panels whose list may be out of date: a command of theirs was
                 \* given up, or a reading failed, or was taken for an empty list

panelVars   == <<asked, shown, listed, files, failed, spinning>>
outsideVars == <<existing, entries>>
ghostVars   == <<muddled, unsure>>
consoleVars == <<panelVars, outsideVars, ghostVars, calls>>

Panels == {"serial", "audit", "diagnostics", "search", "disk", "snapshots", "files"}

(* The bridge's functions, each with the panel it answers.                 *)
RestReads == {"get_serial_port_output", "get_audit_logs", "get_vm_diagnostics", "get_instance"}
PowerOps  == {"start_instance", "stop_instance", "reset_instance", "suspend_instance",
              "resume_instance"}
SnapshotCalls == {"list_snapshots", "create_snapshot", "delete_snapshot",
                  "create_disk_from_snapshot"}
FileCalls == {"sftp_list_directory", "sftp_create_directory", "sftp_delete"}
Functions == RestReads \cup PowerOps \cup {"get_boot_disk_name"} \cup SnapshotCalls
             \cup FileCalls
Reads     == RestReads \cup {"get_boot_disk_name", "list_snapshots", "sftp_list_directory"}

Panel(c) == CASE c.fn \in SnapshotCalls           -> "snapshots"
              [] c.fn \in FileCalls               -> "files"
              [] c.fn \in PowerOps                -> "power"
              [] c.fn = "get_boot_disk_name"      -> "disk"
              [] c.fn = "get_serial_port_output"  -> "serial"
              [] c.fn = "get_audit_logs"          -> "audit"
              [] c.fn = "get_vm_diagnostics"      -> "diagnostics"
              [] c.fn = "get_instance"            -> "search"

Of(panel)       == {c \in calls : Panel(c) = panel}
Readings(panel) == {c \in Of(panel) : c.fn \in Reads}

(* A call: the press it comes from, how far it is, what it is about and    *)
(* what a listing found.                                                   *)
Call(by, fn, at, q) == [by |-> by, fn |-> fn, at |-> at, q |-> q, found |-> {}]

ConsoleTypeOK ==
    /\ DOMAIN asked = Panels /\ DOMAIN shown = Panels
    /\ \A snapshots \in {listed, existing} : snapshots \subseteq Snapshots \cup Namesakes
    /\ files \subseteq Names /\ entries \in [Dirs -> SUBSET Names]
    /\ \A panels \in {failed, spinning, muddled, unsure} : panels \subseteq Panels
    /\ \A c \in calls :
          /\ c.by \in Ids /\ c.fn \in Functions /\ c.found \subseteq Snapshots \cup Namesakes \cup Names
          /\ c.at \in {"sent", "agent", "disk", "done", "answer", "given up"}

----------------------------------------------------------------------------
(* Asking and answering                                                    *)

Goes(c, at, found) == calls' = (calls \ {c}) \cup {[c EXCEPT !.at = at, !.found = found]}

Ends(c) == calls' = calls \ {c}

(* A mutant: every reading of the snapshots counts.                        *)
AllCount(fn) == {}

(* Of several readings of the snapshots only the last counts.              *)
Superseded(fn) == IF fn = "list_snapshots" THEN {d \in calls : d.fn = fn} ELSE {}

(* A question is put, in the place of the call d; its panel waits.         *)
Asks(c, d) ==
    LET panel == Panel(c) IN
    /\ calls' = (calls \ ({d} \cup Superseded(c.fn))) \cup {c}
    /\ asked' = [asked EXCEPT ![panel] = c.q]
    /\ failed' = failed \ {panel} /\ spinning' = spinning \cup {panel}
    /\ muddled' = IF Readings(panel) \subseteq Superseded(c.fn) THEN muddled \ {panel}
                                                            ELSE muddled \cup {panel}
    /\ UNCHANGED <<shown, listed, files, outsideVars, unsure>>

(* Any answer ends the waiting, whichever question it answers.             *)
Answered(c) ==
    /\ Ends(c)
    /\ spinning' = spinning \ {Panel(c)}
    /\ shown' = [shown EXCEPT ![Panel(c)] = c.q]
    /\ UNCHANGED <<asked, listed, files, failed, outsideVars, ghostVars>>

(* A mutant: the spinner is stopped by answers only.                       *)
FailsAndWaits(c) ==
    /\ Ends(c)
    /\ failed' = failed \cup {Panel(c)}
    /\ unsure' = unsure \cup {Panel(c)}
    /\ UNCHANGED <<asked, shown, listed, files, spinning, outsideVars, muddled>>

Fails(c) ==
    /\ Ends(c)
    /\ spinning' = spinning \ {Panel(c)} /\ failed' = failed \cup {Panel(c)}
    /\ unsure' = unsure \cup {Panel(c)}
    /\ UNCHANGED <<asked, shown, listed, files, outsideVars, muddled>>

(* A command is carried out, is not, or its answer is lost.                *)
Lands(c) ==
    /\ IF c.at = "given up" THEN Ends(c) ELSE Goes(c, "done", {})
    /\ UNCHANGED <<panelVars, ghostVars>>

Refused(c) ==
    /\ c.at \in {"sent", "given up"} /\ Ends(c)
    /\ UNCHANGED <<panelVars, outsideVars, ghostVars>>

AnswerLost(c) ==
    /\ c.at = "done" /\ Ends(c)
    /\ unsure' = unsure \cup ({Panel(c)} \cap Panels)
    /\ UNCHANGED <<panelVars, outsideVars, muddled>>

(* gcloud is given its time, and not killed when that is over.             *)
TimesOut(c) ==
    /\ c.at = "sent" /\ Goes(c, "given up", {})
    /\ unsure' = unsure \cup {"snapshots"}
    /\ UNCHANGED <<panelVars, outsideVars, muddled>>

----------------------------------------------------------------------------
(* REST: the bearer token of the active account, a request, an answer or a *)
(* refusal. No token is a failure like the others.                         *)

OneRequest(c, fn) == c.fn = fn /\ c.at = "sent" /\ (Answered(c) \/ Fails(c))

get_serial_port_output(c) == OneRequest(c, "get_serial_port_output")
get_audit_logs(c)         == OneRequest(c, "get_audit_logs")
get_instance(c)           == OneRequest(c, "get_instance")

(* The instance, and then what its guest agent says of itself.             *)
get_vm_diagnostics(c) ==
    /\ c.fn = "get_vm_diagnostics" /\ c.at = "sent"
    /\ \/ Goes(c, "agent", {}) /\ UNCHANGED <<panelVars, outsideVars, ghostVars>>
       \/ Fails(c)

(* An agent that cannot be asked is reported as silent.                    *)
get_guest_agent_status(c) == c.at = "agent" /\ Answered(c)

power_operation(c) ==
    /\ c.fn \in PowerOps
    /\ \/ c.at = "sent" /\ Lands(c) /\ UNCHANGED outsideVars
       \/ Refused(c) \/ AnswerLost(c)

----------------------------------------------------------------------------
(* gcloud, each with its time limit                                        *)

(* On its own, or on the way of another.                                   *)
get_boot_disk_name(c) ==
    \/ OneRequest(c, "get_boot_disk_name")
    \/ /\ c.at = "disk"
       /\ \/ Goes(c, "sent", {}) /\ UNCHANGED <<panelVars, outsideVars, ghostVars>>
          \/ c.fn = "list_snapshots" /\ Fails(c)
          \/ c.fn = "create_snapshot" /\ Ends(c)
             /\ UNCHANGED <<panelVars, outsideVars, ghostVars>>

(* What a list says was so when it was read; a command under way may have  *)
(* it out of date already.                                                 *)
IsRead(c, found) ==
    /\ Goes(c, "answer", found)
    /\ unsure' = IF Of(Panel(c)) \subseteq Readings(Panel(c)) THEN unsure \ {Panel(c)}
                                                              ELSE unsure
    /\ UNCHANGED <<panelVars, outsideVars, muddled>>

(* gcloud's answer that is no JSON counts as a list of none.               *)
ReadsNone(c) ==
    /\ Goes(c, "answer", {})
    /\ unsure' = unsure \cup {"snapshots"}
    /\ UNCHANGED <<panelVars, outsideVars, muddled>>

(* The filter asks for disks whose name begins with that of the VM's.      *)
list_snapshots(c) ==
    /\ c.fn = "list_snapshots" /\ c.at = "sent"
    /\ IsRead(c, existing) \/ ReadsNone(c) \/ Fails(c)

create_snapshot(c) ==
    /\ c.fn = "create_snapshot"
    /\ \/ /\ c.at \in {"sent", "given up"} /\ c.q \notin existing
          /\ existing' = existing \cup {c.q} /\ Lands(c) /\ UNCHANGED entries
       \/ Refused(c) \/ TimesOut(c) \/ AnswerLost(c)

delete_snapshot(c) ==
    /\ c.fn = "delete_snapshot"
    /\ \/ /\ c.at \in {"sent", "given up"} /\ c.q \in existing
          /\ existing' = existing \ {c.q} /\ Lands(c) /\ UNCHANGED entries
       \/ Refused(c) \/ TimesOut(c) \/ AnswerLost(c)

create_disk_from_snapshot(c) ==
    /\ c.fn = "create_disk_from_snapshot"
    /\ \/ /\ c.at \in {"sent", "given up"} /\ c.q \in existing
          /\ Lands(c) /\ UNCHANGED outsideVars
       \/ Refused(c) \/ TimesOut(c) \/ AnswerLost(c)

----------------------------------------------------------------------------
(* SFTP, each call over a login of its own                                 *)

sftp_list_directory(c) ==
    /\ c.fn = "sftp_list_directory" /\ c.at = "sent"
    /\ IsRead(c, entries[c.q]) \/ Fails(c)

(* Paths that go up are refused before the login; the others are absolute, *)
(* and are taken as they are.                                              *)
validate_and_normalize_path(name) == name \notin Climbing

sftp_create_directory(c) ==
    /\ c.fn = "sftp_create_directory"
    /\ \/ /\ c.at = "sent" /\ validate_and_normalize_path(c.q.name)
          /\ c.q.name \notin entries[c.q.dir]
          /\ entries' = [entries EXCEPT ![c.q.dir] = @ \cup {c.q.name}]
          /\ Lands(c) /\ UNCHANGED existing
       \/ Refused(c) \/ AnswerLost(c)

sftp_delete(c) ==
    /\ c.fn = "sftp_delete"
    /\ \/ /\ c.at = "sent" /\ validate_and_normalize_path(c.q.name)
          /\ c.q.name \in entries[c.q.dir]
          /\ entries' = [entries EXCEPT ![c.q.dir] = @ \ {c.q.name}]
          /\ Lands(c) /\ UNCHANGED existing
       \/ Refused(c) \/ AnswerLost(c)

----------------------------------------------------------------------------
(* The panels                                                              *)

currentPath == IF shown["files"] = Nothing THEN Home ELSE shown["files"]

ShowsList(c) ==
    /\ c.at = "answer" /\ Ends(c)
    /\ spinning' = spinning \ {Panel(c)} /\ failed' = failed \ {Panel(c)}
    /\ shown' = [shown EXCEPT ![Panel(c)] = c.q]
    /\ IF c.fn = "list_snapshots" THEN listed' = c.found /\ UNCHANGED files
                                  ELSE files' = c.found /\ UNCHANGED listed
    /\ UNCHANGED <<asked, outsideVars, ghostVars>>

(* A command that changed a list has it read anew: the snapshots, or the   *)
(* directory that is shown by then.                                        *)
Succeeds(c) ==
    /\ c.at = "done"
    /\ \/ /\ c.fn \in {"create_snapshot", "delete_snapshot"}
          /\ Asks(Call(c.by, "list_snapshots", "disk", TheVm), c)
       \/ /\ c.fn \in FileCalls
          /\ Asks(Call(c.by, "sftp_list_directory", "sent", currentPath), c)
       \/ /\ c.fn \in PowerOps \cup {"create_disk_from_snapshot"} /\ Ends(c)
          /\ UNCHANGED <<panelVars, outsideVars, ghostVars>>

(* Creating a disk holds the screen, and creating a snapshot its form. The *)
(* VM is one of those listed.                                              *)
Running(fn) == \E c \in calls : c.fn = fn /\ c.at # "given up"
ConsolePress ==
    /\ Press /\ ~Running("create_disk_from_snapshot")
    /\ \E p \in selected : rows[p] # NoAccount

Question(fn, at, q) == LET c == Call(presses', fn, at, q) IN ConsolePress /\ Asks(c, c)

Command(fn, at, q) ==
    /\ ConsolePress
    /\ calls' = calls \cup {Call(presses', fn, at, q)}
    /\ UNCHANGED <<panelVars, outsideVars, ghostVars>>

(* The panel is opened, another port chosen, or refreshed by hand: the     *)
(* port's output from its start. Every 5 s it is asked for what is new     *)
(* since the answer shown, be that another port's.                         *)
SerialQuestion(port, since) ==
    Question("get_serial_port_output", "sent", [port |-> port, since |-> since])
_fetchSerialOutput(port) == SerialQuestion(port, Nothing)
_autoRefreshTimer ==
    /\ asked["serial"] # Nothing
    /\ SerialQuestion(asked["serial"].port,
                      IF shown["serial"] = Nothing THEN Nothing ELSE shown["serial"].port)
_fetchLogs(hours)        == Question("get_audit_logs", "sent", hours)
_fetchDiagnostics == "diagnostics" \notin spinning /\ Question("get_vm_diagnostics", "sent", TheVm)
_searchInstance(i) == "search" \notin spinning /\ Question("get_instance", "sent", i)
_loadBootDisk     == "disk" \notin spinning /\ Question("get_boot_disk_name", "sent", TheVm)

ListSnapshots == Question("list_snapshots", "disk", TheVm)
_submit(s) ==
    /\ "disk" \notin spinning /\ ~Running("create_snapshot")
    /\ Command("create_snapshot", "disk", s)
_confirmDelete(s)  == s \in listed /\ Command("delete_snapshot", "sent", s)
_confirmRestore(s) == s \in listed /\ Command("create_disk_from_snapshot", "sent", s)

_loadDirectory(d) == "files" \notin spinning /\ Question("sftp_list_directory", "sent", d)
createDirectory(n) ==
    /\ asked["files"] # Nothing
    /\ Command("sftp_create_directory", "sent", [dir |-> currentPath, name |-> n])
deleteEntry(n) ==
    /\ n \in files
    /\ Command("sftp_delete", "sent", [dir |-> currentPath, name |-> n])

(* The tunnels are closed first (Connections).                             *)
Power(op) == Command(op, "sent", TheVm)

----------------------------------------------------------------------------
ConsoleInit ==
    /\ asked = [p \in Panels |-> Nothing] /\ shown = asked
    /\ listed = {} /\ files = {} /\ failed = {} /\ spinning = {}
    /\ calls = {}
    /\ existing \in SUBSET (Snapshots \cup Namesakes) /\ entries \in [Dirs -> SUBSET Names]
    /\ muddled = {} /\ unsure = {"snapshots", "files"}

Presses ==
    \/ \E port \in Ports : _fetchSerialOutput(port)
    \/ \E h \in Hours : _fetchLogs(h)
    \/ \E i \in Instances : _searchInstance(i)
    \/ _autoRefreshTimer \/ _fetchDiagnostics \/ _loadBootDisk \/ ListSnapshots
    \/ \E s \in Snapshots : _submit(s)
    \/ \E s \in Snapshots \cup Namesakes : _confirmDelete(s) \/ _confirmRestore(s)
    \/ \E d \in Dirs : _loadDirectory(d)
    \/ \E n \in Names \cup Climbing : createDirectory(n) \/ deleteEntry(n)
    \/ \E op \in PowerOps : Power(op)

CallStep(c) ==
    \/ get_serial_port_output(c) \/ get_audit_logs(c) \/ get_instance(c)
    \/ get_vm_diagnostics(c) \/ get_guest_agent_status(c) \/ power_operation(c)
    \/ get_boot_disk_name(c) \/ list_snapshots(c) \/ create_snapshot(c)
    \/ delete_snapshot(c) \/ create_disk_from_snapshot(c)
    \/ sftp_list_directory(c) \/ sftp_create_directory(c) \/ sftp_delete(c)
    \/ ShowsList(c) \/ Succeeds(c)

CallsGoOn == \E c \in calls : CallStep(c)

ConsoleNext == Presses \/ CallsGoOn

(* The panels of a VM, in one run of the program.                          *)
ConsoleSpec == ConsoleInit /\ [][ConsoleNext]_consoleVars

(* Google, gcloud and the VM answer, or their time is over.                *)
ConsoleFairness == WF_consoleVars(CallsGoOn)

----------------------------------------------------------------------------
(* What a panel shows, once nothing is under way for it, is what it was    *)
(* last asked for, and its list is what there is (of snapshots, those of   *)
(* the namesakes too): through commands that overlap with readings and     *)
(* with each other, readings overtaken by later ones and commands reported *)
(* as failed. Excepted are panels two questions of which were under way at *)
(* once (diagnostics_panel's _fetchSerialOutput and _fetchLogs, the file   *)
(* browser's refresh), and, until the list is read again, a command given  *)
(* up, a reading that failed, and one that snapshots.rs:134 took for an    *)
(* empty list.                                                             *)
ShowsWhatWasAsked ==
    /\ \A p \in Panels \ (muddled \cup failed) : Readings(p) = {} => shown[p] = asked[p]
    /\ Of("snapshots") = {} /\ "snapshots" \notin unsure => listed = existing
    /\ Of("files") = {} /\ "files" \notin muddled \cup unsure
          => files = entries[shown["files"]]

ConsoleRests == calls = {} /\ spinning = {}

(* Once the user stops, every spinner stops, every wait is over and every  *)
(* button is enabled again.                                                *)
EverySpinnerStops == <>[](WorkspaceRests /\ ConsoleRests)
=============================================================================
